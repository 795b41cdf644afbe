--------------------------- MODULE TreeReduceProofs ---------------------------
(***************************************************************************)
(* Proofs about TreePlan and TreeReduce: for every group of up to 64 cores *)
(* and every length of the cache the rules the cores apply on their own    *)
(* agree, and for every group that runs, a parent is told of a result only *)
(* when all of it is there, the root's output covers every core, and the   *)
(* kernels never come to a stop before it is written.                      *)
(***************************************************************************)
EXTENDS TreeReduce, FiniteSetTheorems, WellFoundedInduction, TLAPS

-----------------------------------------------------------------------------
(* The shares of the cores *)

\* The chunks dealt to the cores numbered below rev, counted backwards.
Before(rev) == rev * (chunks \div cores) + (IF chunks % cores < rev THEN chunks % cores ELSE rev)

\* A nonempty set of natural numbers has a least element.
LEMMA LeastElement ==
    ASSUME NEW T \in SUBSET Nat, T # {}
    PROVE  \E x \in T : \A y \in T : x <= y
<1> DEFINE R == OpToRel(<, Nat)
<1>1. IsWellFoundedOn(R, Nat)
  BY NatLessThanWellFounded DEF OpToRel
<1>2. \A x, y \in Nat : x < y => <<x, y>> \in R
  BY DEF OpToRel
<1> HIDE DEF R
<1>3. PICK x \in T : \A y \in T : ~ (<<y, x>> \in R)
  BY <1>1, WFMin
<1>4. \A y \in T : ~(y < x)
  BY <1>2, <1>3
<1> QED BY <1>4

\* Division of the cache by the group.
LEMMA Dealt ==
    ASSUME cores \in Nat \ {0}, chunks \in Nat \ {0}
    PROVE  /\ chunks \div cores \in Nat /\ chunks % cores \in 0..(cores - 1)
           /\ chunks = cores * (chunks \div cores) + (chunks % cores)
           /\ cores <= chunks => chunks \div cores >= 1
<1>1. /\ chunks \div cores \in Nat /\ chunks % cores \in 0..(cores - 1)
      /\ chunks = cores * (chunks \div cores) + (chunks % cores)
  OBVIOUS
<1>2. ASSUME chunks \div cores = 0 PROVE ~(cores <= chunks)
  BY <1>1, <1>2
<1> QED BY <1>1, <1>2

\* Where each share begins and ends when the cores are at most as many as the chunks.
LEMMA DealtShares ==
    ASSUME cores \in Nat \ {0}, chunks \in Nat \ {0}, cores <= chunks
    PROVE  /\ \A c \in Group : /\ cores - c - 1 \in Nat
                               /\ ChunkStart(c) = Before(cores - c - 1)
                               /\ ChunkEnd(c) = Before(cores - c)
           /\ \A j \in Nat : Before(j) \in Nat /\ Before(j) < Before(j + 1)
           /\ Before(0) = 0 /\ Before(cores) = chunks
<1> DEFINE b == chunks \div cores
           rest == chunks % cores
<1>1. b \in Nat /\ b >= 1 /\ rest \in 0..(cores - 1) /\ chunks = cores * b + rest
  BY Dealt
<1>2. \A j : Before(j) = j * b + (IF rest < j THEN rest ELSE j)
  BY DEF Before
<1>3. \A c \in Group : /\ ChunkStart(c) = (cores - c - 1) * b + (IF rest < cores - c - 1 THEN rest ELSE cores - c - 1)
                       /\ ChunkEnd(c) = ChunkStart(c) + b + (IF cores - c - 1 < rest THEN 1 ELSE 0)
  BY DEF ChunkStart, ChunkEnd
<1> HIDE DEF b, rest
<1>4. ASSUME NEW j \in Nat
      PROVE  /\ Before(j) \in Nat /\ (j + 1) * b = j * b + b
             /\ Before(j + 1) = Before(j) + b + (IF j < rest THEN 1 ELSE 0)
  <2>1. j * b \in Nat /\ (j + 1) * b = j * b + b
    BY <1>1
  <2> QED BY <1>1, <1>2, <2>1
<1>5. ASSUME NEW c \in Group
      PROVE  /\ cores - c - 1 \in Nat /\ ChunkStart(c) = Before(cores - c - 1)
             /\ ChunkEnd(c) = Before(cores - c)
  <2>1. cores - c - 1 \in Nat /\ (cores - c - 1) + 1 = cores - c
    BY DEF Group
  <2>2. ChunkStart(c) = Before(cores - c - 1)
    BY <1>2, <1>3
  <2>3. Before(cores - c) = Before(cores - c - 1) + b + (IF cores - c - 1 < rest THEN 1 ELSE 0)
    BY <1>4, <2>1
  <2> QED BY <1>3, <2>1, <2>2, <2>3
<1>6. \A j \in Nat : Before(j) \in Nat /\ Before(j) < Before(j + 1)
  <2> SUFFICES ASSUME NEW j \in Nat PROVE Before(j) \in Nat /\ Before(j) < Before(j + 1)
    OBVIOUS
  <2> QED BY <1>1, <1>4
<1>7. Before(0) = 0
  <2>1. 0 * b = 0 /\ ~(rest < 0)
    BY <1>1
  <2> QED BY <1>2, <2>1
<1>8. Before(cores) = chunks
  BY <1>1, <1>2
<1> QED BY <1>5, <1>6, <1>7, <1>8

\* A later share begins no earlier.
LEMMA BeforeMonotone ==
    ASSUME cores \in Nat \ {0}, chunks \in Nat \ {0}, cores <= chunks,
           NEW j \in Nat, NEW k \in Nat, j <= k
    PROVE  Before(j) <= Before(k)
<1> DEFINE T == {n \in Nat : Before(j + n) < Before(j)}
<1>1. \A m \in Nat : Before(m) \in Nat /\ Before(m) < Before(m + 1)
  BY DealtShares
<1>2. CASE T = {}
  <2>1. k - j \in Nat /\ j + (k - j) = k
    OBVIOUS
  <2>2. ~(Before(j + (k - j)) < Before(j))
    BY <1>2, <2>1
  <2> QED BY <1>1, <2>1, <2>2
<1>3. CASE T # {}
  <2>1. PICK n \in T : \A m \in T : n <= m
    <3> HIDE DEF T
    <3>1. T \subseteq Nat
      BY DEF T
    <3> QED BY <1>3, <3>1, LeastElement
  <2>2. n \in Nat /\ Before(j + n) < Before(j) /\ n # 0
    <3>1. n \in Nat /\ Before(j + n) < Before(j)
      BY <2>1
    <3>2. j + 0 = j
      OBVIOUS
    <3> QED BY <1>1, <3>1, <3>2
  <2>3. n - 1 \in Nat /\ n - 1 \notin T
    BY <2>1, <2>2
  <2>4. j + (n - 1) \in Nat /\ (j + (n - 1)) + 1 = j + n /\ ~(Before(j + (n - 1)) < Before(j))
    BY <2>2, <2>3
  <2>5. Before(j + (n - 1)) \in Nat /\ Before(j + (n - 1)) < Before(j + n) /\ Before(j) \in Nat /\ Before(j + n) \in Nat
    BY <1>1, <2>2, <2>4
  <2> QED BY <2>2, <2>4, <2>5
<1> QED BY <1>2, <1>3

\* A core has chunks just when its number is below their count: the rule by which a parent knows
\* its active children.
LEMMA DataRule ==
    ASSUME cores \in Nat \ {0}, chunks \in Nat \ {0}, NEW c \in Group
    PROVE  HasLocalData(c) <=> c < chunks
<1>1. c \in Nat /\ c < cores
  BY DEF Group
<1>2. CASE cores > chunks
  BY <1>1, <1>2 DEF HasLocalData, ChunkStart, ChunkEnd
<1>3. CASE cores <= chunks
  <2>1. /\ cores - c - 1 \in Nat /\ ChunkStart(c) = Before(cores - c - 1)
        /\ ChunkEnd(c) = Before(cores - c) /\ (cores - c - 1) + 1 = cores - c
    BY <1>1, <1>3, DealtShares
  <2>2. Before(cores - c - 1) \in Nat /\ Before(cores - c - 1) < Before(cores - c)
    BY <1>3, <2>1, DealtShares
  <2>3. Before(cores - c - 1) # Before(cores - c)
    <3>1. ~(Before(cores - c - 1) < Before(cores - c - 1))
      BY <2>2
    <3> QED BY <2>2, <3>1
  <2> QED BY <1>1, <1>3, <2>1, <2>3 DEF HasLocalData
<1> QED BY <1>1, <1>2, <1>3

\* The shares of the cores are a partition of the cache, for every group and every length: no
\* chunk up to the position of the step is left out or read twice.
THEOREM SharesCover ==
    ASSUME cores \in Nat \ {0}, chunks \in Nat \ {0}
    PROVE  SharesPartition
<1> DEFINE Readers(i) == {c \in Group : ChunkStart(c) <= i /\ i < ChunkEnd(c)}
<1>1. CASE cores > chunks
  <2>1. ASSUME NEW c \in Group
        PROVE  0 <= ChunkStart(c) /\ ChunkStart(c) <= ChunkEnd(c) /\ ChunkEnd(c) <= chunks
    BY <1>1, <2>1 DEF Group, ChunkStart, ChunkEnd
  <2>2. ASSUME NEW i \in 0..(chunks - 1) PROVE \E c : Readers(i) = {c}
    <3>1. chunks - 1 - i \in Group
      BY <1>1 DEF Group
    <3>2. \A c \in Group : ChunkStart(c) <= i /\ i < ChunkEnd(c) <=> c = chunks - 1 - i
      BY <1>1 DEF Group, ChunkStart, ChunkEnd
    <3> QED BY <3>1, <3>2
  <2>3. ASSUME NEW i \in 0..(chunks - 1) PROVE Cardinality(Readers(i)) = 1
    <3> HIDE DEF Readers
    <3> QED BY <2>2, FS_Singleton
  <2> QED BY <2>1, <2>3 DEF SharesPartition
<1>2. CASE cores <= chunks
  <2>1. /\ \A c \in Group : /\ cores - c - 1 \in Nat /\ ChunkStart(c) = Before(cores - c - 1)
                            /\ ChunkEnd(c) = Before(cores - c)
        /\ \A j \in Nat : Before(j) \in Nat /\ Before(j) < Before(j + 1)
        /\ Before(0) = 0 /\ Before(cores) = chunks
    BY <1>2, DealtShares
  <2>2. ASSUME NEW c \in Group
        PROVE  0 <= ChunkStart(c) /\ ChunkStart(c) <= ChunkEnd(c) /\ ChunkEnd(c) <= chunks
    <3>1. cores - c - 1 \in Nat /\ cores - c \in Nat /\ cores - c - 1 <= cores - c /\ cores - c <= cores
      BY DEF Group
    <3>2. Before(cores - c - 1) <= Before(cores - c) /\ Before(cores - c) <= Before(cores)
      BY <1>2, <3>1, BeforeMonotone
    <3>3. Before(cores - c - 1) \in Nat
      BY <2>1, <3>1
    <3> QED BY <2>1, <3>2, <3>3
  <2>3. ASSUME NEW i \in 0..(chunks - 1) PROVE \E c : Readers(i) = {c}
    <3> DEFINE T == {n \in Nat : i < Before(n)}
    <3>1. T \subseteq Nat /\ cores \in T
      BY <2>1
    <3> HIDE DEF T
    <3>2. PICK k \in T : \A m \in T : k <= m
      BY <3>1, LeastElement
    <3> USE DEF T
    <3>3. k \in Nat /\ i < Before(k) /\ k # 0 /\ k <= cores
      BY <2>1, <3>1, <3>2
    <3>4. k - 1 \in Nat /\ ~(i < Before(k - 1)) /\ Before(k - 1) \in Nat
      <4>1. k - 1 \in Nat /\ ~(k <= k - 1)
        BY <3>3
      <4> QED BY <2>1, <3>2, <4>1
    <3>5. cores - k \in Group /\ cores - (cores - k) - 1 = k - 1 /\ cores - (cores - k) = k
      BY <3>3 DEF Group
    <3>6. cores - k \in Readers(i)
      BY <2>1, <3>3, <3>4, <3>5
    <3>7. ASSUME NEW c \in Readers(i) PROVE c = cores - k
      <4>1. /\ c \in Group /\ c \in Int /\ cores - c \in Nat /\ cores - c - 1 \in Nat
            /\ Before(cores - c - 1) <= i /\ i < Before(cores - c)
            /\ Before(cores - c - 1) \in Nat /\ Before(cores - c) \in Nat
        BY <2>1 DEF Group
      <4>2. k <= cores - c
        BY <3>2, <4>1
      <4>3. CASE k <= cores - c - 1
        <5>1. Before(k) <= Before(cores - c - 1) /\ Before(k) \in Nat
          BY <1>2, <2>1, <3>3, <4>1, <4>3, BeforeMonotone
        <5> QED BY <3>3, <4>1, <5>1
      <4> QED BY <3>3, <4>1, <4>2, <4>3
    <3> QED BY <3>6, <3>7
  <2>4. ASSUME NEW i \in 0..(chunks - 1) PROVE Cardinality(Readers(i)) = 1
    <3> HIDE DEF Readers
    <3> QED BY <2>3, FS_Singleton
  <2> QED BY <2>2, <2>4 DEF SharesPartition
<1> QED BY <1>1, <1>2

-----------------------------------------------------------------------------
(* The tree of the host *)

\* The powers of two the plan of up to 64 cores computes with; no other within 32 bits is as small.
PowerOf2(t) == 2^t

LEMMA Powers ==
    /\ PowerOf2(0) = 1 /\ PowerOf2(1) = 2 /\ PowerOf2(2) = 4 /\ PowerOf2(3) = 8 /\ PowerOf2(4) = 16
    /\ PowerOf2(5) = 32 /\ PowerOf2(6) = 64 /\ PowerOf2(7) = 128
    /\ \A t \in 7..31 : PowerOf2(t) \in Nat /\ PowerOf2(t) >= 128
<1>1. /\ PowerOf2(0) = 1 /\ PowerOf2(1) = 2 /\ PowerOf2(2) = 4 /\ PowerOf2(3) = 8 /\ PowerOf2(4) = 16
      /\ PowerOf2(5) = 32 /\ PowerOf2(6) = 64 /\ PowerOf2(7) = 128 /\ PowerOf2(8) = 256
      /\ PowerOf2(9) = 512 /\ PowerOf2(10) = 1024 /\ PowerOf2(11) = 2048 /\ PowerOf2(12) = 4096
      /\ PowerOf2(13) = 8192 /\ PowerOf2(14) = 16384 /\ PowerOf2(15) = 32768 /\ PowerOf2(16) = 65536
      /\ PowerOf2(17) = 131072 /\ PowerOf2(18) = 262144 /\ PowerOf2(19) = 524288
      /\ PowerOf2(20) = 1048576 /\ PowerOf2(21) = 2097152 /\ PowerOf2(22) = 4194304
      /\ PowerOf2(23) = 8388608 /\ PowerOf2(24) = 16777216 /\ PowerOf2(25) = 33554432
      /\ PowerOf2(26) = 67108864 /\ PowerOf2(27) = 134217728 /\ PowerOf2(28) = 268435456
      /\ PowerOf2(29) = 536870912 /\ PowerOf2(30) = 1073741824 /\ PowerOf2(31) = 2147483648
  BY DEF PowerOf2
<1>2. ASSUME NEW t \in 7..31 PROVE PowerOf2(t) \in Nat /\ PowerOf2(t) >= 128
  <2>1. t \in {7, 8, 9, 10, 11, 12, 13, 14, 15, 16, 17, 18, 19, 20, 21, 22, 23, 24, 25, 26, 27, 28,
               29, 30, 31}
    OBVIOUS
  <2> QED BY <1>1, <2>1
<1> QED BY <1>1, <1>2

\* So a power of two up to 64 is one of seven, and each is half the next.
LEMMA SmallPowers ==
    \A t \in 0..6 : /\ 2^t \in {1, 2, 4, 8, 16, 32, 64}
                    /\ 2^(t + 1) = 2 * 2^t
                    /\ t < 6 => 2^t <= 32
                    /\ \A u \in 0..6 : t < u => 2 * 2^t <= 2^u
<1>1. ASSUME NEW t \in 0..6
      PROVE  /\ PowerOf2(t) \in {1, 2, 4, 8, 16, 32, 64}
             /\ PowerOf2(t + 1) = 2 * PowerOf2(t)
             /\ t < 6 => PowerOf2(t) <= 32
  <2>1. t \in {0, 1, 2, 3, 4, 5, 6}
    OBVIOUS
  <2> QED BY <2>1, Powers
<1>2. ASSUME NEW t \in 0..6, NEW u \in 0..6, t < u PROVE 2 * PowerOf2(t) <= PowerOf2(u)
  <2>1. t \in {0, 1, 2, 3, 4, 5, 6} /\ u \in {0, 1, 2, 3, 4, 5, 6}
    OBVIOUS
  <2> QED BY <1>2, <2>1, Powers
<1> QED BY <1>1, <1>2 DEF PowerOf2

\* A number ends in exactly t ones when, modulo the next power of two, it is one short of 2^t.
EndsInOnes(v, t) == v % 2^(t + 1) = 2^t - 1

LEMMA TrailingOnesIs ==
    ASSUME NEW v \in 0..63
    PROVE  TrailingOnes(v) \in 0..6 /\ EndsInOnes(v, TrailingOnes(v))
<1> DEFINE Ones(t) == (v \div 2^t) % 2 = 0 /\ v % 2^t = 2^t - 1
<1>1. \E t \in 0..6 : Ones(t)
  <2>1. v % 2 = 0 => Ones(0)
    BY Powers DEF PowerOf2
  <2>2. v % 4 = 1 => Ones(1)
    BY Powers DEF PowerOf2
  <2>3. v % 8 = 3 => Ones(2)
    BY Powers DEF PowerOf2
  <2>4. v % 16 = 7 => Ones(3)
    BY Powers DEF PowerOf2
  <2>5. v % 32 = 15 => Ones(4)
    BY Powers DEF PowerOf2
  <2>6. v = 31 => Ones(5)
    BY Powers DEF PowerOf2
  <2>7. v = 63 => Ones(6)
    BY Powers DEF PowerOf2
  <2>8. v % 2 = 0 \/ v % 4 = 1 \/ v % 8 = 3 \/ v % 16 = 7 \/ v % 32 = 15 \/ v = 31 \/ v = 63
    OBVIOUS
  <2> HIDE DEF Ones
  <2> QED BY <2>1, <2>2, <2>3, <2>4, <2>5, <2>6, <2>7, <2>8
<1>2. ASSUME NEW t \in 0..31, Ones(t) PROVE t \in 0..6
  <2> DEFINE m == 2^t
  <2>1. t \in 7..31 => m \in Nat /\ m >= 128
    BY Powers DEF PowerOf2
  <2>2. v % m = m - 1
    BY <1>2
  <2> HIDE DEF m
  <2>3. t \in 7..31 => v % m = v
    BY <2>1
  <2> QED BY <2>1, <2>2, <2>3
<1>3. ASSUME NEW t \in 0..6, Ones(t) PROVE EndsInOnes(v, t)
  <2> DEFINE m == 2^t
  <2>1. m \in {1, 2, 4, 8, 16, 32, 64} /\ 2^(t + 1) = 2 * m
    BY SmallPowers
  <2>2. (v \div m) % 2 = 0 /\ v % m = m - 1
    BY <1>3
  <2> HIDE DEF m
  <2>3. v % (2 * m) = m - 1
    <3>1. CASE m = 1
      BY <2>2, <3>1
    <3>2. CASE m = 2
      BY <2>2, <3>2
    <3>3. CASE m = 4
      BY <2>2, <3>3
    <3>4. CASE m = 8
      BY <2>2, <3>4
    <3>5. CASE m = 16
      BY <2>2, <3>5
    <3>6. CASE m = 32
      BY <2>2, <3>6
    <3>7. CASE m = 64
      BY <2>2, <3>7
    <3> QED BY <2>1, <3>1, <3>2, <3>3, <3>4, <3>5, <3>6, <3>7
  <2> QED BY <2>1, <2>3 DEF EndsInOnes, m
<1>4. TrailingOnes(v) = CHOOSE t \in 0..31 : Ones(t)
  BY DEF TrailingOnes
<1> HIDE DEF Ones
<1>5. TrailingOnes(v) \in 0..31 /\ Ones(TrailingOnes(v))
  BY <1>1, <1>4
<1> QED BY <1>2, <1>3, <1>5

\* A number ends in one number of ones only.
LEMMA OnesUnique ==
    ASSUME NEW v \in 0..63, NEW t \in 0..6, NEW u \in 0..6, EndsInOnes(v, t), EndsInOnes(v, u)
    PROVE  t = u
<1> SUFFICES ASSUME NEW a \in 0..6, NEW b \in 0..6, a < b, EndsInOnes(v, a), EndsInOnes(v, b)
             PROVE  FALSE
  OBVIOUS
<1> DEFINE m == 2^a
           n == 2^b
<1>1. v % (2 * m) = m - 1 /\ v % (2 * n) = n - 1 /\ m \in {1, 2, 4, 8, 16, 32, 64} /\ n \in {1, 2, 4, 8, 16, 32, 64}
  BY SmallPowers DEF EndsInOnes
<1>2. 2 * m <= n
  BY SmallPowers
<1> HIDE DEF m, n
<1>3. /\ m = 1 => v % 2 = 0
      /\ m = 2 => v % 4 = 1
      /\ m = 4 => v % 8 = 3
      /\ m = 8 => v % 16 = 7
      /\ m = 16 => v % 32 = 15
      /\ m = 32 => v % 64 = 31
  BY <1>1
<1>4. CASE n = 2
  <2>1. v % 4 = 1 /\ m \in {1}
    BY <1>1, <1>2, <1>4
  <2> QED BY <1>3, <2>1
<1>5. CASE n = 4
  <2>1. v % 8 = 3 /\ m \in {1, 2}
    BY <1>1, <1>2, <1>5
  <2> QED BY <1>3, <2>1
<1>6. CASE n = 8
  <2>1. v % 16 = 7 /\ m \in {1, 2, 4}
    BY <1>1, <1>2, <1>6
  <2> QED BY <1>3, <2>1
<1>7. CASE n = 16
  <2>1. v % 32 = 15 /\ m \in {1, 2, 4, 8}
    BY <1>1, <1>2, <1>7
  <2> QED BY <1>3, <2>1
<1>8. CASE n = 32
  <2>1. v % 64 = 31 /\ m \in {1, 2, 4, 8, 16}
    BY <1>1, <1>2, <1>8
  <2> QED BY <1>3, <2>1
<1>9. CASE n = 64
  <2>1. v % 128 = 63 /\ m \in {1, 2, 4, 8, 16, 32}
    BY <1>1, <1>2, <1>9
  <2> QED BY <1>3, <2>1
<1> QED BY <1>1, <1>2, <1>4, <1>5, <1>6, <1>7, <1>8, <1>9

\* Adding 2^t to a number that ends in t ones gives one that ends in one more.
LEMMA OneMore ==
    ASSUME NEW m \in {1, 2, 4, 8, 16, 32, 64}, NEW v \in 0..63
    PROVE  v % (2 * m) = m - 1 <=> (v + m) % (2 * m) = 2 * m - 1
<1>1. CASE m = 1
  BY <1>1
<1>2. CASE m = 2
  BY <1>2
<1>3. CASE m = 4
  BY <1>3
<1>4. CASE m = 8
  BY <1>4
<1>5. CASE m = 16
  BY <1>5
<1>6. CASE m = 32
  BY <1>6
<1>7. CASE m = 64
  BY <1>7
<1> QED BY <1>1, <1>2, <1>3, <1>4, <1>5, <1>6, <1>7

\* Numbers that end in the same ones are a whole period apart, and a multiple of the period lies
\* half a period from the next of them.
LEMMA Periods ==
    ASSUME NEW m \in {1, 2, 4, 8, 16, 32, 64}, NEW v \in 0..63, NEW w \in 0..63, v % (2 * m) = m - 1
    PROVE  /\ w % (2 * m) = m - 1 /\ v - w < 2 * m /\ w - v < 2 * m => v = w
           /\ w % (2 * m) = 2 * m - 1 => ~(v < w /\ w < v + m)
           /\ v >= m - 1
<1>1. CASE m = 1
  BY <1>1
<1>2. CASE m = 2
  BY <1>2
<1>3. CASE m = 4
  BY <1>3
<1>4. CASE m = 8
  BY <1>4
<1>5. CASE m = 16
  BY <1>5
<1>6. CASE m = 32
  BY <1>6
<1>7. CASE m = 64
  BY <1>7
<1> QED BY <1>1, <1>2, <1>3, <1>4, <1>5, <1>6, <1>7

\* Where a core stands in the tree.
LEMMA Places ==
    ASSUME cores \in 1..64, NEW c \in Group
    PROVE  /\ c \in Nat /\ c < cores /\ Vid(c) = cores - 1 - c /\ Vid(c) \in 0..63 /\ Vid(c) < cores
           /\ SendAt(c) \in 0..6 /\ EndsInOnes(Vid(c), SendAt(c))
           /\ 2^SendAt(c) \in {1, 2, 4, 8, 16, 32, 64} /\ 2^(SendAt(c) + 1) = 2 * 2^SendAt(c)
           /\ c # 0 => SendAt(c) \in Rounds
<1>1. c \in Nat /\ c < cores /\ Vid(c) = cores - 1 - c /\ Vid(c) \in 0..63 /\ Vid(c) < cores
  BY DEF Group, Vid
<1>2. SendAt(c) \in 0..6 /\ EndsInOnes(Vid(c), SendAt(c))
  BY <1>1, TrailingOnesIs DEF SendAt
<1>3. 2^SendAt(c) \in {1, 2, 4, 8, 16, 32, 64} /\ 2^(SendAt(c) + 1) = 2 * 2^SendAt(c)
  BY <1>2, SmallPowers
<1>4. ASSUME c # 0, SendAt(c) = 6 PROVE FALSE
  <2>1. Vid(c) % 128 = 63
    BY <1>2, <1>4, Powers DEF EndsInOnes, PowerOf2
  <2> QED BY <1>1, <1>4, <2>1
<1>5. c # 0 => SendAt(c) \in Rounds
  BY <1>2, <1>4 DEF Rounds
<1> QED BY <1>1, <1>2, <1>3, <1>5

\* The number of rounds is that of the least power of two that holds the group.
LEMMA NumRoundsIs ==
    ASSUME cores \in 1..64
    PROVE  NumRounds \in 0..6 /\ 2^NumRounds >= cores
<1> DEFINE Fits(r) == 2^r >= cores /\ (r > 0 => 2^(r - 1) < cores)
<1>1. \E r \in 0..6 : Fits(r)
  <2>1. /\ cores <= 1 => Fits(0)
        /\ cores \in 2..2 => Fits(1)
        /\ cores \in 3..4 => Fits(2)
        /\ cores \in 5..8 => Fits(3)
        /\ cores \in 9..16 => Fits(4)
        /\ cores \in 17..32 => Fits(5)
        /\ cores \in 33..64 => Fits(6)
    BY Powers DEF PowerOf2
  <2> HIDE DEF Fits
  <2> QED BY <2>1
<1> QED BY <1>1 DEF NumRounds

\* A round the tree of the group has: a core that ends in that many ones is in it.
LEMMA RoundExists ==
    ASSUME cores \in 1..64, NEW t \in Rounds, 2^(t + 1) <= cores
    PROVE  t < NumRounds
<1>1. NumRounds \in 0..6 /\ t \in 0..6 /\ t + 1 \in 0..6 /\ t \in Int
  BY NumRoundsIs DEF Rounds
<1>2. 2^NumRounds \in {1, 2, 4, 8, 16, 32, 64} /\ 2^(t + 1) = 2 * 2^t /\ 2^t \in {1, 2, 4, 8, 16, 32, 64}
  BY <1>1, SmallPowers
<1>3. CASE NumRounds < t
  <2>1. 2 * 2^NumRounds <= 2^t
    BY <1>1, <1>3, SmallPowers
  <2> DEFINE m == 2^t
             n == 2^NumRounds
  <2>2. 2 * n <= m /\ 2 * m <= cores /\ n >= cores /\ m \in Nat /\ n \in Nat /\ cores > 0
    BY <1>2, <2>1, NumRoundsIs
  <2> HIDE DEF m, n
  <2> QED BY <2>2
<1>4. CASE NumRounds = t
  <2> DEFINE m == 2^t
  <2>1. 2 * m <= cores /\ m >= cores /\ m \in Nat /\ cores > 0
    BY <1>2, <1>4, NumRoundsIs
  <2> HIDE DEF m
  <2> QED BY <2>1
<1> QED BY <1>1, <1>3, <1>4

\* A core that is not an orphan is the child, in the round it sends in, of a core above the root
\* or of the root itself.
LEMMA NaturalParent ==
    ASSUME cores \in 1..64, NEW c \in Group, c # 0, ~IsOrphan(c)
    PROVE  /\ Parent(c) \in 0..(c - 1) /\ Parent(c) \in Group
           /\ NaturalChild(Parent(c), SendAt(c)) = c
<1> DEFINE m == 2^SendAt(c)
           v == Vid(c)
           p == Parent(c)
           t == SendAt(c)
<1>1. /\ c \in Nat /\ c < cores /\ v = cores - 1 - c /\ v \in 0..63
      /\ m \in {1, 2, 4, 8, 16, 32, 64} /\ 2^(t + 1) = 2 * m /\ v % (2 * m) = m - 1
      /\ t \in Rounds
  BY Places DEF EndsInOnes
<1>2. v + m < cores /\ p = c - m
  <2>1. ~(v + m >= cores)
    BY DEF IsOrphan
  <2> QED BY <1>1, <2>1 DEF Parent
<1>3. Vid(p) = cores - 1 - p
  BY DEF Vid
<1> HIDE DEF m, v, p, t
<1>4. p \in 0..(c - 1) /\ p < cores /\ cores - 1 - p = v + m /\ p + m = c
  BY <1>1, <1>2
<1>5. p \in Group
  BY <1>4 DEF Group
<1>6. (v + m) % (2 * m) = 2 * m - 1 /\ v >= m - 1
  BY <1>1, OneMore, Periods
<1>7. 2 * m <= cores
  BY <1>1, <1>2, <1>6
<1>8. t < NumRounds
  BY <1>1, <1>7, RoundExists
<1>9. NaturalChild(p, t) = p + 2^t
  BY <1>1, <1>3, <1>4, <1>6, <1>8 DEF NaturalChild
<1> QED BY <1>4, <1>5, <1>9 DEF m, p, t

\* The child of the tree in a round sends to just that parent in that round.
LEMMA NaturalChildSends ==
    ASSUME cores \in 1..64, NEW p \in Group, NEW r \in Rounds, NaturalChild(p, r) # Nobody
    PROVE  LET c == NaturalChild(p, r)
           IN  c \in Group /\ c # 0 /\ ~IsOrphan(c) /\ Parent(c) = p /\ SendAt(c) = r
<1> DEFINE c == NaturalChild(p, r)
           m == 2^r
           w == Vid(p)
<1>1. /\ w % (2 * m) = 2 * m - 1 /\ c = p + m /\ m \in {1, 2, 4, 8, 16, 32, 64}
      /\ p \in Nat /\ p < cores /\ w = cores - 1 - p /\ w \in 0..63 /\ 2^(r + 1) = 2 * m /\ r \in 0..6
  <2>1. r \in 0..6
    BY DEF Rounds
  <2>2. m \in {1, 2, 4, 8, 16, 32, 64} /\ 2^(r + 1) = 2 * m
    BY <2>1, SmallPowers
  <2>3. p \in Nat /\ p < cores /\ w = cores - 1 - p /\ w \in 0..63
    BY Places
  <2>4. w % 2^(r + 1) = 2^(r + 1) - 1 /\ c = p + m
    BY DEF NaturalChild
  <2> QED BY <2>1, <2>2, <2>3, <2>4
<1>2. Vid(c) = cores - 1 - c
  BY DEF Vid
<1>3. EndsInOnes(Vid(c), r) <=> Vid(c) % (2 * m) = m - 1
  BY <1>1 DEF EndsInOnes
<1> HIDE DEF c, m, w
<1>4. w >= 2 * m - 1
  <2>1. CASE w < 2 * m
    BY <1>1, <2>1
  <2> QED BY <1>1, <2>1
<1>5. /\ c \in Nat /\ c < cores /\ c # 0 /\ cores - 1 - c = w - m /\ w - m \in 0..63
      /\ (w - m) + m = w
  BY <1>1, <1>4
<1>6. c \in Group
  BY <1>5 DEF Group
<1>7. EndsInOnes(Vid(c), r)
  BY <1>1, <1>2, <1>3, <1>5, OneMore
<1>8. SendAt(c) = r
  <2>1. Vid(c) \in 0..63 /\ SendAt(c) \in 0..6 /\ EndsInOnes(Vid(c), SendAt(c))
    BY <1>6, Places
  <2> QED BY <1>1, <1>7, <2>1, OnesUnique
<1>9. Vid(c) + 2^SendAt(c) = w /\ ~(w >= cores)
  BY <1>1, <1>2, <1>5, <1>8 DEF m
<1>10. ~IsOrphan(c)
  BY <1>9 DEF IsOrphan
<1>11. Parent(c) = p
  <2>1. c - 2^SendAt(c) = p
    BY <1>1, <1>8 DEF m
  <2> QED BY <1>10, <2>1 DEF Parent
<1> QED BY <1>5, <1>6, <1>8, <1>10, <1>11 DEF c

\* The root has one orphan at most in a round, and no child of the tree in the same round.
LEMMA OrphanAlone ==
    ASSUME cores \in 1..64, NEW c \in Group, c # 0, IsOrphan(c)
    PROVE  /\ Parent(c) = 0 /\ NaturalChild(0, SendAt(c)) = Nobody /\ Orphans(SendAt(c)) = {c}
           /\ Child(0, SendAt(c)) = c
<1> DEFINE t == SendAt(c)
           m == 2^SendAt(c)
           v == Vid(c)
<1>1. 0 \in Group
  BY DEF Group
<1>2. /\ c \in Nat /\ v = cores - 1 - c /\ v \in 0..63 /\ t \in Rounds
      /\ m \in {1, 2, 4, 8, 16, 32, 64} /\ 2^(t + 1) = 2 * m /\ v % (2 * m) = m - 1 /\ v + m >= cores
      /\ Vid(0) = cores - 1 /\ Vid(0) \in 0..63
  BY <1>1, Places DEF EndsInOnes, IsOrphan
<1>3. Parent(c) = 0
  BY DEF Parent
<1>4. NaturalChild(0, t) = Nobody
  <2>1. NaturalChild(0, t) # Nobody => Vid(0) % (2 * m) = 2 * m - 1
    BY <1>2 DEF NaturalChild
  <2>2. ASSUME Vid(0) % (2 * m) = 2 * m - 1 PROVE FALSE
    <3> HIDE DEF t, m, v
    <3>1. ~(v < Vid(0) /\ Vid(0) < v + m)
      BY <1>2, <2>2, Periods
    <3> QED BY <1>2, <3>1
  <2> QED BY <2>1, <2>2
<1>5. ASSUME NEW o \in Orphans(t) PROVE o = c
  <2> DEFINE w == Vid(o)
  <2>1. o \in Group /\ o # 0 /\ IsOrphan(o) /\ SendAt(o) = t
    BY DEF Orphans
  <2>2. /\ o \in Nat /\ w = cores - 1 - o /\ w \in 0..63 /\ w % (2 * m) = m - 1 /\ w + m >= cores
    BY <1>2, <2>1, Places DEF EndsInOnes, IsOrphan
  <2> HIDE DEF t, m, v, w
  <2>3. v - w < 2 * m /\ w - v < 2 * m
    BY <1>2, <2>2
  <2>4. v = w
    BY <1>2, <2>2, <2>3, Periods
  <2> QED BY <1>2, <2>2, <2>4
<1>6. c \in Orphans(t)
  BY DEF Orphans
<1>7. Orphans(t) = {c}
  BY <1>5, <1>6
<1>8. Child(0, t) = c
  <2>1. Child(0, t) = CHOOSE o \in Orphans(t) : \A p \in Orphans(t) : o <= p
    BY <1>4, <1>6 DEF Child
  <2>2. c <= c
    BY <1>2
  <2> QED BY <1>7, <2>1, <2>2
<1> QED BY <1>3, <1>4, <1>7, <1>8

\* The plan of a group and a length.
PlanGiven == cores \in 1..64 /\ chunks \in Nat \ {0}

\* A core sends to a core nearer the root, which has it as its child in the round it sends in.
LEMMA ParentAwaits ==
    ASSUME PlanGiven, NEW c \in Group, c # 0
    PROVE  /\ Parent(c) \in 0..(c - 1) /\ Parent(c) \in Group /\ SendAt(c) \in Rounds
           /\ Child(Parent(c), SendAt(c)) = c
<1>1. SendAt(c) \in Rounds /\ c \in Nat /\ 0 \in Group /\ Nobody # c
  BY Places DEF PlanGiven, Group, Nobody
<1>2. CASE IsOrphan(c)
  BY <1>1, <1>2, OrphanAlone DEF PlanGiven
<1>3. CASE ~IsOrphan(c)
  BY <1>1, <1>3, NaturalParent DEF PlanGiven, Child
<1> QED BY <1>2, <1>3

\* Whoever is a child in a round sends to that parent in that round.
LEMMA ChildSends ==
    ASSUME PlanGiven, NEW p \in Group, NEW r \in Rounds, Child(p, r) # Nobody
    PROVE  /\ Child(p, r) \in Group /\ Child(p, r) # 0
           /\ Parent(Child(p, r)) = p /\ SendAt(Child(p, r)) = r
<1>1. CASE NaturalChild(p, r) # Nobody
  <2>1. Child(p, r) = NaturalChild(p, r)
    BY <1>1 DEF Child
  <2> QED BY <1>1, <2>1, NaturalChildSends DEF PlanGiven
<1>2. CASE NaturalChild(p, r) = Nobody
  <2>1. p = 0 /\ Orphans(r) # {}
    BY <1>2 DEF Child
  <2>2. PICK o \in Orphans(r) : TRUE
    BY <2>1
  <2>3. o \in Group /\ o # 0 /\ IsOrphan(o) /\ SendAt(o) = r
    BY <2>2 DEF Orphans
  <2> QED BY <2>1, <2>3, OrphanAlone DEF PlanGiven
<1> QED BY <1>1, <1>2

\* No wait in vain and no result unread, for every group of up to 64 cores and every length: a
\* core that takes part is awaited by its parent, in the round it sends in, and nobody else is.
THEOREM TreeAgrees == PlanGiven => SendersMatchWaiters
<1> SUFFICES ASSUME PlanGiven PROVE SendersMatchWaiters
  OBVIOUS
<1>1. /\ \A c \in Group : c \in Nat /\ (HasLocalData(c) <=> c < chunks) /\ c # Nobody
      /\ chunks \in Nat
  BY DataRule DEF PlanGiven, Group, Nobody
<1>2. ASSUME NEW c \in Group, HasLocalData(c), c # 0
      PROVE  /\ HasLocalData(Parent(c)) /\ SendAt(c) \in ActiveRounds(Parent(c))
             /\ Child(Parent(c), SendAt(c)) = c
  <2>1. /\ Parent(c) \in 0..(c - 1) /\ Parent(c) \in Group /\ SendAt(c) \in Rounds
        /\ Child(Parent(c), SendAt(c)) = c
    BY <1>2, ParentAwaits
  <2>2. c < chunks /\ c \in Nat /\ c # Nobody
    BY <1>1, <1>2
  <2>3. Parent(c) < chunks
    BY <1>1, <2>1, <2>2
  <2>4. SendAt(c) \in ActiveRounds(Parent(c))
    BY <2>1, <2>2 DEF ActiveRounds, ActiveChild
  <2> QED BY <1>1, <2>1, <2>3, <2>4
<1>3. ASSUME NEW p \in Group, NEW r \in ActiveRounds(p)
      PROVE  /\ Child(p, r) # 0 /\ HasLocalData(Child(p, r))
             /\ Parent(Child(p, r)) = p /\ SendAt(Child(p, r)) = r
  <2>1. r \in Rounds /\ Child(p, r) # Nobody /\ Child(p, r) < chunks
    BY <1>3 DEF ActiveRounds, ActiveChild
  <2>2. Child(p, r) \in Group /\ Child(p, r) # 0 /\ Parent(Child(p, r)) = p /\ SendAt(Child(p, r)) = r
    BY <2>1, ChildSends
  <2> QED BY <1>1, <2>1, <2>2
<1> QED BY <1>2, <1>3 DEF SendersMatchWaiters

-----------------------------------------------------------------------------
(* The inductive invariant of the kernels *)

\* The cores whose kernels run.
Running == {c \in Group : Runs(c)}

\* Types of the rest of the state.
Landings ==
    /\ block \in [Group -> [Rounds -> [Parts -> SUBSET Group]]]
    /\ flight \subseteq Group \X Parts \X SUBSET Group
    /\ sflight \subseteq Group /\ output \subseteq Group

\* Writer and compute kernel of c are at the same child, or behind the last.
Level(c) ==
    /\ todo[c] = ctodo[c]
    /\ ctodo[c] # {} =>
         /\ wpc[c] \in {"poll", "giveL", "giveM", "giveO"}
         /\ cpc[c] \in {"local", "takeL"} \/ (cpc[c] = "takeO" /\ wpc[c] \in {"giveM", "giveO"})
    /\ ctodo[c] = {} =>
         /\ c = 0 => wpc[c] \in {"root", "end"} /\ cpc[c] \in {"local", "end"}
         /\ c # 0 => /\ wpc[c] \in {"send", "barrier", "atomic", "end"}
                     /\ cpc[c] \in {"local", "moveO", "moveM", "moveL", "end"}
         /\ wpc[c] \in {"barrier", "atomic", "end"} => cpc[c] = "end"

\* The writer has handed over the child the compute kernel is at, and no more than the L of the next.
Ahead(c) ==
    /\ ctodo[c] # {} /\ todo[c] = ctodo[c] \ {Min(ctodo[c])}
    /\ cpc[c] \in {"local", "takeL", "takeO", "takeM"}
    /\ todo[c] # {} => wpc[c] \in {"poll", "giveL", "giveM"}
    /\ wpc[c] = "giveM" => cpc[c] \in {"takeO", "takeM"}
    /\ todo[c] = {} => wpc[c] = IF c = 0 THEN "root" ELSE "send"

InStep(c) ==
    /\ ctodo[c] \subseteq ActiveRounds(c) /\ (Level(c) \/ Ahead(c))
    /\ cpc[c] = "local" => ctodo[c] = ActiveRounds(c)

\* What each buffer of a core holds: a child's L, M or O, the core's own, or nothing.
HoldsL(c) ==
    IF cpc[c] \in {"local", "takeL"} /\ (todo[c] # ctodo[c] \/ wpc[c] \in {"giveM", "giveO"})
    THEN block[c][Min(ctodo[c])]["l"]
    ELSE IF todo[c] # ctodo[c] /\ wpc[c] = "giveM" THEN block[c][Min(todo[c])]["l"] ELSE {}

HoldsM(c) ==
    IF todo[c] # ctodo[c] \/ wpc[c] = "giveO" THEN block[c][Min(ctodo[c])]["m"] ELSE {}

HoldsO(c) ==
    IF todo[c] # ctodo[c] /\ cpc[c] # "takeM" THEN block[c][Min(ctodo[c])]["o"]
    ELSE IF cpc[c] \in {"moveM", "moveL", "end"} /\ wpc[c] \in {"send", "barrier"} THEN acc[c]["o"] ELSE {}

Sends(c) ==
    /\ out[c]["m"] = IF cpc[c] \in {"moveL", "end"} /\ wpc[c] \in {"send", "barrier"} THEN acc[c]["m"] ELSE {}
    /\ out[c]["l"] = IF cpc[c] = "end" /\ wpc[c] \in {"send", "barrier"} THEN acc[c]["l"] ELSE {}

BuffersHold(c) == in[c]["l"] = HoldsL(c) /\ in[c]["m"] = HoldsM(c) /\ c16[c] = HoldsO(c) /\ Sends(c)

\* A child that is handed over has been announced.
HandedAnnounced(c) ==
    \A r \in ActiveRounds(c) :
      (r \notin todo[c] \/ (r = Min(todo[c]) /\ wpc[c] \in {"giveL", "giveM", "giveO"})) => sem[c][r] >= 1

\* The result covers the core itself, and every child that is combined.
Combined(c) ==
    /\ cpc[c] # "local" => \A p \in Parts : c \in acc[c][p]
    /\ \A r \in ActiveRounds(c) :
         (r \notin ctodo[c] \/ (r = Min(ctodo[c]) /\ cpc[c] = "takeM")) => block[c][r]["o"] \subseteq acc[c]["o"]

\* The kernels of one core, their buffers, and what it has been told.
Core(c) == InStep(c) /\ BuffersHold(c) /\ HandedAnnounced(c) /\ Combined(c)

OthersIdle == \A c \in Group \ Running : wpc[c] = "end" /\ cpc[c] = "end"

\* What is on the network is of a core that waits for it.
InFlight ==
    /\ \A f \in flight : f[1] \in Running \ {0} /\ wpc[f[1]] = "barrier" /\ f[3] = acc[f[1]][f[2]]
    /\ \A c \in sflight : c \in Running \ {0} /\ wpc[c] = "atomic"

\* A core that has sent has its result in its parent's block, or part of it on the way.
SentLands ==
    \A c \in Running \ {0} : wpc[c] \in {"barrier", "atomic", "end"} =>
      \A p \in Parts : \/ block[Parent(c)][SendAt(c)][p] = acc[c][p]
                       \/ wpc[c] = "barrier" /\ <<c, p, acc[c][p]>> \in flight

\* A core that is announced has sent.
AnnouncedSent ==
    \A p \in Group : \A r \in Rounds : sem[p][r] >= 1 =>
      /\ Child(p, r) \in Running \ {0} /\ Parent(Child(p, r)) = p /\ SendAt(Child(p, r)) = r
      /\ wpc[Child(p, r)] \in {"atomic", "end"} /\ Child(p, r) \notin sflight

\* A result that covers a core covers what that core's own result does, and that one is final.
CoversClosed ==
    \A c \in Running : \A d \in acc[c]["o"] : d = c \/
      (d \in Running /\ cpc[d] = "end" /\ acc[d]["o"] \subseteq acc[c]["o"])

\* The output is the root's final result.
OutputIsRoots == output # {} => 0 \in Running /\ cpc[0] = "end" /\ output = acc[0]["o"]

Inv ==
    /\ TypeOK /\ Landings /\ OthersIdle /\ (\A c \in Running : Core(c))
    /\ InFlight /\ SentLands /\ AnnouncedSent /\ CoversClosed /\ OutputIsRoots

-----------------------------------------------------------------------------
(* What the proofs of all steps use *)

\* The plan is fixed.
PlanFixed == cores' = cores /\ chunks' = chunks

LEMMA PlanStays ==
    ASSUME PlanFixed
    PROVE  /\ Group' = Group /\ Running' = Running
           /\ \A c : ActiveRounds(c)' = ActiveRounds(c) /\ Parent(c)' = Parent(c) /\ SendAt(c)' = SendAt(c)
           /\ \A c, r : Child(c, r)' = Child(c, r)
<1>1. Group' = Group /\ \A c : Vid(c)' = Vid(c)
  BY DEF PlanFixed, Group, Vid
<1>2. \A c : SendAt(c)' = SendAt(c)
  BY <1>1 DEF SendAt
<1>3. \A c : IsOrphan(c)' = IsOrphan(c)
  BY <1>1, <1>2 DEF IsOrphan, PlanFixed
<1>4. \A c : Parent(c)' = Parent(c)
  BY <1>2, <1>3 DEF Parent
<1>5. NumRounds' = NumRounds
  BY DEF NumRounds, PlanFixed
<1>6. \A c, r : NaturalChild(c, r)' = NaturalChild(c, r)
  BY <1>1, <1>5 DEF NaturalChild
<1>7. \A r : Orphans(r)' = Orphans(r)
  BY <1>1, <1>2, <1>3 DEF Orphans
<1>8. \A c, r : Child(c, r)' = Child(c, r)
  <2> TAKE c, r
  <2>1. CASE c = 0 /\ NaturalChild(0, r) = Nobody /\ Orphans(r) # {}
    <3>1. Child(c, r) = CHOOSE o \in Orphans(r) : \A p \in Orphans(r) : o <= p
      BY <2>1 DEF Child
    <3>2. Child(c, r)' = CHOOSE o \in Orphans(r)' : \A p \in Orphans(r)' : o <= p
      BY <2>1, <1>6, <1>7 DEF Child, Nobody
    <3> QED BY <3>1, <3>2, <1>7
  <2>2. CASE ~(c = 0 /\ NaturalChild(0, r) = Nobody /\ Orphans(r) # {})
    BY <2>2, <1>6, <1>7 DEF Child, Nobody
  <2> QED BY <2>1, <2>2
<1>9. \A c : ActiveRounds(c)' = ActiveRounds(c)
  BY <1>8 DEF ActiveRounds, ActiveChild, PlanFixed
<1>10. Running' = Running
  <2>1. \A c : HasLocalData(c)' = HasLocalData(c)
    BY DEF HasLocalData, ChunkStart, ChunkEnd, PlanFixed
  <2> QED BY <1>1, <2>1 DEF Running, Runs, Launched, PlanFixed
<1> QED BY <1>1, <1>2, <1>4, <1>8, <1>9, <1>10

\* The first of some rounds is one of them.
LEMMA FirstRound ==
    ASSUME NEW S \in SUBSET Rounds, S # {}
    PROVE  Min(S) \in S
<1>1. S \in SUBSET Nat
  BY DEF Rounds
<1>2. \E x \in S : \A y \in S : x <= y
  BY <1>1, LeastElement
<1> QED BY <1>2 DEF Min

\* What the plan says of the cores that run.
LEMMA PlanOfRunning ==
    ASSUME PlanGiven
    PROVE  /\ Running \subseteq Group /\ Group \subseteq Nat
           /\ \A c \in Running : HasLocalData(c) /\ Launched
           /\ \A c \in Group : Launched /\ HasLocalData(c) => c \in Running
           /\ \A c \in Running \ {0} : Parent(c) \in Running /\ SendAt(c) \in ActiveRounds(Parent(c))
                /\ Child(Parent(c), SendAt(c)) = c /\ Parent(c) # c
           /\ \A c \in Running : \A r \in ActiveRounds(c) :
                r \in Rounds /\ Child(c, r) \in Running \ {0} /\ Parent(Child(c, r)) = c /\ SendAt(Child(c, r)) = r
<1>1. Running \subseteq Group /\ Group \subseteq Nat /\ 0 \in Group
  BY DEF Running, Group, PlanGiven
<1>2. /\ \A c \in Running : HasLocalData(c) /\ Launched
      /\ \A c \in Group : Launched /\ HasLocalData(c) => c \in Running
  BY DEF Running, Runs
<1>3. ASSUME NEW c \in Running, c # 0
      PROVE  Parent(c) \in Running /\ SendAt(c) \in ActiveRounds(Parent(c)) /\ Child(Parent(c), SendAt(c)) = c
               /\ Parent(c) # c
  <2>1. Parent(c) \in 0..(c - 1) /\ Parent(c) \in Group /\ c \in Nat
    BY <1>1, <1>3, ParentAwaits
  <2>2. HasLocalData(Parent(c)) /\ SendAt(c) \in ActiveRounds(Parent(c)) /\ Child(Parent(c), SendAt(c)) = c
    BY <1>1, <1>2, <1>3, TreeAgrees DEF SendersMatchWaiters
  <2>3. Parent(c) # c
    BY <2>1
  <2> QED BY <1>2, <2>1, <2>2, <2>3
<1>4. ASSUME NEW c \in Running, NEW r \in ActiveRounds(c)
      PROVE  r \in Rounds /\ Child(c, r) \in Running \ {0} /\ Parent(Child(c, r)) = c /\ SendAt(Child(c, r)) = r
  <2>1. r \in Rounds /\ Child(c, r) # Nobody
    BY DEF ActiveRounds, ActiveChild
  <2>2. Child(c, r) \in Group
    BY <1>1, <2>1, ChildSends
  <2>3. /\ Child(c, r) # 0 /\ HasLocalData(Child(c, r))
        /\ Parent(Child(c, r)) = c /\ SendAt(Child(c, r)) = r
    BY <1>1, <1>2, TreeAgrees DEF SendersMatchWaiters
  <2> QED BY <1>2, <2>1, <2>2, <2>3
<1> QED BY <1>1, <1>2, <1>3, <1>4

\* A core that is announced is done, and all of its result is in the block of its round.
LEMMA FullBlocks ==
    ASSUME Inv, PlanGiven, NEW c \in Group, NEW r \in Rounds, sem[c][r] >= 1
    PROVE  /\ Child(c, r) \in Running \ {0} /\ cpc[Child(c, r)] = "end" /\ wpc[Child(c, r)] \in {"atomic", "end"}
           /\ \A p \in Parts : block[c][r][p] = acc[Child(c, r)][p] /\ Child(c, r) \in block[c][r][p]
<1> DEFINE d == Child(c, r)
<1>1. d \in Running \ {0} /\ Parent(d) = c /\ SendAt(d) = r /\ wpc[d] \in {"atomic", "end"}
  BY DEF Inv, AnnouncedSent
<1>2. Core(d)
  BY <1>1 DEF Inv
<1>3. cpc[d] = "end"
  <2> HIDE DEF d
  <2>1. (Level(d) \/ Ahead(d)) /\ d # 0
    BY <1>1, <1>2 DEF Core, InStep
  <2>2. CASE Level(d)
    BY <1>1, <2>1, <2>2 DEF Level
  <2>3. CASE Ahead(d)
    BY <1>1, <2>1, <2>3 DEF Ahead
  <2> QED BY <2>1, <2>2, <2>3
<1>4. \A p \in Parts : d \in acc[d][p]
  BY <1>2, <1>3 DEF Core, Combined
<1>5. \A p \in Parts : block[c][r][p] = acc[d][p]
  BY <1>1 DEF Inv, SentLands
<1> QED BY <1>1, <1>3, <1>4, <1>5

\* A child that is handed over, wholly or in part, is one that has been announced.
LEMMA HandedOver ==
    ASSUME Inv, PlanGiven, NEW c \in Running
    PROVE  /\ todo[c] \subseteq ctodo[c] /\ ctodo[c] \subseteq ActiveRounds(c) /\ ActiveRounds(c) \subseteq Rounds
           /\ (ctodo[c] # {} => Min(ctodo[c]) \in ctodo[c]) /\ (todo[c] # {} => Min(todo[c]) \in todo[c])
           /\ todo[c] # ctodo[c] \/ wpc[c] \in {"giveL", "giveM", "giveO"} \/ cpc[c] = "takeM" =>
                ctodo[c] # {} /\ sem[c][Min(ctodo[c])] >= 1
           /\ wpc[c] \in {"giveL", "giveM", "giveO"} => todo[c] # {} /\ sem[c][Min(todo[c])] >= 1
           /\ \A r \in ActiveRounds(c) : r \notin ctodo[c] => sem[c][r] >= 1
<1>1. InStep(c) /\ HandedAnnounced(c)
  BY DEF Inv, Core
<1>2. ActiveRounds(c) \subseteq Rounds /\ ctodo[c] \subseteq ActiveRounds(c)
  BY <1>1 DEF ActiveRounds, InStep
<1>3. (Level(c) \/ Ahead(c)) /\ todo[c] \subseteq ctodo[c]
  BY <1>1 DEF InStep, Level, Ahead
<1>4. (ctodo[c] # {} => Min(ctodo[c]) \in ctodo[c]) /\ (todo[c] # {} => Min(todo[c]) \in todo[c])
  <2>1. ctodo[c] \in SUBSET Rounds /\ todo[c] \in SUBSET Rounds
    BY <1>2, <1>3
  <2> QED BY <2>1, FirstRound
<1>5. /\ wpc[c] \in {"giveL", "giveM", "giveO"} => todo[c] # {}
      /\ todo[c] # ctodo[c] \/ wpc[c] \in {"giveL", "giveM", "giveO"} \/ cpc[c] = "takeM" =>
           ctodo[c] # {} /\ (Min(ctodo[c]) \notin todo[c] \/
             (Min(ctodo[c]) = Min(todo[c]) /\ wpc[c] \in {"giveL", "giveM", "giveO"}))
  <2>1. CASE Level(c)
    BY <2>1 DEF Level
  <2>2. CASE Ahead(c)
    BY <2>2 DEF Ahead
  <2> QED BY <1>3, <2>1, <2>2
<1> QED BY <1>1, <1>2, <1>3, <1>4, <1>5 DEF HandedAnnounced

\* A step that leaves a core's kernels and buffers alone, and the blocks it has been told of, keeps what holds of it.
LEMMA CoreKept ==
    ASSUME Inv, PlanGiven, PlanFixed, NEW d \in Running,
           todo'[d] = todo[d], ctodo'[d] = ctodo[d], wpc'[d] = wpc[d], cpc'[d] = cpc[d],
           in'[d] = in[d], c16'[d] = c16[d], out'[d] = out[d], acc'[d] = acc[d],
           \A r \in Rounds : sem[d][r] >= 1 => sem'[d][r] >= 1 /\ block'[d][r] = block[d][r]
    PROVE  Core(d)'
<1>1. InStep(d) /\ BuffersHold(d) /\ HandedAnnounced(d) /\ Combined(d)
  BY DEF Inv, Core
<1>2. ActiveRounds(d)' = ActiveRounds(d)
  BY PlanStays
<1>3. InStep(d)'
  <2>1. Level(d) => Level(d)'
    BY DEF Level
  <2>2. Ahead(d) => Ahead(d)'
    BY DEF Ahead
  <2> QED BY <1>1, <1>2, <2>1, <2>2 DEF InStep
<1>4. BuffersHold(d)'
  <2>1. /\ todo[d] # ctodo[d] \/ wpc[d] \in {"giveL", "giveM", "giveO"} => block'[d][Min(ctodo[d])] = block[d][Min(ctodo[d])]
        /\ wpc[d] \in {"giveL", "giveM", "giveO"} => block'[d][Min(todo[d])] = block[d][Min(todo[d])]
    BY HandedOver
  <2>2. HoldsL(d)' = HoldsL(d)
    BY <2>1 DEF HoldsL
  <2>3. HoldsM(d)' = HoldsM(d)
    BY <2>1 DEF HoldsM
  <2>4. HoldsO(d)' = HoldsO(d)
    BY <2>1 DEF HoldsO
  <2>5. Sends(d)'
    BY <1>1 DEF Sends, BuffersHold
  <2> QED BY <1>1, <2>2, <2>3, <2>4, <2>5 DEF BuffersHold
<1>5. HandedAnnounced(d)'
  BY <1>1, <1>2, HandedOver DEF HandedAnnounced
<1>6. Combined(d)'
  <2>1. \A r \in ActiveRounds(d) : r \notin ctodo[d] \/ (r = Min(ctodo[d]) /\ cpc[d] = "takeM") => block'[d][r] = block[d][r]
    BY HandedOver
  <2> QED BY <1>1, <1>2, <2>1 DEF Combined
<1> QED BY <1>3, <1>4, <1>5, <1>6 DEF Core

-----------------------------------------------------------------------------
(* What a step of one core leaves alone *)

\* A step of the kernels of core c alone.
OnlyCore(c) ==
    /\ PlanFixed /\ flight' = flight /\ sflight' = sflight /\ sem' = sem /\ block' = block
    /\ \A d \in Group \ {c} :
         /\ todo'[d] = todo[d] /\ ctodo'[d] = ctodo[d] /\ wpc'[d] = wpc[d] /\ cpc'[d] = cpc[d]
         /\ in'[d] = in[d] /\ c16'[d] = c16[d] /\ out'[d] = out[d] /\ acc'[d] = acc[d]
    /\ cpc[c] = "end" => cpc'[c] = "end" /\ acc'[c] = acc[c]

\* What a core covers stays closed when the results and the finished kernels stay.
LEMMA CoversKept ==
    ASSUME Inv, PlanFixed, \A d \in Running : acc'[d]["o"] = acc[d]["o"] /\ (cpc[d] = "end" => cpc'[d] = "end")
    PROVE  CoversClosed'
<1>1. Running' = Running /\ CoversClosed
  BY PlanStays DEF Inv
<1>2. ASSUME NEW c \in Running, NEW d \in acc[c]["o"], d # c
      PROVE  d \in Running /\ cpc'[d] = "end" /\ acc'[d]["o"] \subseteq acc'[c]["o"]
  BY <1>1, <1>2 DEF CoversClosed
<1> QED BY <1>1, <1>2 DEF CoversClosed

\* The network knows nothing of a core before it sends, and nothing of the root.
LEMMA NetKept ==
    ASSUME Inv, PlanGiven, NEW c \in Running, OnlyCore(c),
           c = 0 \/ (wpc[c] \notin {"barrier", "atomic", "end"} /\ wpc'[c] \notin {"barrier", "atomic", "end"})
    PROVE  InFlight' /\ SentLands' /\ AnnouncedSent'
<1>1. Running' = Running /\ Group' = Group /\ Running \subseteq Group
  BY PlanStays, PlanOfRunning DEF OnlyCore
<1>2. (\A d : Parent(d)' = Parent(d) /\ SendAt(d)' = SendAt(d)) /\ \A d, r : Child(d, r)' = Child(d, r)
  BY PlanStays DEF OnlyCore
<1>3. \A d \in Running \ {0} : d # c =>  wpc'[d] = wpc[d] /\ acc'[d] = acc[d]
  BY <1>1 DEF OnlyCore
<1>4. flight' = flight /\ sflight' = sflight /\ sem' = sem /\ block' = block
  BY DEF OnlyCore
<1>5. InFlight /\ SentLands /\ AnnouncedSent
  BY DEF Inv
<1>6. InFlight'
  <2>1. \A f \in flight : f[1] \in Running \ {0} /\ wpc'[f[1]] = "barrier" /\ f[3] = acc'[f[1]][f[2]]
    BY <1>3, <1>5 DEF InFlight
  <2>2. \A d \in sflight : d \in Running \ {0} /\ wpc'[d] = "atomic"
    BY <1>3, <1>5 DEF InFlight
  <2> QED BY <1>1, <1>4, <2>1, <2>2 DEF InFlight
<1>7. SentLands'
  <2>1. ASSUME NEW d \in Running \ {0}, wpc'[d] \in {"barrier", "atomic", "end"}, NEW p \in Parts
        PROVE  \/ block[Parent(d)][SendAt(d)][p] = acc'[d][p]
               \/ wpc'[d] = "barrier" /\ <<d, p, acc'[d][p]>> \in flight
    <3>1. d # c /\ wpc'[d] = wpc[d] /\ acc'[d] = acc[d]
      BY <1>3, <2>1
    <3> QED BY <1>5, <2>1, <3>1 DEF SentLands
  <2> QED BY <1>1, <1>2, <1>4, <2>1 DEF SentLands
<1>8. AnnouncedSent'
  <2>1. ASSUME NEW p \in Group, NEW r \in Rounds, sem[p][r] >= 1
        PROVE  /\ Child(p, r) \in Running \ {0} /\ Parent(Child(p, r)) = p /\ SendAt(Child(p, r)) = r
               /\ wpc'[Child(p, r)] \in {"atomic", "end"} /\ Child(p, r) \notin sflight
    BY <1>3, <1>5, <2>1 DEF AnnouncedSent
  <2> QED BY <1>1, <1>2, <1>4, <2>1 DEF AnnouncedSent
<1> QED BY <1>6, <1>7, <1>8

\* With the core's own part of it, such a step keeps the invariant.
LEMMA KernelStep ==
    ASSUME Inv, PlanGiven, NEW c \in Running, OnlyCore(c), TypeOK', Core(c)', CoversClosed', output' = output,
           c = 0 \/ (wpc[c] \notin {"barrier", "atomic", "end"} /\ wpc'[c] \notin {"barrier", "atomic", "end"})
    PROVE  Inv'
<1>1. Running' = Running /\ Group' = Group /\ Running \subseteq Group
  BY PlanStays, PlanOfRunning DEF OnlyCore
<1>2. Landings'
  BY <1>1 DEF Inv, Landings, OnlyCore
<1>3. OthersIdle'
  BY <1>1 DEF Inv, OthersIdle, OnlyCore
<1>4. ASSUME NEW d \in Running, d # c PROVE Core(d)'
  BY <1>1, <1>4, CoreKept DEF OnlyCore
<1>5. OutputIsRoots'
  <2>1. output # {} => 0 \in Running /\ cpc[0] = "end" /\ output = acc[0]["o"]
    BY DEF Inv, OutputIsRoots
  <2>2. 0 \in Running /\ cpc[0] = "end" => cpc'[0] = "end" /\ acc'[0] = acc[0]
    BY <1>1 DEF OnlyCore
  <2> QED BY <1>1, <2>1, <2>2 DEF OutputIsRoots
<1>6. \A d \in Running' : Core(d)'
  BY <1>1, <1>4
<1> QED BY <1>2, <1>3, <1>5, <1>6, NetKept DEF Inv

-----------------------------------------------------------------------------
(* The steps of the writer *)

\* The bounds on the constants are within those the proofs about the plan need.
LEMMA PlanIsGiven ==
    ASSUME Inv
    PROVE  PlanGiven /\ Running \subseteq Group /\ Group \subseteq Nat
<1>1. PlanGiven
  BY PlanAssumption DEF Inv, TypeOK, PlanGiven
<1> QED BY <1>1, PlanOfRunning

\* The child of the round has announced its result; the compute kernel is no further than this child's L.
LEMMA PollStep ==
    ASSUME Inv, NEW c \in Running, Poll(c)
    PROVE  Inv'
<1>1. PlanGiven /\ c \in Group
  BY PlanIsGiven
<1>2. /\ wpc[c] = "poll" /\ sem[c][Min(todo[c])] >= 1 /\ wpc' = [wpc EXCEPT ![c] = "giveL"]
      /\ cores' = cores /\ chunks' = chunks /\ todo' = todo /\ cpc' = cpc /\ ctodo' = ctodo /\ acc' = acc /\ in' = in
      /\ c16' = c16 /\ out' = out /\ block' = block /\ flight' = flight /\ sflight' = sflight /\ sem' = sem
      /\ output' = output
  BY DEF Poll
<1>3. TypeOK' /\ wpc'[c] = "giveL" /\ \A d \in Group \ {c} : wpc'[d] = wpc[d]
  BY <1>1, <1>2 DEF Inv, TypeOK, Group
<1>4. OnlyCore(c)
  BY <1>2, <1>3 DEF OnlyCore, PlanFixed
<1>5. CoversClosed'
  BY <1>2, CoversKept DEF PlanFixed
<1>6. InStep(c) /\ BuffersHold(c) /\ HandedAnnounced(c) /\ Combined(c)
  BY DEF Inv, Core
<1>7. ActiveRounds(c)' = ActiveRounds(c)
  BY <1>4, PlanStays DEF OnlyCore
<1>8. ctodo[c] # {} /\ todo[c] # {}
  BY <1>2, <1>6 DEF InStep, Level, Ahead
<1>9. InStep(c)'
  <2>1. Level(c) => Level(c)'
    BY <1>2, <1>3, <1>8 DEF Level
  <2>2. Ahead(c) => Ahead(c)'
    BY <1>2, <1>3, <1>8 DEF Ahead
  <2> QED BY <1>2, <1>6, <1>7, <2>1, <2>2 DEF InStep
<1>10. BuffersHold(c)'
  <2>1. HoldsL(c)' = HoldsL(c)
    BY <1>2, <1>3 DEF HoldsL
  <2>2. HoldsM(c)' = HoldsM(c)
    BY <1>2, <1>3 DEF HoldsM
  <2>3. HoldsO(c)' = HoldsO(c)
    BY <1>2, <1>3 DEF HoldsO
  <2>4. Sends(c)'
    BY <1>2, <1>3, <1>6 DEF Sends, BuffersHold
  <2> QED BY <1>2, <1>6, <2>1, <2>2, <2>3, <2>4 DEF BuffersHold
<1>11. HandedAnnounced(c)'
  BY <1>2, <1>3, <1>6, <1>7 DEF HandedAnnounced
<1>12. Combined(c)'
  BY <1>2, <1>6, <1>7 DEF Combined
<1> QED BY <1>1, <1>2, <1>3, <1>4, <1>5, <1>9, <1>10, <1>11, <1>12, KernelStep DEF Core

\* The L of the next child goes out only when the L of the child before has been taken.
LEMMA GiveLStep ==
    ASSUME Inv, NEW c \in Running, Give(c, "l", "giveL", "giveM")
    PROVE  Inv'
<1>1. PlanGiven /\ c \in Group
  BY PlanIsGiven
<1>2. /\ wpc[c] = "giveL" /\ in[c]["l"] = {}
      /\ wpc' = [wpc EXCEPT ![c] = "giveM"]
      /\ in' = [in EXCEPT ![c]["l"] = block[c][Min(todo[c])]["l"]]
      /\ cores' = cores /\ chunks' = chunks /\ todo' = todo /\ cpc' = cpc /\ ctodo' = ctodo /\ acc' = acc
      /\ c16' = c16 /\ out' = out /\ block' = block /\ flight' = flight /\ sflight' = sflight /\ sem' = sem
      /\ output' = output
  BY DEF Give
<1>3. /\ TypeOK' /\ wpc'[c] = "giveM" /\ \A d \in Group \ {c} : wpc'[d] = wpc[d] /\ in'[d] = in[d]
      /\ in'[c]["l"] = block[c][Min(todo[c])]["l"] /\ in'[c]["m"] = in[c]["m"]
  <2>1. Min(todo[c]) \in Rounds
    BY <1>1, <1>2, HandedOver
  <2>2. block[c][Min(todo[c])]["l"] \in SUBSET Group /\ "l" \in Parts
    BY <1>1, <2>1 DEF Inv, Landings, Parts
  <2>3. wpc' \in [Group -> {"poll", "giveL", "giveM", "giveO", "send", "barrier", "atomic", "root", "end"}]
    BY <1>1, <1>2 DEF Inv, TypeOK
  <2>4. in' \in [Group -> [Parts -> SUBSET Group]]
    BY <1>1, <1>2, <2>2 DEF Inv, TypeOK
  <2>5. Group' = Group
    BY <1>2 DEF Group
  <2>6. /\ wpc'[c] = "giveM" /\ \A d \in Group \ {c} : wpc'[d] = wpc[d] /\ in'[d] = in[d]
        /\ in'[c]["l"] = block[c][Min(todo[c])]["l"] /\ in'[c]["m"] = in[c]["m"]
    BY <1>1, <1>2, <2>2 DEF Inv, TypeOK, Parts
  <2> QED BY <1>2, <2>3, <2>4, <2>5, <2>6 DEF Inv, TypeOK
<1>4. OnlyCore(c)
  BY <1>2, <1>3 DEF OnlyCore, PlanFixed
<1>5. CoversClosed'
  BY <1>2, CoversKept DEF PlanFixed
<1>6. InStep(c) /\ BuffersHold(c) /\ HandedAnnounced(c) /\ Combined(c)
  BY DEF Inv, Core
<1>7. ActiveRounds(c)' = ActiveRounds(c)
  BY <1>4, PlanStays DEF OnlyCore
<1>8. /\ ctodo[c] # {} /\ todo[c] # {} /\ (todo[c] # ctodo[c] => cpc[c] \in {"takeO", "takeM"})
      /\ Ahead(c) => todo[c] # ctodo[c]
  <2>1. ctodo[c] # {} /\ todo[c] # {} /\ (todo[c] # ctodo[c] => sem[c][Min(ctodo[c])] >= 1 /\ Min(ctodo[c]) \in Rounds)
    BY <1>1, <1>2, HandedOver
  <2>2. todo[c] # ctodo[c] => block[c][Min(ctodo[c])]["l"] # {}
    BY <1>1, <2>1, FullBlocks DEF Parts
  <2>3. todo[c] # ctodo[c] => HoldsL(c) = {}
    BY <1>2, <1>6 DEF BuffersHold
  <2>4. todo[c] # ctodo[c] => cpc[c] \notin {"local", "takeL"}
    BY <2>2, <2>3 DEF HoldsL
  <2>5. Ahead(c) => todo[c] # ctodo[c]
    BY <1>1, <2>1, HandedOver DEF Ahead
  <2> QED BY <1>6, <2>1, <2>4, <2>5 DEF InStep, Level, Ahead
<1>9. InStep(c)'
  <2>1. Level(c) => Level(c)'
    BY <1>2, <1>3, <1>8 DEF Level
  <2>2. Ahead(c) => Ahead(c)'
    BY <1>2, <1>3, <1>8 DEF Ahead
  <2> QED BY <1>2, <1>6, <1>7, <2>1, <2>2 DEF InStep
<1>10. BuffersHold(c)'
  <2>1. in'[c]["l"] = HoldsL(c)'
    <3>1. CASE Level(c)
      BY <1>2, <1>3, <1>8, <3>1 DEF HoldsL, Level
    <3>2. CASE Ahead(c)
      BY <1>2, <1>3, <1>8, <3>2 DEF HoldsL, Ahead
    <3> QED BY <1>6, <3>1, <3>2 DEF InStep
  <2>2. HoldsM(c)' = HoldsM(c)
    BY <1>2, <1>3 DEF HoldsM
  <2>3. HoldsO(c)' = HoldsO(c)
    BY <1>2, <1>3 DEF HoldsO
  <2>4. Sends(c)'
    BY <1>2, <1>3, <1>6 DEF Sends, BuffersHold
  <2> QED BY <1>2, <1>3, <1>6, <2>1, <2>2, <2>3, <2>4 DEF BuffersHold
<1>11. HandedAnnounced(c)'
  BY <1>2, <1>3, <1>6, <1>7 DEF HandedAnnounced
<1>12. Combined(c)'
  BY <1>2, <1>6, <1>7 DEF Combined
<1> QED BY <1>1, <1>2, <1>3, <1>4, <1>5, <1>9, <1>10, <1>11, <1>12, KernelStep DEF Core

\* An M goes out only to a compute kernel that is done with the child before.
LEMMA GiveMStep ==
    ASSUME Inv, NEW c \in Running, Give(c, "m", "giveM", "giveO")
    PROVE  Inv'
<1>1. PlanGiven /\ c \in Group
  BY PlanIsGiven
<1>2. /\ wpc[c] = "giveM" /\ in[c]["m"] = {}
      /\ wpc' = [wpc EXCEPT ![c] = "giveO"]
      /\ in' = [in EXCEPT ![c]["m"] = block[c][Min(todo[c])]["m"]]
      /\ cores' = cores /\ chunks' = chunks /\ todo' = todo /\ cpc' = cpc /\ ctodo' = ctodo /\ acc' = acc
      /\ c16' = c16 /\ out' = out /\ block' = block /\ flight' = flight /\ sflight' = sflight /\ sem' = sem
      /\ output' = output
  BY DEF Give
<1>3. /\ TypeOK' /\ wpc'[c] = "giveO" /\ \A d \in Group \ {c} : wpc'[d] = wpc[d] /\ in'[d] = in[d]
      /\ in'[c]["m"] = block[c][Min(todo[c])]["m"] /\ in'[c]["l"] = in[c]["l"]
  <2>1. Min(todo[c]) \in Rounds
    BY <1>1, <1>2, HandedOver
  <2>2. block[c][Min(todo[c])]["m"] \in SUBSET Group /\ "m" \in Parts
    BY <1>1, <2>1 DEF Inv, Landings, Parts
  <2>3. wpc' \in [Group -> {"poll", "giveL", "giveM", "giveO", "send", "barrier", "atomic", "root", "end"}]
    BY <1>1, <1>2 DEF Inv, TypeOK
  <2>4. in' \in [Group -> [Parts -> SUBSET Group]]
    BY <1>1, <1>2, <2>2 DEF Inv, TypeOK
  <2>5. Group' = Group
    BY <1>2 DEF Group
  <2>6. /\ wpc'[c] = "giveO" /\ \A d \in Group \ {c} : wpc'[d] = wpc[d] /\ in'[d] = in[d]
        /\ in'[c]["m"] = block[c][Min(todo[c])]["m"] /\ in'[c]["l"] = in[c]["l"]
    BY <1>1, <1>2, <2>2 DEF Inv, TypeOK, Parts
  <2> QED BY <1>2, <2>3, <2>4, <2>5, <2>6 DEF Inv, TypeOK
<1>4. OnlyCore(c)
  BY <1>2, <1>3 DEF OnlyCore, PlanFixed
<1>5. CoversClosed'
  BY <1>2, CoversKept DEF PlanFixed
<1>6. InStep(c) /\ BuffersHold(c) /\ HandedAnnounced(c) /\ Combined(c)
  BY DEF Inv, Core
<1>7. ActiveRounds(c)' = ActiveRounds(c)
  BY <1>4, PlanStays DEF OnlyCore
<1>8. ctodo[c] # {} /\ todo[c] = ctodo[c] /\ Level(c)
  <2>1. ctodo[c] # {} /\ sem[c][Min(ctodo[c])] >= 1 /\ Min(ctodo[c]) \in Rounds
    BY <1>1, <1>2, HandedOver
  <2>2. block[c][Min(ctodo[c])]["m"] # {} /\ HoldsM(c) = {}
    BY <1>1, <1>2, <1>6, <2>1, FullBlocks DEF Parts, BuffersHold
  <2>3. todo[c] = ctodo[c]
    BY <2>2 DEF HoldsM
  <2>4. Ahead(c) => todo[c] # ctodo[c]
    BY <1>1, <2>1, HandedOver DEF Ahead
  <2> QED BY <1>6, <2>1, <2>3, <2>4 DEF InStep
<1>9. InStep(c)'
  <2>1. Level(c)'
    BY <1>2, <1>3, <1>8 DEF Level
  <2> QED BY <1>2, <1>6, <1>7, <2>1 DEF InStep
<1>10. BuffersHold(c)'
  <2>1. HoldsL(c)' = HoldsL(c)
    BY <1>2, <1>3, <1>8 DEF HoldsL
  <2>2. in'[c]["m"] = HoldsM(c)'
    BY <1>2, <1>3, <1>8 DEF HoldsM
  <2>3. HoldsO(c)' = HoldsO(c)
    BY <1>2, <1>3 DEF HoldsO
  <2>4. Sends(c)'
    BY <1>2, <1>3, <1>6 DEF Sends, BuffersHold
  <2> QED BY <1>2, <1>3, <1>6, <2>1, <2>2, <2>3, <2>4 DEF BuffersHold
<1>11. HandedAnnounced(c)'
  BY <1>2, <1>3, <1>6, <1>7 DEF HandedAnnounced
<1>12. Combined(c)'
  BY <1>2, <1>6, <1>7 DEF Combined
<1> QED BY <1>1, <1>2, <1>3, <1>4, <1>5, <1>9, <1>10, <1>11, <1>12, KernelStep DEF Core

\* With its O the whole of a child has been handed over: the writer is ahead by one.
LEMMA GiveOStep ==
    ASSUME Inv, NEW c \in Running, GiveO(c)
    PROVE  Inv'
<1>1. PlanGiven /\ c \in Group
  BY PlanIsGiven
<1>2. /\ wpc[c] = "giveO" /\ c16[c] = {}
      /\ wpc' = [wpc EXCEPT ![c] = CASE todo'[c] # {} -> "poll"
                                 [] todo'[c] = {} /\ c = 0 -> "root"
                                 [] OTHER -> "send"]
      /\ todo' = [todo EXCEPT ![c] = @ \ {Min(@)}]
      /\ c16' = [c16 EXCEPT ![c] = block[c][Min(todo[c])]["o"]]
      /\ cores' = cores /\ chunks' = chunks /\ cpc' = cpc /\ ctodo' = ctodo /\ acc' = acc /\ in' = in
      /\ out' = out /\ block' = block /\ flight' = flight /\ sflight' = sflight /\ sem' = sem
      /\ output' = output
  BY DEF GiveO
<1> DEFINE next == CASE todo'[c] # {} -> "poll" [] todo'[c] = {} /\ c = 0 -> "root" [] OTHER -> "send"
<1>3. /\ TypeOK' /\ wpc'[c] = next /\ next = IF todo'[c] # {} THEN "poll" ELSE IF c = 0 THEN "root" ELSE "send"
      /\ \A d \in Group \ {c} : wpc'[d] = wpc[d] /\ todo'[d] = todo[d] /\ c16'[d] = c16[d]
      /\ c16'[c] = block[c][Min(todo[c])]["o"] /\ todo'[c] = todo[c] \ {Min(todo[c])}
  <2>1. Min(todo[c]) \in Rounds
    BY <1>1, <1>2, HandedOver
  <2>2. block[c][Min(todo[c])]["o"] \in SUBSET Group
    BY <1>1, <2>1 DEF Inv, Landings, Parts
  <2>3. next = IF todo'[c] # {} THEN "poll" ELSE IF c = 0 THEN "root" ELSE "send"
    OBVIOUS
  <2>4. next \in {"poll", "giveL", "giveM", "giveO", "send", "barrier", "atomic", "root", "end"}
    BY <2>3
  <2>5. wpc' = [wpc EXCEPT ![c] = next]
    BY <1>2
  <2> HIDE DEF next
  <2>6. /\ wpc' \in [Group -> {"poll", "giveL", "giveM", "giveO", "send", "barrier", "atomic", "root", "end"}]
        /\ wpc'[c] = next /\ \A d \in Group \ {c} : wpc'[d] = wpc[d]
    BY <1>1, <2>4, <2>5 DEF Inv, TypeOK
  <2>7. /\ c16' \in [Group -> SUBSET Group]
        /\ c16'[c] = block[c][Min(todo[c])]["o"] /\ \A d \in Group \ {c} : c16'[d] = c16[d]
    BY <1>1, <1>2, <2>2 DEF Inv, TypeOK
  <2>8. /\ todo' \in [Group -> SUBSET Rounds]
        /\ todo'[c] = todo[c] \ {Min(todo[c])} /\ \A d \in Group \ {c} : todo'[d] = todo[d]
    BY <1>1, <1>2 DEF Inv, TypeOK
  <2>9. Group' = Group
    BY <1>2 DEF Group
  <2> QED BY <1>2, <2>3, <2>6, <2>7, <2>8, <2>9 DEF Inv, TypeOK
<1> HIDE DEF next
<1>4. OnlyCore(c)
  BY <1>2, <1>3 DEF OnlyCore, PlanFixed
<1>5. CoversClosed'
  BY <1>2, CoversKept DEF PlanFixed
<1>6. InStep(c) /\ BuffersHold(c) /\ HandedAnnounced(c) /\ Combined(c)
  BY DEF Inv, Core
<1>7. ActiveRounds(c)' = ActiveRounds(c)
  BY <1>4, PlanStays DEF OnlyCore
<1>8. ctodo[c] # {} /\ Level(c) /\ Min(todo[c]) \in todo[c] /\ Min(todo[c]) = Min(ctodo[c]) /\ todo[c] = ctodo[c]
  <2>1. todo[c] # {} /\ ctodo[c] # {} /\ Min(todo[c]) \in todo[c]
    BY <1>1, <1>2, HandedOver
  <2>2. ~Ahead(c)
    BY <1>2, <2>1 DEF Ahead
  <2> QED BY <1>6, <2>1, <2>2 DEF InStep, Level
<1>9. InStep(c)'
  <2>1. cpc[c] \in {"local", "takeL", "takeO"} /\ todo'[c] = ctodo[c] \ {Min(ctodo[c])}
    BY <1>2, <1>3, <1>8 DEF Level
  <2>2. Ahead(c)'
    BY <1>2, <1>3, <1>8, <2>1 DEF Ahead
  <2> QED BY <1>2, <1>6, <1>7, <2>2 DEF InStep
<1>10. BuffersHold(c)'
  <2>1. todo'[c] # ctodo'[c] /\ wpc'[c] \notin {"giveM", "barrier"} /\ cpc[c] \in {"local", "takeL", "takeO"}
    BY <1>2, <1>3, <1>8 DEF Level
  <2>2. HoldsL(c)' = HoldsL(c)
    BY <1>2, <1>3, <1>8, <2>1 DEF HoldsL
  <2>3. HoldsM(c)' = HoldsM(c)
    BY <1>2, <1>3, <1>8, <2>1 DEF HoldsM
  <2>4. HoldsO(c)' = c16'[c]
    BY <1>2, <1>3, <1>8, <2>1 DEF HoldsO
  <2>5. Sends(c)'
    BY <1>2, <1>3, <1>6, <2>1 DEF Sends, BuffersHold
  <2> QED BY <1>2, <1>6, <2>2, <2>3, <2>4, <2>5 DEF BuffersHold
<1>11. HandedAnnounced(c)'
  <2>1. wpc'[c] \notin {"giveL", "giveM", "giveO"}
    BY <1>3
  <2>2. \A r \in ActiveRounds(c) : r \notin todo'[c] => sem[c][r] >= 1
    BY <1>2, <1>3, <1>6 DEF HandedAnnounced
  <2> QED BY <1>2, <1>7, <2>1, <2>2 DEF HandedAnnounced
<1>12. Combined(c)'
  BY <1>2, <1>6, <1>7 DEF Combined
<1>13. wpc[c] \notin {"barrier", "atomic", "end"} /\ wpc'[c] \notin {"barrier", "atomic", "end"}
  BY <1>2, <1>3
<1> QED BY <1>1, <1>2, <1>3, <1>4, <1>5, <1>9, <1>10, <1>11, <1>12, <1>13, KernelStep DEF Core

\* Everything that is sent is the combined result: L is there only when the compute kernel has ended.
LEMMA SendStep ==
    ASSUME Inv, NEW c \in Running, Send(c)
    PROVE  Inv'
<1>1. PlanGiven /\ c \in Group
  BY PlanIsGiven
<1>2. /\ wpc[c] = "send" /\ c16[c] # {} /\ out[c]["m"] # {} /\ out[c]["l"] # {}
      /\ wpc' = [wpc EXCEPT ![c] = "barrier"]
      /\ flight' = flight \union {<<c, "l", out[c]["l"]>>, <<c, "m", out[c]["m"]>>, <<c, "o", c16[c]>>}
      /\ cores' = cores /\ chunks' = chunks /\ todo' = todo /\ cpc' = cpc /\ ctodo' = ctodo /\ acc' = acc
      /\ in' = in /\ c16' = c16 /\ out' = out /\ block' = block /\ sflight' = sflight
      /\ sem' = sem /\ output' = output
  BY DEF Send
<1>3. TypeOK' /\ wpc'[c] = "barrier" /\ \A d \in Group \ {c} : wpc'[d] = wpc[d]
  BY <1>1, <1>2 DEF Inv, TypeOK, Group
<1>4. PlanFixed /\ Running' = Running /\ Group' = Group /\ Running \subseteq Group
  BY <1>1, <1>2, PlanStays, PlanOfRunning DEF PlanFixed
<1>5. InStep(c) /\ BuffersHold(c) /\ HandedAnnounced(c) /\ Combined(c)
  BY DEF Inv, Core
<1>6. /\ ActiveRounds(c)' = ActiveRounds(c)
      /\ (\A d : Parent(d)' = Parent(d) /\ SendAt(d)' = SendAt(d)) /\ \A d, r : Child(d, r)' = Child(d, r)
  BY <1>4, PlanStays
<1>7. CoversClosed' /\ OthersIdle'
  <2>1. CoversClosed'
    BY <1>2, <1>4, CoversKept
  <2>2. OthersIdle'
    BY <1>2, <1>3, <1>4 DEF Inv, OthersIdle
  <2> QED BY <2>1, <2>2
<1>8. ASSUME NEW d \in Running, d # c PROVE Core(d)'
  BY <1>1, <1>2, <1>3, <1>4, <1>8, CoreKept
<1>9. /\ c # 0 /\ cpc[c] = "end" /\ Level(c) /\ ctodo[c] = {} /\ todo[c] = {}
      /\ out[c]["l"] = acc[c]["l"] /\ out[c]["m"] = acc[c]["m"] /\ c16[c] = acc[c]["o"]
  <2>1. cpc[c] = "end"
    BY <1>2, <1>5 DEF BuffersHold, Sends
  <2>2. Level(c) /\ ctodo[c] = {} /\ todo[c] = {} /\ c # 0
    BY <1>2, <1>5, <2>1 DEF InStep, Level, Ahead
  <2>3. out[c]["l"] = acc[c]["l"] /\ out[c]["m"] = acc[c]["m"] /\ c16[c] = HoldsO(c)
    BY <1>2, <1>5, <2>1 DEF BuffersHold, Sends
  <2>4. HoldsO(c) = acc[c]["o"]
    BY <1>2, <2>1, <2>2 DEF HoldsO
  <2> QED BY <2>1, <2>2, <2>3, <2>4
<1>10. Core(c)'
  <2>1. InStep(c)'
    <3>1. Level(c)'
      BY <1>2, <1>3, <1>9 DEF Level
    <3> QED BY <1>2, <1>5, <1>6, <3>1 DEF InStep
  <2>2. BuffersHold(c)'
    <3>1. HoldsL(c)' = HoldsL(c)
      BY <1>2, <1>3, <1>9 DEF HoldsL
    <3>2. HoldsM(c)' = HoldsM(c)
      BY <1>2, <1>3, <1>9 DEF HoldsM
    <3>3. HoldsO(c)' = HoldsO(c)
      BY <1>2, <1>3, <1>9 DEF HoldsO
    <3>4. Sends(c)'
      BY <1>2, <1>3, <1>9 DEF Sends
    <3> QED BY <1>2, <1>5, <3>1, <3>2, <3>3, <3>4 DEF BuffersHold
  <2>3. HandedAnnounced(c)'
    BY <1>2, <1>3, <1>5, <1>6 DEF HandedAnnounced
  <2>4. Combined(c)'
    BY <1>2, <1>5, <1>6 DEF Combined
  <2> QED BY <2>1, <2>2, <2>3, <2>4 DEF Core
<1>11. flight' = flight \union {<<c, "l", acc[c]["l"]>>, <<c, "m", acc[c]["m"]>>, <<c, "o", acc[c]["o"]>>}
  BY <1>2, <1>9
<1>12. Landings'
  <2>1. /\ <<c, "l", acc[c]["l"]>> \in Group \X Parts \X SUBSET Group
        /\ <<c, "m", acc[c]["m"]>> \in Group \X Parts \X SUBSET Group
        /\ <<c, "o", acc[c]["o"]>> \in Group \X Parts \X SUBSET Group
    BY <1>1 DEF Inv, TypeOK, Parts
  <2>2. flight' \subseteq Group \X Parts \X SUBSET Group
    BY <1>11, <2>1 DEF Inv, Landings
  <2> QED BY <1>2, <1>4, <2>2 DEF Inv, Landings
<1>13. InFlight'
  <2>1. /\ \A f \in flight : f[1] \in Running \ {0} /\ wpc[f[1]] = "barrier" /\ f[3] = acc[f[1]][f[2]]
        /\ \A d \in sflight : d \in Running \ {0} /\ wpc[d] = "atomic"
    BY DEF Inv, InFlight
  <2>2. \A f \in flight : f[1] \in Running \ {0} /\ wpc'[f[1]] = "barrier" /\ f[3] = acc[f[1]][f[2]]
    BY <1>2, <1>3, <1>4, <2>1
  <2>3. \A d \in sflight : d \in Running \ {0} /\ wpc'[d] = "atomic"
    BY <1>2, <1>3, <1>4, <2>1
  <2>4. \A f \in flight' \ flight : f[1] \in Running \ {0} /\ wpc'[f[1]] = "barrier" /\ f[3] = acc[f[1]][f[2]]
    BY <1>3, <1>9, <1>11
  <2> QED BY <1>2, <1>4, <2>2, <2>3, <2>4 DEF InFlight
<1>14. SentLands'
  <2>1. ASSUME NEW d \in Running \ {0}, wpc'[d] \in {"barrier", "atomic", "end"}, NEW p \in Parts
        PROVE  \/ block[Parent(d)][SendAt(d)][p] = acc[d][p]
               \/ wpc'[d] = "barrier" /\ <<d, p, acc[d][p]>> \in flight'
    <3>1. CASE d = c
      BY <1>3, <1>11, <3>1 DEF Parts
    <3>2. CASE d # c
      <4>1. wpc'[d] = wpc[d]
        BY <1>3, <1>4, <3>2
      <4>2. \/ block[Parent(d)][SendAt(d)][p] = acc[d][p]
            \/ wpc[d] = "barrier" /\ <<d, p, acc[d][p]>> \in flight
        BY <2>1, <4>1 DEF Inv, SentLands
      <4> QED BY <1>11, <4>1, <4>2
    <3> QED BY <3>1, <3>2
  <2> QED BY <1>2, <1>4, <1>6, <2>1 DEF SentLands
<1>15. AnnouncedSent'
  <2>1. ASSUME NEW p \in Group, NEW r \in Rounds, sem[p][r] >= 1
        PROVE  /\ Child(p, r) \in Running \ {0} /\ Parent(Child(p, r)) = p /\ SendAt(Child(p, r)) = r
               /\ wpc'[Child(p, r)] \in {"atomic", "end"} /\ Child(p, r) \notin sflight
    BY <1>2, <1>3, <1>4, <2>1 DEF Inv, AnnouncedSent
  <2> QED BY <1>2, <1>4, <1>6, <2>1 DEF AnnouncedSent
<1>16. OutputIsRoots'
  BY <1>2, <1>4 DEF Inv, OutputIsRoots
<1>17. \A d \in Running' : Core(d)'
  BY <1>4, <1>8, <1>10
<1> QED BY <1>3, <1>7, <1>12, <1>13, <1>14, <1>15, <1>16, <1>17 DEF Inv

\* After the barrier all three parts have landed, and the buffers are free.
LEMMA AnnounceStep ==
    ASSUME Inv, NEW c \in Running, Announce(c)
    PROVE  Inv'
<1>1. PlanGiven /\ c \in Group
  BY PlanIsGiven
<1>2. /\ wpc[c] = "barrier" /\ \A f \in flight : f[1] # c
      /\ wpc' = [wpc EXCEPT ![c] = "atomic"]
      /\ c16' = [c16 EXCEPT ![c] = {}]
      /\ out' = [out EXCEPT ![c] = Empty]
      /\ sflight' = sflight \union {c}
      /\ cores' = cores /\ chunks' = chunks /\ todo' = todo /\ cpc' = cpc /\ ctodo' = ctodo /\ acc' = acc
      /\ in' = in /\ block' = block /\ flight' = flight /\ sem' = sem /\ output' = output
  BY DEF Announce
<1>3. /\ TypeOK' /\ wpc'[c] = "atomic" /\ c16'[c] = {} /\ out'[c] = Empty
      /\ \A d \in Group \ {c} : wpc'[d] = wpc[d] /\ c16'[d] = c16[d] /\ out'[d] = out[d]
  BY <1>1, <1>2 DEF Inv, TypeOK, Group, Empty
<1>4. PlanFixed /\ Running' = Running /\ Group' = Group /\ Running \subseteq Group
  BY <1>1, <1>2, PlanStays, PlanOfRunning DEF PlanFixed
<1>5. InStep(c) /\ BuffersHold(c) /\ HandedAnnounced(c) /\ Combined(c)
  BY DEF Inv, Core
<1>6. /\ ActiveRounds(c)' = ActiveRounds(c)
      /\ (\A d : Parent(d)' = Parent(d) /\ SendAt(d)' = SendAt(d)) /\ \A d, r : Child(d, r)' = Child(d, r)
  BY <1>4, PlanStays
<1>7. CoversClosed' /\ OthersIdle'
  <2>1. CoversClosed'
    BY <1>2, <1>4, CoversKept
  <2>2. OthersIdle'
    BY <1>2, <1>3, <1>4 DEF Inv, OthersIdle
  <2> QED BY <2>1, <2>2
<1>8. ASSUME NEW d \in Running, d # c PROVE Core(d)'
  BY <1>1, <1>2, <1>3, <1>4, <1>8, CoreKept
<1>9. c # 0 /\ cpc[c] = "end" /\ ctodo[c] = {} /\ todo[c] = {}
  <2>1. Level(c)
    BY <1>2, <1>5 DEF InStep, Ahead
  <2>2. ctodo[c] = {} /\ todo[c] = {} /\ c # 0
    BY <1>2, <2>1 DEF Level
  <2> QED BY <1>2, <2>1, <2>2 DEF Level
<1>10. Core(c)'
  <2>1. InStep(c)'
    <3>1. Level(c)'
      BY <1>2, <1>3, <1>9 DEF Level
    <3> QED BY <1>2, <1>5, <1>6, <3>1 DEF InStep
  <2>2. BuffersHold(c)'
    <3>1. in[c]["l"] = {} /\ in[c]["m"] = {}
      BY <1>2, <1>5, <1>9 DEF BuffersHold, HoldsL, HoldsM
    <3>2. HoldsL(c)' = {} /\ HoldsM(c)' = {}
      BY <1>2, <1>3, <1>9 DEF HoldsL, HoldsM
    <3>3. HoldsO(c)' = c16'[c]
      BY <1>2, <1>3, <1>9 DEF HoldsO
    <3>4. Sends(c)'
      BY <1>2, <1>3, <1>9 DEF Sends, Empty, Parts
    <3> QED BY <1>2, <3>1, <3>2, <3>3, <3>4 DEF BuffersHold
  <2>3. HandedAnnounced(c)'
    BY <1>2, <1>3, <1>5, <1>6 DEF HandedAnnounced
  <2>4. Combined(c)'
    BY <1>2, <1>5, <1>6 DEF Combined
  <2> QED BY <2>1, <2>2, <2>3, <2>4 DEF Core
<1>11. \A p \in Parts : block[Parent(c)][SendAt(c)][p] = acc[c][p]
  <2>1. \A p \in Parts : \/ block[Parent(c)][SendAt(c)][p] = acc[c][p]
                         \/ wpc[c] = "barrier" /\ <<c, p, acc[c][p]>> \in flight
    BY <1>2, <1>9 DEF Inv, SentLands
  <2> QED BY <1>2, <2>1
<1>12. Landings'
  BY <1>1, <1>2, <1>4 DEF Inv, Landings
<1>13. InFlight'
  <2>1. /\ \A f \in flight : f[1] \in Running \ {0} /\ wpc[f[1]] = "barrier" /\ f[3] = acc[f[1]][f[2]]
        /\ \A d \in sflight : d \in Running \ {0} /\ wpc[d] = "atomic"
    BY DEF Inv, InFlight
  <2>2. \A f \in flight : f[1] \in Running \ {0} /\ wpc'[f[1]] = "barrier" /\ f[3] = acc[f[1]][f[2]]
    BY <1>2, <1>3, <1>4, <2>1
  <2>3. \A d \in sflight' : d \in Running \ {0} /\ wpc'[d] = "atomic"
    BY <1>2, <1>3, <1>4, <1>9, <2>1
  <2> QED BY <1>2, <1>4, <2>2, <2>3 DEF InFlight
<1>14. SentLands'
  <2>1. ASSUME NEW d \in Running \ {0}, wpc'[d] \in {"barrier", "atomic", "end"}, NEW p \in Parts
        PROVE  \/ block[Parent(d)][SendAt(d)][p] = acc[d][p]
               \/ wpc'[d] = "barrier" /\ <<d, p, acc[d][p]>> \in flight
    <3>1. CASE d = c
      BY <1>11, <3>1
    <3>2. CASE d # c
      <4>1. wpc'[d] = wpc[d]
        BY <1>3, <1>4, <3>2
      <4> QED BY <2>1, <4>1 DEF Inv, SentLands
    <3> QED BY <3>1, <3>2
  <2> QED BY <1>2, <1>4, <1>6, <2>1 DEF SentLands
<1>15. AnnouncedSent'
  <2>1. ASSUME NEW p \in Group, NEW r \in Rounds, sem[p][r] >= 1
        PROVE  /\ Child(p, r) \in Running \ {0} /\ Parent(Child(p, r)) = p /\ SendAt(Child(p, r)) = r
               /\ wpc'[Child(p, r)] \in {"atomic", "end"} /\ Child(p, r) \notin sflight'
    <3>1. /\ Child(p, r) \in Running \ {0} /\ Parent(Child(p, r)) = p /\ SendAt(Child(p, r)) = r
          /\ wpc[Child(p, r)] \in {"atomic", "end"} /\ Child(p, r) \notin sflight
      BY <2>1 DEF Inv, AnnouncedSent
    <3> QED BY <1>2, <1>3, <1>4, <3>1
  <2> QED BY <1>2, <1>4, <1>6, <2>1 DEF AnnouncedSent
<1>16. OutputIsRoots'
  BY <1>2, <1>4 DEF Inv, OutputIsRoots
<1>17. \A d \in Running' : Core(d)'
  BY <1>4, <1>8, <1>10
<1> QED BY <1>3, <1>7, <1>12, <1>13, <1>14, <1>15, <1>16, <1>17 DEF Inv

\* The increment has landed when the sender returns.
LEMMA SenderReturnsStep ==
    ASSUME Inv, NEW c \in Running, SenderReturns(c)
    PROVE  Inv'
<1>1. PlanGiven /\ c \in Group
  BY PlanIsGiven
<1>2. /\ wpc[c] = "atomic" /\ c \notin sflight
      /\ wpc' = [wpc EXCEPT ![c] = "end"]
      /\ cores' = cores /\ chunks' = chunks /\ todo' = todo /\ cpc' = cpc /\ ctodo' = ctodo /\ acc' = acc
      /\ in' = in /\ c16' = c16 /\ out' = out /\ block' = block /\ flight' = flight /\ sflight' = sflight
      /\ sem' = sem /\ output' = output
  BY DEF SenderReturns
<1>3. TypeOK' /\ wpc'[c] = "end" /\ \A d \in Group \ {c} : wpc'[d] = wpc[d]
  BY <1>1, <1>2 DEF Inv, TypeOK, Group
<1>4. PlanFixed /\ Running' = Running /\ Group' = Group /\ Running \subseteq Group
  BY <1>1, <1>2, PlanStays, PlanOfRunning DEF PlanFixed
<1>5. InStep(c) /\ BuffersHold(c) /\ HandedAnnounced(c) /\ Combined(c)
  BY DEF Inv, Core
<1>6. /\ ActiveRounds(c)' = ActiveRounds(c)
      /\ (\A d : Parent(d)' = Parent(d) /\ SendAt(d)' = SendAt(d)) /\ \A d, r : Child(d, r)' = Child(d, r)
  BY <1>4, PlanStays
<1>7. CoversClosed' /\ OthersIdle'
  <2>1. CoversClosed'
    BY <1>2, <1>4, CoversKept
  <2>2. OthersIdle'
    BY <1>2, <1>3, <1>4 DEF Inv, OthersIdle
  <2> QED BY <2>1, <2>2
<1>8. ASSUME NEW d \in Running, d # c PROVE Core(d)'
  BY <1>1, <1>2, <1>3, <1>4, <1>8, CoreKept
<1>9. c # 0 /\ cpc[c] = "end" /\ ctodo[c] = {} /\ todo[c] = {}
  <2>1. Level(c)
    BY <1>2, <1>5 DEF InStep, Ahead
  <2>2. ctodo[c] = {} /\ todo[c] = {} /\ c # 0
    BY <1>2, <2>1 DEF Level
  <2> QED BY <1>2, <2>1, <2>2 DEF Level
<1>10. Core(c)'
  <2>1. InStep(c)'
    <3>1. Level(c)'
      BY <1>2, <1>3, <1>9 DEF Level
    <3> QED BY <1>2, <1>5, <1>6, <3>1 DEF InStep
  <2>2. BuffersHold(c)'
    <3>1. in[c]["l"] = {} /\ in[c]["m"] = {}
      BY <1>2, <1>5, <1>9 DEF BuffersHold, HoldsL, HoldsM
    <3>2. HoldsL(c)' = {} /\ HoldsM(c)' = {}
      BY <1>2, <1>3, <1>9 DEF HoldsL, HoldsM
    <3>3. HoldsO(c)' = c16'[c]
      BY <1>2, <1>3, <1>5, <1>9 DEF HoldsO, BuffersHold
    <3>4. Sends(c)'
      BY <1>2, <1>3, <1>5, <1>9 DEF Sends, BuffersHold
    <3> QED BY <1>2, <3>1, <3>2, <3>3, <3>4 DEF BuffersHold
  <2>3. HandedAnnounced(c)'
    BY <1>2, <1>3, <1>5, <1>6 DEF HandedAnnounced
  <2>4. Combined(c)'
    BY <1>2, <1>5, <1>6 DEF Combined
  <2> QED BY <2>1, <2>2, <2>3, <2>4 DEF Core
<1>11. \A p \in Parts : block[Parent(c)][SendAt(c)][p] = acc[c][p]
  <2>1. \A p \in Parts : \/ block[Parent(c)][SendAt(c)][p] = acc[c][p]
                         \/ wpc[c] = "barrier" /\ <<c, p, acc[c][p]>> \in flight
    BY <1>2, <1>9 DEF Inv, SentLands
  <2> QED BY <1>2, <2>1
<1>12. Landings'
  BY <1>1, <1>2, <1>4 DEF Inv, Landings
<1>13. InFlight'
  <2>1. /\ \A f \in flight : f[1] \in Running \ {0} /\ wpc[f[1]] = "barrier" /\ f[3] = acc[f[1]][f[2]]
        /\ \A d \in sflight : d \in Running \ {0} /\ wpc[d] = "atomic"
    BY DEF Inv, InFlight
  <2>2. \A f \in flight : f[1] \in Running \ {0} /\ wpc'[f[1]] = "barrier" /\ f[3] = acc[f[1]][f[2]]
    BY <1>2, <1>3, <1>4, <2>1
  <2>3. \A d \in sflight' : d \in Running \ {0} /\ wpc'[d] = "atomic"
    BY <1>2, <1>3, <1>4, <1>9, <2>1
  <2> QED BY <1>2, <1>4, <2>2, <2>3 DEF InFlight
<1>14. SentLands'
  <2>1. ASSUME NEW d \in Running \ {0}, wpc'[d] \in {"barrier", "atomic", "end"}, NEW p \in Parts
        PROVE  \/ block[Parent(d)][SendAt(d)][p] = acc[d][p]
               \/ wpc'[d] = "barrier" /\ <<d, p, acc[d][p]>> \in flight
    <3>1. CASE d = c
      BY <1>11, <3>1
    <3>2. CASE d # c
      <4>1. wpc'[d] = wpc[d]
        BY <1>3, <1>4, <3>2
      <4> QED BY <2>1, <4>1 DEF Inv, SentLands
    <3> QED BY <3>1, <3>2
  <2> QED BY <1>2, <1>4, <1>6, <2>1 DEF SentLands
<1>15. AnnouncedSent'
  <2>1. ASSUME NEW p \in Group, NEW r \in Rounds, sem[p][r] >= 1
        PROVE  /\ Child(p, r) \in Running \ {0} /\ Parent(Child(p, r)) = p /\ SendAt(Child(p, r)) = r
               /\ wpc'[Child(p, r)] \in {"atomic", "end"} /\ Child(p, r) \notin sflight'
    <3>1. /\ Child(p, r) \in Running \ {0} /\ Parent(Child(p, r)) = p /\ SendAt(Child(p, r)) = r
          /\ wpc[Child(p, r)] \in {"atomic", "end"} /\ Child(p, r) \notin sflight
      BY <2>1 DEF Inv, AnnouncedSent
    <3> QED BY <1>2, <1>3, <1>4, <3>1
  <2> QED BY <1>2, <1>4, <1>6, <2>1 DEF AnnouncedSent
<1>16. OutputIsRoots'
  BY <1>2, <1>4 DEF Inv, OutputIsRoots
<1>17. \A d \in Running' : Core(d)'
  BY <1>4, <1>8, <1>10
<1> QED BY <1>3, <1>7, <1>12, <1>13, <1>14, <1>15, <1>16, <1>17 DEF Inv

\* The step of the root's writer that writes the result.
LEMMA WriteOutputStep ==
    ASSUME Inv, WriteOutput
    PROVE  Inv'
<1>1. /\ wpc[0] = "root" /\ cpc[0] = "end" /\ output' = acc[0]["o"] /\ wpc' = [wpc EXCEPT ![0] = "end"]
      /\ cores' = cores /\ chunks' = chunks /\ todo' = todo /\ cpc' = cpc /\ ctodo' = ctodo /\ acc' = acc
      /\ in' = in /\ c16' = c16 /\ out' = out /\ block' = block /\ flight' = flight /\ sflight' = sflight
      /\ sem' = sem
  BY DEF WriteOutput
<1>2. PlanGiven /\ 0 \in Group /\ 0 \in Running
  <2>1. PlanGiven /\ 0 \in Group
    BY PlanIsGiven DEF PlanGiven, Group
  <2> QED BY <1>1, <2>1 DEF Inv, OthersIdle
<1>3. TypeOK' /\ wpc'[0] = "end" /\ \A d \in Group \ {0} : wpc'[d] = wpc[d]
  BY <1>2, <1>1 DEF Inv, TypeOK, Group
<1>4. OnlyCore(0) /\ PlanFixed /\ Running' = Running /\ Group' = Group /\ Running \subseteq Group
  BY <1>2, <1>1, <1>3, PlanStays, PlanOfRunning DEF OnlyCore, PlanFixed
<1>5. InStep(0) /\ BuffersHold(0) /\ HandedAnnounced(0) /\ Combined(0)
  BY <1>2 DEF Inv, Core
<1>6. ActiveRounds(0)' = ActiveRounds(0)
  BY <1>4, PlanStays
<1>7. ctodo[0] = {} /\ todo[0] = {}
  <2>1. Level(0)
    BY <1>1, <1>5 DEF InStep, Ahead
  <2> QED BY <1>1, <2>1 DEF Level
<1>8. Core(0)'
  <2>1. InStep(0)'
    <3>1. Level(0)'
      BY <1>1, <1>3, <1>7 DEF Level
    <3> QED BY <1>1, <1>5, <1>6, <3>1 DEF InStep
  <2>2. BuffersHold(0)'
    <3>1. HoldsL(0)' = HoldsL(0)
      BY <1>1, <1>3, <1>7 DEF HoldsL
    <3>2. HoldsM(0)' = HoldsM(0)
      BY <1>1, <1>3, <1>7 DEF HoldsM
    <3>3. HoldsO(0)' = HoldsO(0)
      BY <1>1, <1>3, <1>7 DEF HoldsO
    <3>4. Sends(0)'
      BY <1>1, <1>3, <1>5 DEF Sends, BuffersHold
    <3> QED BY <1>1, <1>5, <3>1, <3>2, <3>3, <3>4 DEF BuffersHold
  <2>3. HandedAnnounced(0)'
    BY <1>1, <1>3, <1>5, <1>6 DEF HandedAnnounced
  <2>4. Combined(0)'
    BY <1>1, <1>5, <1>6 DEF Combined
  <2> QED BY <2>1, <2>2, <2>3, <2>4 DEF Core
<1>9. \A d \in Running' : Core(d)'
  <2>1. ASSUME NEW d \in Running, d # 0 PROVE Core(d)'
    BY <1>2, <1>1, <1>3, <1>4, <2>1, CoreKept
  <2> QED BY <1>4, <1>8, <2>1
<1>10. CoversClosed'
  BY <1>1, <1>4, CoversKept
<1>11. OthersIdle'
  BY <1>2, <1>1, <1>3, <1>4 DEF Inv, OthersIdle
<1>12. OutputIsRoots'
  BY <1>2, <1>1, <1>4 DEF OutputIsRoots
<1>13. Landings'
  BY <1>2, <1>1, <1>4 DEF Inv, Landings, TypeOK, Parts
<1>14. InFlight' /\ SentLands' /\ AnnouncedSent'
  BY <1>2, <1>4, NetKept
<1> QED BY <1>3, <1>9, <1>10, <1>11, <1>12, <1>13, <1>14 DEF Inv

-----------------------------------------------------------------------------
(* The steps of the network *)

\* A write lands in the block of the sender's round, of which the parent has not been told.
LEMMA LandPartStep ==
    ASSUME Inv, NEW f \in flight, LandPart(f)
    PROVE  Inv'
<1> DEFINE c == f[1]
           q == Parent(f[1])
           s == SendAt(f[1])
<1>1. /\ flight' = flight \ {f} /\ block' = [block EXCEPT ![q][s][f[2]] = f[3]]
      /\ cores' = cores /\ chunks' = chunks /\ wpc' = wpc /\ todo' = todo /\ cpc' = cpc /\ ctodo' = ctodo
      /\ acc' = acc /\ in' = in /\ c16' = c16 /\ out' = out /\ sflight' = sflight /\ sem' = sem
      /\ output' = output
  BY DEF LandPart
<1>2. /\ f = <<c, f[2], f[3]>> /\ f[2] \in Parts /\ f[3] \in SUBSET Group
      /\ c \in Running \ {0} /\ wpc[c] = "barrier" /\ f[3] = acc[c][f[2]]
  BY DEF Inv, Landings, InFlight
<1>3. /\ PlanGiven /\ q \in Running /\ s \in Rounds /\ Child(q, s) = c
      /\ PlanFixed /\ Running' = Running /\ Group' = Group /\ Running \subseteq Group
  <2>1. PlanGiven /\ PlanFixed
    BY <1>1, PlanIsGiven DEF PlanFixed
  <2>2. q \in Running /\ s \in ActiveRounds(q) /\ Child(q, s) = c
    BY <1>2, <2>1, PlanOfRunning
  <2>3. s \in Rounds
    BY <2>2 DEF ActiveRounds
  <2> QED BY <2>1, <2>2, <2>3, PlanStays, PlanOfRunning
<1> HIDE DEF c, q, s
<1>4. sem[q][s] < 1
  <2>1. ~(sem[q][s] >= 1)
    BY <1>3, <1>2 DEF Inv, AnnouncedSent
  <2>2. sem[q][s] \in 0..1
    BY <1>3 DEF Inv, TypeOK
  <2> QED BY <2>1, <2>2
<1>5. /\ block' \in [Group -> [Rounds -> [Parts -> SUBSET Group]]]
      /\ block'[q][s][f[2]] = f[3] /\ \A p \in Parts : p # f[2] => block'[q][s][p] = block[q][s][p]
      /\ \A d \in Group, r \in Rounds : d # q \/ r # s => block'[d][r] = block[d][r]
  <2>1. block \in [Group -> [Rounds -> [Parts -> SUBSET Group]]] /\ q \in Group
    BY <1>3 DEF Inv, Landings
  <2> QED BY <1>3, <1>1, <1>2, <2>1
<1>6. TypeOK' /\ Landings' /\ OthersIdle'
  <2>1. TypeOK'
    BY <1>3, <1>1 DEF Inv, TypeOK
  <2>2. Landings'
    BY <1>3, <1>1, <1>5 DEF Inv, Landings
  <2>3. OthersIdle'
    BY <1>3, <1>1 DEF Inv, OthersIdle
  <2> QED BY <2>1, <2>2, <2>3
<1>7. CoversClosed' /\ OutputIsRoots'
  <2>1. CoversClosed'
    BY <1>3, <1>1, CoversKept
  <2>2. OutputIsRoots'
    BY <1>3, <1>1 DEF Inv, OutputIsRoots
  <2> QED BY <2>1, <2>2
<1>8. ASSUME NEW d \in Running PROVE Core(d)'
  <2>1. \A r \in Rounds : sem[d][r] >= 1 => sem'[d][r] >= 1 /\ block'[d][r] = block[d][r]
    <3>1. ASSUME NEW r \in Rounds, sem[d][r] >= 1 PROVE block'[d][r] = block[d][r]
      <4>1. d # q \/ r # s
        BY <1>3, <1>2, <3>1 DEF Inv, AnnouncedSent
      <4> QED BY <1>3, <1>5, <4>1
    <3> QED BY <1>1, <3>1
  <2> QED BY <1>3, <1>1, <2>1, CoreKept
<1>9. (\A d : Parent(d)' = Parent(d) /\ SendAt(d)' = SendAt(d)) /\ \A d, r : Child(d, r)' = Child(d, r)
  BY <1>3, PlanStays
<1>10. InFlight'
  BY <1>3, <1>1 DEF Inv, InFlight
<1>11. SentLands'
  <2>1. ASSUME NEW d \in Running \ {0}, wpc[d] \in {"barrier", "atomic", "end"}, NEW p \in Parts
        PROVE  \/ block'[Parent(d)][SendAt(d)][p] = acc[d][p]
               \/ wpc[d] = "barrier" /\ <<d, p, acc[d][p]>> \in flight'
    <3>1. \/ block[Parent(d)][SendAt(d)][p] = acc[d][p]
          \/ wpc[d] = "barrier" /\ <<d, p, acc[d][p]>> \in flight
      BY <2>1 DEF Inv, SentLands
    <3>2. CASE d = c /\ p = f[2]
      BY <1>2, <1>5, <3>2 DEF q, s, c
    <3>3. CASE d = c /\ p # f[2]
      <4>1. block'[Parent(d)][SendAt(d)][p] = block[Parent(d)][SendAt(d)][p]
        BY <1>5, <3>3 DEF q, s, c
      <4>2. <<d, p, acc[d][p]>> # f
        BY <1>2, <3>3
      <4> QED BY <1>1, <3>1, <4>1, <4>2
    <3>4. CASE d # c
      <4>1. Child(Parent(d), SendAt(d)) = d /\ Parent(d) \in Group /\ SendAt(d) \in Rounds
        <5>1. Child(Parent(d), SendAt(d)) = d /\ Parent(d) \in Running /\ SendAt(d) \in ActiveRounds(Parent(d))
          BY <1>3, PlanOfRunning
        <5> QED BY <1>3, <5>1 DEF ActiveRounds
      <4>2. block'[Parent(d)][SendAt(d)] = block[Parent(d)][SendAt(d)]
        BY <1>3, <1>5, <3>4, <4>1
      <4>3. <<d, p, acc[d][p]>> # f
        BY <1>2, <3>4
      <4> QED BY <1>1, <3>1, <4>2, <4>3
    <3> QED BY <3>2, <3>3, <3>4
  <2> QED BY <1>3, <1>1, <1>9, <2>1 DEF SentLands
<1>12. AnnouncedSent'
  BY <1>3, <1>1, <1>9 DEF Inv, AnnouncedSent
<1>13. \A d \in Running' : Core(d)'
  BY <1>3, <1>8
<1> QED BY <1>6, <1>7, <1>10, <1>11, <1>12, <1>13 DEF Inv

\* An increment arrives once.
LEMMA LandIncrementStep ==
    ASSUME Inv, NEW c \in sflight, LandIncrement(c)
    PROVE  Inv'
<1> DEFINE q == Parent(c)
           s == SendAt(c)
<1>1. /\ sflight' = sflight \ {c} /\ sem' = [sem EXCEPT ![q][s] = @ + 1]
      /\ cores' = cores /\ chunks' = chunks /\ wpc' = wpc /\ todo' = todo /\ cpc' = cpc /\ ctodo' = ctodo
      /\ acc' = acc /\ in' = in /\ c16' = c16 /\ out' = out /\ block' = block /\ flight' = flight
      /\ output' = output
  BY DEF LandIncrement
<1>2. c \in Running \ {0} /\ wpc[c] = "atomic"
  BY DEF Inv, InFlight
<1>3. /\ PlanGiven /\ q \in Running /\ s \in Rounds /\ Child(q, s) = c
      /\ PlanFixed /\ Running' = Running /\ Group' = Group /\ Running \subseteq Group
  <2>1. PlanGiven /\ PlanFixed
    BY <1>1, PlanIsGiven DEF PlanFixed
  <2>2. q \in Running /\ s \in ActiveRounds(q) /\ Child(q, s) = c
    BY <1>2, <2>1, PlanOfRunning
  <2>3. s \in Rounds
    BY <2>2 DEF ActiveRounds
  <2> QED BY <2>1, <2>2, <2>3, PlanStays, PlanOfRunning
<1>4. sem[q][s] = 0
  <2>1. ~(sem[q][s] >= 1)
    BY <1>3, <1>2 DEF Inv, AnnouncedSent
  <2>2. sem[q][s] \in 0..1
    BY <1>3 DEF Inv, TypeOK
  <2> QED BY <2>1, <2>2
<1> HIDE DEF q, s
<1>5. /\ sem' \in [Group -> [Rounds -> 0..1]] /\ sem'[q][s] = 1
      /\ \A d \in Group, r \in Rounds : d # q \/ r # s => sem'[d][r] = sem[d][r]
  <2>1. sem \in [Group -> [Rounds -> 0..1]] /\ q \in Group
    BY <1>3 DEF Inv, TypeOK
  <2>2. sem' = [sem EXCEPT ![q][s] = 1]
    BY <1>3, <1>1, <1>4, <2>1
  <2> QED BY <1>3, <2>1, <2>2
<1>6. TypeOK' /\ Landings' /\ OthersIdle'
  <2>1. TypeOK'
    BY <1>3, <1>1, <1>5 DEF Inv, TypeOK
  <2>2. Landings'
    BY <1>3, <1>1 DEF Inv, Landings
  <2>3. OthersIdle'
    BY <1>3, <1>1 DEF Inv, OthersIdle
  <2> QED BY <2>1, <2>2, <2>3
<1>7. CoversClosed' /\ OutputIsRoots'
  <2>1. CoversClosed'
    BY <1>3, <1>1, CoversKept
  <2>2. OutputIsRoots'
    BY <1>3, <1>1 DEF Inv, OutputIsRoots
  <2> QED BY <2>1, <2>2
<1>8. ASSUME NEW d \in Running PROVE Core(d)'
  <2>1. \A r \in Rounds : sem[d][r] >= 1 => sem'[d][r] >= 1 /\ block'[d][r] = block[d][r]
    BY <1>3, <1>1, <1>5
  <2> QED BY <1>3, <1>1, <2>1, CoreKept
<1>9. (\A d : Parent(d)' = Parent(d) /\ SendAt(d)' = SendAt(d)) /\ \A d, r : Child(d, r)' = Child(d, r)
  BY <1>3, PlanStays
<1>10. InFlight'
  BY <1>3, <1>1 DEF Inv, InFlight
<1>11. SentLands'
  BY <1>3, <1>1, <1>9 DEF Inv, SentLands
<1>12. AnnouncedSent'
  <2>1. ASSUME NEW p \in Group, NEW r \in Rounds, sem'[p][r] >= 1
        PROVE  /\ Child(p, r) \in Running \ {0} /\ Parent(Child(p, r)) = p /\ SendAt(Child(p, r)) = r
               /\ wpc[Child(p, r)] \in {"atomic", "end"} /\ Child(p, r) \notin sflight'
    <3>1. CASE p = q /\ r = s
      BY <1>3, <1>1, <1>2, <3>1 DEF q, s
    <3>2. CASE p # q \/ r # s
      <4>1. sem[p][r] >= 1
        BY <1>5, <2>1, <3>2
      <4> QED BY <1>1, <4>1 DEF Inv, AnnouncedSent
    <3> QED BY <3>1, <3>2
  <2> QED BY <1>3, <1>1, <1>9, <2>1 DEF AnnouncedSent
<1>13. \A d \in Running' : Core(d)'
  BY <1>3, <1>8
<1> QED BY <1>6, <1>7, <1>10, <1>11, <1>12, <1>13 DEF Inv

-----------------------------------------------------------------------------
(* The steps of the compute kernel *)

\* The core's own chunks come first.
LEMMA LocalAttentionStep ==
    ASSUME Inv, NEW c \in Running, LocalAttention(c)
    PROVE  Inv'
<1>1. PlanGiven /\ c \in Group
  BY PlanIsGiven
<1>2. /\ cpc[c] = "local"
      /\ acc' = [acc EXCEPT ![c] = [p \in Parts |-> {c}]]
      /\ cpc' = [cpc EXCEPT ![c] = AfterRound(c, ctodo[c])]
      /\ cores' = cores /\ chunks' = chunks /\ wpc' = wpc /\ todo' = todo /\ ctodo' = ctodo /\ in' = in
      /\ c16' = c16 /\ out' = out /\ block' = block /\ flight' = flight /\ sflight' = sflight /\ sem' = sem
      /\ output' = output
  BY DEF LocalAttention
<1> DEFINE next == AfterRound(c, ctodo[c])
<1>3. /\ TypeOK' /\ \A d \in Group \ {c} : acc'[d] = acc[d] /\ cpc'[d] = cpc[d]
      /\ acc'[c]["l"] = {c} /\ acc'[c]["m"] = {c} /\ acc'[c]["o"] = {c}
      /\ cpc'[c] = IF ctodo[c] # {} THEN "takeL" ELSE IF c = 0 THEN "end" ELSE "moveO"
  <2>1. next = IF ctodo[c] # {} THEN "takeL" ELSE IF c = 0 THEN "end" ELSE "moveO"
    BY DEF AfterRound
  <2>2. next \in {"local", "takeL", "takeO", "takeM", "moveO", "moveM", "moveL", "end"}
    BY <2>1
  <2>3. cpc' = [cpc EXCEPT ![c] = next]
    BY <1>2
  <2> HIDE DEF next
  <2>4. cpc' \in [Group -> {"local", "takeL", "takeO", "takeM", "moveO", "moveM", "moveL", "end"}]
    BY <1>1, <2>3, <2>2 DEF Inv, TypeOK
  <2>5. acc' \in [Group -> [Parts -> SUBSET Group]]
    BY <1>1, <1>2 DEF Inv, TypeOK
  <2>6. cpc'[c] = next /\ \A d \in Group \ {c} : acc'[d] = acc[d] /\ cpc'[d] = cpc[d]
    BY <1>1, <1>2, <2>3 DEF Inv, TypeOK
  <2>7. acc'[c]["l"] = {c} /\ acc'[c]["m"] = {c} /\ acc'[c]["o"] = {c}
    BY <1>1, <1>2 DEF Inv, TypeOK, Parts
  <2>8. Group' = Group
    BY <1>2 DEF Group
  <2> QED BY <1>2, <2>1, <2>4, <2>5, <2>6, <2>7, <2>8 DEF Inv, TypeOK
<1> HIDE DEF next
<1>4. OnlyCore(c)
  BY <1>2, <1>3 DEF OnlyCore, PlanFixed
<1>5. InStep(c) /\ BuffersHold(c) /\ HandedAnnounced(c) /\ Combined(c)
  BY DEF Inv, Core
<1>6. ActiveRounds(c)' = ActiveRounds(c) /\ Running' = Running /\ Running \subseteq Group
  BY <1>1, <1>4, PlanStays, PlanOfRunning DEF OnlyCore
<1>7. CoversClosed'
  <2>1. ASSUME NEW d \in Running, NEW e \in acc'[d]["o"], e # d
        PROVE  e \in Running /\ cpc'[e] = "end" /\ acc'[e]["o"] \subseteq acc'[d]["o"]
    <3>1. d # c /\ acc'[d] = acc[d]
      BY <1>3, <1>6, <2>1
    <3>2. e \in Running /\ cpc[e] = "end" /\ acc[e]["o"] \subseteq acc[d]["o"]
      BY <2>1, <3>1 DEF Inv, CoversClosed
    <3>3. cpc'[e] = cpc[e] /\ acc'[e] = acc[e]
      BY <1>2, <1>3, <1>6, <3>2
    <3> QED BY <3>1, <3>2, <3>3
  <2> QED BY <1>6, <2>1 DEF CoversClosed
<1>8. /\ ctodo[c] = ActiveRounds(c) /\ (c = 0 \/ wpc[c] \notin {"barrier", "atomic", "end"})
      /\ (ctodo[c] = {} => todo[c] = ctodo[c] /\ wpc[c] \notin {"giveL", "giveM", "giveO", "barrier"}
            /\ (c = 0 => wpc[c] # "send"))
  <2>1. CASE Level(c)
    BY <1>2, <1>5, <2>1 DEF InStep, Level
  <2>2. CASE Ahead(c)
    BY <1>2, <1>5, <2>2 DEF InStep, Ahead
  <2> QED BY <1>5, <2>1, <2>2 DEF InStep
<1>9. InStep(c)'
  <2>1. Level(c) => Level(c)'
    BY <1>2, <1>3, <1>8 DEF Level
  <2>2. Ahead(c) => Ahead(c)'
    BY <1>2, <1>3, <1>8 DEF Ahead
  <2> QED BY <1>2, <1>3, <1>5, <1>6, <1>8, <2>1, <2>2 DEF InStep
<1>10. BuffersHold(c)'
  <2>1. in'[c]["l"] = HoldsL(c)'
    BY <1>2, <1>3, <1>5, <1>8 DEF BuffersHold, HoldsL
  <2>2. in'[c]["m"] = HoldsM(c)'
    BY <1>2, <1>3, <1>5, <1>8 DEF BuffersHold, HoldsM
  <2>3. c16'[c] = HoldsO(c)'
    BY <1>2, <1>3, <1>5, <1>8 DEF BuffersHold, HoldsO
  <2>4. Sends(c)'
    BY <1>2, <1>3, <1>5, <1>8 DEF BuffersHold, Sends
  <2> QED BY <2>1, <2>2, <2>3, <2>4 DEF BuffersHold
<1>11. HandedAnnounced(c)'
  BY <1>2, <1>3, <1>5, <1>6 DEF HandedAnnounced
<1>12. Combined(c)'
  BY <1>2, <1>3, <1>6, <1>8 DEF Combined, Parts
<1>13. c = 0 \/ (wpc[c] \notin {"barrier", "atomic", "end"} /\ wpc'[c] \notin {"barrier", "atomic", "end"})
  BY <1>2, <1>8
<1> QED BY <1>1, <1>2, <1>3, <1>4, <1>7, <1>9, <1>10, <1>11, <1>12, <1>13, KernelStep DEF Core

\* The L that is there is the one of the child the compute kernel is at.
LEMMA TakeLStep ==
    ASSUME Inv, NEW c \in Running, TakeL(c)
    PROVE  Inv'
<1>1. PlanGiven /\ c \in Group
  BY PlanIsGiven
<1>2. /\ cpc[c] = "takeL" /\ in[c]["l"] # {}
      /\ acc' = [acc EXCEPT ![c]["l"] = @ \union in[c]["l"]]
      /\ in' = [in EXCEPT ![c]["l"] = {}]
      /\ cpc' = [cpc EXCEPT ![c] = "takeO"]
      /\ cores' = cores /\ chunks' = chunks /\ wpc' = wpc /\ todo' = todo /\ ctodo' = ctodo /\ c16' = c16
      /\ out' = out /\ block' = block /\ flight' = flight /\ sflight' = sflight /\ sem' = sem
      /\ output' = output
  BY DEF TakeL
<1>3. /\ TypeOK' /\ \A d \in Group \ {c} : acc'[d] = acc[d] /\ cpc'[d] = cpc[d] /\ in'[d] = in[d]
      /\ acc'[c]["l"] = acc[c]["l"] \union in[c]["l"] /\ acc'[c]["m"] = acc[c]["m"] /\ acc'[c]["o"] = acc[c]["o"]
      /\ in'[c]["l"] = {} /\ in'[c]["m"] = in[c]["m"] /\ cpc'[c] = "takeO"
  <2>1. /\ acc[c] \in [Parts -> SUBSET Group] /\ in[c] \in [Parts -> SUBSET Group]
        /\ in[c]["l"] \in SUBSET Group /\ acc[c]["l"] \in SUBSET Group
    BY <1>1 DEF Inv, TypeOK, Parts
  <2>2. acc' \in [Group -> [Parts -> SUBSET Group]] /\ in' \in [Group -> [Parts -> SUBSET Group]]
    BY <1>1, <1>2, <2>1 DEF Inv, TypeOK
  <2>3. cpc' \in [Group -> {"local", "takeL", "takeO", "takeM", "moveO", "moveM", "moveL", "end"}] /\ Group' = Group
    BY <1>1, <1>2 DEF Inv, TypeOK, Group
  <2>4. /\ \A d \in Group \ {c} : acc'[d] = acc[d] /\ cpc'[d] = cpc[d] /\ in'[d] = in[d]
        /\ acc'[c]["l"] = acc[c]["l"] \union in[c]["l"] /\ acc'[c]["m"] = acc[c]["m"] /\ acc'[c]["o"] = acc[c]["o"]
        /\ in'[c]["l"] = {} /\ in'[c]["m"] = in[c]["m"] /\ cpc'[c] = "takeO"
    BY <1>1, <1>2, <2>1 DEF Inv, TypeOK, Parts
  <2> QED BY <1>2, <2>2, <2>3, <2>4 DEF Inv, TypeOK
<1>4. OnlyCore(c)
  BY <1>2, <1>3 DEF OnlyCore, PlanFixed
<1>5. InStep(c) /\ BuffersHold(c) /\ HandedAnnounced(c) /\ Combined(c)
  BY DEF Inv, Core
<1>6. ActiveRounds(c)' = ActiveRounds(c) /\ Running' = Running /\ Running \subseteq Group
  BY <1>1, <1>4, PlanStays, PlanOfRunning DEF OnlyCore
<1>7. CoversClosed'
  BY <1>2, <1>3, <1>6, CoversKept DEF PlanFixed
<1>8. /\ ctodo[c] # {} /\ wpc[c] \notin {"barrier", "atomic", "end"}
      /\ todo[c] # ctodo[c] \/ wpc[c] \in {"giveM", "giveO"}
      /\ (Ahead(c) => todo[c] # ctodo[c]) /\ (todo[c] # ctodo[c] => Ahead(c)) /\ (Ahead(c) => wpc[c] # "giveM")
  <2>1. todo[c] # ctodo[c] \/ wpc[c] \in {"giveM", "giveO"}
    BY <1>2, <1>5 DEF BuffersHold, HoldsL
  <2>2. ctodo[c] # {} /\ wpc[c] \notin {"barrier", "atomic", "end"}
    <3>1. CASE Level(c)
      BY <1>2, <3>1 DEF Level
    <3>2. CASE Ahead(c)
      BY <1>2, <3>2 DEF Ahead
    <3> QED BY <1>5, <3>1, <3>2 DEF InStep
  <2>3. Min(ctodo[c]) \in ctodo[c]
    BY <1>1, <2>2, HandedOver
  <2>4. (Ahead(c) => todo[c] # ctodo[c]) /\ (todo[c] # ctodo[c] => Ahead(c)) /\ (Ahead(c) => wpc[c] # "giveM")
    BY <1>2, <1>5, <2>3 DEF InStep, Level, Ahead
  <2> QED BY <2>1, <2>2, <2>4
<1>9. InStep(c)'
  <2>1. Level(c) => Level(c)'
    BY <1>2, <1>3, <1>8 DEF Level
  <2>2. Ahead(c) => Ahead(c)'
    BY <1>2, <1>3, <1>8 DEF Ahead
  <2> QED BY <1>2, <1>3, <1>5, <1>6, <2>1, <2>2 DEF InStep
<1>10. BuffersHold(c)'
  <2>1. in'[c]["l"] = HoldsL(c)'
    BY <1>2, <1>3, <1>8 DEF HoldsL
  <2>2. in'[c]["m"] = HoldsM(c)'
    BY <1>2, <1>3, <1>5 DEF BuffersHold, HoldsM
  <2>3. c16'[c] = HoldsO(c)'
    BY <1>2, <1>3, <1>5 DEF BuffersHold, HoldsO
  <2>4. Sends(c)'
    BY <1>2, <1>3, <1>5 DEF BuffersHold, Sends
  <2> QED BY <2>1, <2>2, <2>3, <2>4 DEF BuffersHold
<1>11. HandedAnnounced(c)'
  BY <1>2, <1>3, <1>5, <1>6 DEF HandedAnnounced
<1>12. Combined(c)'
  BY <1>2, <1>3, <1>5, <1>6 DEF Combined, Parts
<1>13. c = 0 \/ (wpc[c] \notin {"barrier", "atomic", "end"} /\ wpc'[c] \notin {"barrier", "atomic", "end"})
  BY <1>2, <1>8
<1> QED BY <1>1, <1>2, <1>3, <1>4, <1>7, <1>9, <1>10, <1>11, <1>12, <1>13, KernelStep DEF Core

\* What c_16 holds is the O of that child, whose result is final, and not the core's own.
LEMMA TakeOStep ==
    ASSUME Inv, NEW c \in Running, TakeO(c)
    PROVE  Inv'
<1>1. PlanGiven /\ c \in Group
  BY PlanIsGiven
<1>2. /\ cpc[c] = "takeO" /\ in[c]["m"] # {} /\ c16[c] # {}
      /\ acc' = [acc EXCEPT ![c]["o"] = @ \union c16[c]]
      /\ c16' = [c16 EXCEPT ![c] = {}]
      /\ cpc' = [cpc EXCEPT ![c] = "takeM"]
      /\ cores' = cores /\ chunks' = chunks /\ wpc' = wpc /\ todo' = todo /\ ctodo' = ctodo /\ in' = in
      /\ out' = out /\ block' = block /\ flight' = flight /\ sflight' = sflight /\ sem' = sem
      /\ output' = output
  BY DEF TakeO
<1>3. /\ TypeOK' /\ \A d \in Group \ {c} : acc'[d] = acc[d] /\ cpc'[d] = cpc[d] /\ c16'[d] = c16[d]
      /\ acc'[c]["o"] = acc[c]["o"] \union c16[c] /\ acc'[c]["l"] = acc[c]["l"] /\ acc'[c]["m"] = acc[c]["m"]
      /\ c16'[c] = {} /\ cpc'[c] = "takeM"
  <2>1. acc[c] \in [Parts -> SUBSET Group] /\ acc[c]["o"] \in SUBSET Group /\ c16[c] \in SUBSET Group
    BY <1>1 DEF Inv, TypeOK, Parts
  <2>2. acc' \in [Group -> [Parts -> SUBSET Group]] /\ c16' \in [Group -> SUBSET Group]
    BY <1>1, <1>2, <2>1 DEF Inv, TypeOK
  <2>3. cpc' \in [Group -> {"local", "takeL", "takeO", "takeM", "moveO", "moveM", "moveL", "end"}] /\ Group' = Group
    BY <1>1, <1>2 DEF Inv, TypeOK, Group
  <2>4. /\ \A d \in Group \ {c} : acc'[d] = acc[d] /\ cpc'[d] = cpc[d] /\ c16'[d] = c16[d]
        /\ acc'[c]["o"] = acc[c]["o"] \union c16[c] /\ acc'[c]["l"] = acc[c]["l"] /\ acc'[c]["m"] = acc[c]["m"]
        /\ c16'[c] = {} /\ cpc'[c] = "takeM"
    BY <1>1, <1>2, <2>1 DEF Inv, TypeOK, Parts
  <2> QED BY <1>2, <2>2, <2>3, <2>4 DEF Inv, TypeOK
<1>4. OnlyCore(c)
  BY <1>2, <1>3 DEF OnlyCore, PlanFixed
<1>5. InStep(c) /\ BuffersHold(c) /\ HandedAnnounced(c) /\ Combined(c)
  BY DEF Inv, Core
<1>6. ActiveRounds(c)' = ActiveRounds(c) /\ Running' = Running /\ Running \subseteq Group
  BY <1>1, <1>4, PlanStays, PlanOfRunning DEF OnlyCore
<1>7. /\ Ahead(c) /\ ctodo[c] # {} /\ todo[c] # ctodo[c] /\ wpc[c] \notin {"barrier", "atomic", "end"}
      /\ c16[c] = block[c][Min(ctodo[c])]["o"] /\ sem[c][Min(ctodo[c])] >= 1 /\ Min(ctodo[c]) \in ActiveRounds(c)
  <2>1. todo[c] # ctodo[c] /\ c16[c] = block[c][Min(ctodo[c])]["o"]
    BY <1>2, <1>5 DEF BuffersHold, HoldsO
  <2>2. Ahead(c)
    BY <1>5, <2>1 DEF InStep, Level
  <2>3. ctodo[c] # {} /\ sem[c][Min(ctodo[c])] >= 1 /\ Min(ctodo[c]) \in ActiveRounds(c)
    BY <1>1, <2>1, HandedOver
  <2> QED BY <2>1, <2>2, <2>3 DEF Ahead
<1>8. CoversClosed'
  <2> DEFINE k == Min(ctodo[c])
             g == Child(c, k)
  <2>1. /\ g \in Running /\ g # c /\ cpc[g] = "end" /\ acc'[c]["o"] = acc[c]["o"] \union acc[g]["o"]
    <3>1. k \in Rounds /\ g \in Running \ {0} /\ Parent(g) = c
      BY <1>1, <1>7, PlanOfRunning
    <3>2. cpc[g] = "end" /\ block[c][k]["o"] = acc[g]["o"]
      BY <1>1, <1>7, <3>1, FullBlocks DEF Parts
    <3> QED BY <1>2, <1>3, <1>7, <3>1, <3>2
  <2> HIDE DEF g, k
  <2>2. \A d \in Running : \A e \in acc[d]["o"] : e = d \/ (e \in Running /\ cpc[e] = "end" /\ acc[e]["o"] \subseteq acc[d]["o"])
    BY DEF Inv, CoversClosed
  <2>3. ASSUME NEW d \in Running, NEW e \in acc'[d]["o"], e # d
        PROVE  e \in Running /\ cpc'[e] = "end" /\ acc'[e]["o"] \subseteq acc'[d]["o"]
    <3>1. CASE d # c
      <4>1. acc'[d] = acc[d]
        BY <1>3, <1>6, <3>1
      <4>2. e \in Running /\ cpc[e] = "end" /\ acc[e]["o"] \subseteq acc[d]["o"]
        BY <2>2, <2>3, <4>1
      <4>3. acc'[e] = acc[e] /\ cpc'[e] = cpc[e]
        BY <1>2, <1>3, <1>6, <4>2
      <4> QED BY <4>1, <4>2, <4>3
    <3>2. CASE d = c
      <4>1. e \in Running /\ cpc[e] = "end" /\ acc[e]["o"] \subseteq acc[c]["o"] \union acc[g]["o"]
        BY <2>1, <2>2, <2>3, <3>2
      <4>2. acc'[e] = acc[e] /\ cpc'[e] = cpc[e]
        BY <1>2, <1>3, <1>6, <4>1
      <4> QED BY <2>1, <3>2, <4>1, <4>2
    <3> QED BY <3>1, <3>2
  <2> QED BY <1>6, <2>3 DEF CoversClosed
<1>9. InStep(c)'
  <2>1. Ahead(c)'
    BY <1>2, <1>3, <1>7 DEF Ahead
  <2> QED BY <1>2, <1>3, <1>5, <1>6, <2>1 DEF InStep
<1>10. BuffersHold(c)'
  <2>1. in'[c]["l"] = HoldsL(c)'
    BY <1>2, <1>3, <1>5 DEF BuffersHold, HoldsL
  <2>2. in'[c]["m"] = HoldsM(c)'
    BY <1>2, <1>3, <1>5 DEF BuffersHold, HoldsM
  <2>3. c16'[c] = HoldsO(c)'
    BY <1>2, <1>3 DEF HoldsO
  <2>4. Sends(c)'
    BY <1>2, <1>3, <1>5 DEF BuffersHold, Sends
  <2> QED BY <2>1, <2>2, <2>3, <2>4 DEF BuffersHold
<1>11. HandedAnnounced(c)'
  BY <1>2, <1>3, <1>5, <1>6 DEF HandedAnnounced
<1>12. Combined(c)'
  <2>1. \A r \in ActiveRounds(c) :
         (r \notin ctodo[c] \/ r = Min(ctodo[c])) => block[c][r]["o"] \subseteq acc[c]["o"] \union c16[c]
    BY <1>5, <1>7 DEF Combined
  <2>2. \A p \in Parts : c \in acc'[c][p]
    BY <1>2, <1>3, <1>5 DEF Combined, Parts
  <2> QED BY <1>2, <1>3, <1>6, <2>1, <2>2 DEF Combined
<1>13. c = 0 \/ (wpc[c] \notin {"barrier", "atomic", "end"} /\ wpc'[c] \notin {"barrier", "atomic", "end"})
  BY <1>2, <1>7
<1> QED BY <1>1, <1>2, <1>3, <1>4, <1>8, <1>9, <1>10, <1>11, <1>12, <1>13, KernelStep DEF Core

\* The child is combined: the compute kernel is level with the writer again, at the next child or at the end.
LEMMA TakeMStep ==
    ASSUME Inv, NEW c \in Running, TakeM(c)
    PROVE  Inv'
<1>1. PlanGiven /\ c \in Group
  BY PlanIsGiven
<1>2. /\ cpc[c] = "takeM"
      /\ acc' = [acc EXCEPT ![c]["m"] = @ \union in[c]["m"]]
      /\ in' = [in EXCEPT ![c]["m"] = {}]
      /\ ctodo' = [ctodo EXCEPT ![c] = @ \ {Min(@)}]
      /\ cpc' = [cpc EXCEPT ![c] = AfterRound(c, ctodo'[c])]
      /\ cores' = cores /\ chunks' = chunks /\ wpc' = wpc /\ todo' = todo /\ c16' = c16 /\ out' = out
      /\ block' = block /\ flight' = flight /\ sflight' = sflight /\ sem' = sem /\ output' = output
  BY DEF TakeM
<1> DEFINE next == AfterRound(c, ctodo'[c])
<1>3. /\ TypeOK' /\ \A d \in Group \ {c} : acc'[d] = acc[d] /\ cpc'[d] = cpc[d] /\ in'[d] = in[d] /\ ctodo'[d] = ctodo[d]
      /\ acc'[c]["m"] = acc[c]["m"] \union in[c]["m"] /\ acc'[c]["l"] = acc[c]["l"] /\ acc'[c]["o"] = acc[c]["o"]
      /\ in'[c]["m"] = {} /\ in'[c]["l"] = in[c]["l"] /\ ctodo'[c] = ctodo[c] \ {Min(ctodo[c])}
      /\ cpc'[c] = IF ctodo'[c] # {} THEN "takeL" ELSE IF c = 0 THEN "end" ELSE "moveO"
  <2>1. next = IF ctodo'[c] # {} THEN "takeL" ELSE IF c = 0 THEN "end" ELSE "moveO"
    BY DEF AfterRound
  <2>2. next \in {"local", "takeL", "takeO", "takeM", "moveO", "moveM", "moveL", "end"}
    BY <2>1
  <2>3. cpc' = [cpc EXCEPT ![c] = next]
    BY <1>2
  <2> HIDE DEF next
  <2>4. /\ cpc' \in [Group -> {"local", "takeL", "takeO", "takeM", "moveO", "moveM", "moveL", "end"}]
        /\ cpc'[c] = next /\ \A d \in Group \ {c} : cpc'[d] = cpc[d]
    BY <1>1, <2>2, <2>3 DEF Inv, TypeOK
  <2>5. /\ ctodo' \in [Group -> SUBSET Rounds]
        /\ ctodo'[c] = ctodo[c] \ {Min(ctodo[c])} /\ \A d \in Group \ {c} : ctodo'[d] = ctodo[d]
    BY <1>1, <1>2 DEF Inv, TypeOK
  <2>6. /\ acc[c] \in [Parts -> SUBSET Group] /\ in[c] \in [Parts -> SUBSET Group]
        /\ in[c]["m"] \in SUBSET Group /\ acc[c]["m"] \in SUBSET Group
    BY <1>1 DEF Inv, TypeOK, Parts
  <2>7. acc' \in [Group -> [Parts -> SUBSET Group]] /\ in' \in [Group -> [Parts -> SUBSET Group]]
    BY <1>1, <1>2, <2>6 DEF Inv, TypeOK
  <2>8. /\ \A d \in Group \ {c} : acc'[d] = acc[d] /\ in'[d] = in[d]
        /\ acc'[c]["m"] = acc[c]["m"] \union in[c]["m"] /\ acc'[c]["l"] = acc[c]["l"] /\ acc'[c]["o"] = acc[c]["o"]
        /\ in'[c]["m"] = {} /\ in'[c]["l"] = in[c]["l"]
    BY <1>1, <1>2, <2>6 DEF Inv, TypeOK, Parts
  <2>9. Group' = Group
    BY <1>2 DEF Group
  <2> QED BY <1>2, <2>1, <2>4, <2>5, <2>7, <2>8, <2>9 DEF Inv, TypeOK
<1> HIDE DEF next
<1>4. OnlyCore(c)
  BY <1>2, <1>3 DEF OnlyCore, PlanFixed
<1>5. InStep(c) /\ BuffersHold(c) /\ HandedAnnounced(c) /\ Combined(c)
  BY DEF Inv, Core
<1>6. ActiveRounds(c)' = ActiveRounds(c) /\ Running' = Running /\ Running \subseteq Group
  BY <1>1, <1>4, PlanStays, PlanOfRunning DEF OnlyCore
<1>7. CoversClosed'
  BY <1>2, <1>3, <1>6, CoversKept DEF PlanFixed
<1>8. /\ Ahead(c) /\ ctodo'[c] = todo[c] /\ todo[c] # ctodo[c] /\ wpc[c] \notin {"barrier", "atomic", "end"}
      /\ todo[c] # {} => wpc[c] \in {"poll", "giveL", "giveM"}
      /\ todo[c] = {} => wpc[c] = IF c = 0 THEN "root" ELSE "send"
  <2>1. Ahead(c)
    BY <1>2, <1>5 DEF InStep, Level
  <2>2. ctodo[c] # {} /\ todo[c] = ctodo[c] \ {Min(ctodo[c])}
    BY <2>1 DEF Ahead
  <2>3. Min(ctodo[c]) \in ctodo[c]
    BY <1>1, <2>2, HandedOver
  <2> QED BY <1>3, <2>1, <2>2, <2>3 DEF Ahead
<1>9. InStep(c)'
  <2>1. Level(c)'
    BY <1>2, <1>3, <1>8 DEF Level
  <2>2. ctodo'[c] \subseteq ActiveRounds(c) /\ cpc'[c] # "local"
    BY <1>3, <1>5 DEF InStep
  <2> QED BY <1>6, <2>1, <2>2 DEF InStep
<1>10. BuffersHold(c)'
  <2>1. in'[c]["l"] = HoldsL(c)'
    BY <1>2, <1>3, <1>5, <1>8 DEF BuffersHold, HoldsL
  <2>2. in'[c]["m"] = HoldsM(c)'
    BY <1>2, <1>3, <1>8 DEF HoldsM
  <2>3. c16'[c] = HoldsO(c)'
    BY <1>2, <1>3, <1>5, <1>8 DEF BuffersHold, HoldsO
  <2>4. Sends(c)'
    <3>1. out[c]["m"] = {} /\ out[c]["l"] = {}
      BY <1>2, <1>5 DEF BuffersHold, Sends
    <3>2. cpc'[c] \notin {"moveL", "end"} \/ wpc[c] = "root"
      BY <1>3, <1>8
    <3> QED BY <1>2, <3>1, <3>2 DEF Sends
  <2> QED BY <2>1, <2>2, <2>3, <2>4 DEF BuffersHold
<1>11. HandedAnnounced(c)'
  BY <1>2, <1>3, <1>5, <1>6 DEF HandedAnnounced
<1>12. Combined(c)'
  <2>1. \A r \in ActiveRounds(c) : r \notin ctodo'[c] => block[c][r]["o"] \subseteq acc[c]["o"]
    BY <1>2, <1>3, <1>5 DEF Combined
  <2>2. (\A p \in Parts : c \in acc'[c][p]) /\ cpc'[c] # "takeM"
    BY <1>2, <1>3, <1>5 DEF Combined, Parts
  <2> QED BY <1>2, <1>3, <1>6, <2>1, <2>2 DEF Combined
<1>13. c = 0 \/ (wpc[c] \notin {"barrier", "atomic", "end"} /\ wpc'[c] \notin {"barrier", "atomic", "end"})
  BY <1>2, <1>8
<1> QED BY <1>1, <1>2, <1>3, <1>4, <1>7, <1>9, <1>10, <1>11, <1>12, <1>13, KernelStep DEF Core

\* The core's own O goes into c_16 only when no child is left.
LEMMA MoveOStep ==
    ASSUME Inv, NEW c \in Running, MoveO(c)
    PROVE  Inv'
<1>1. PlanGiven /\ c \in Group
  BY PlanIsGiven
<1>2. /\ cpc[c] = "moveO" /\ c16[c] = {}
      /\ c16' = [c16 EXCEPT ![c] = acc[c]["o"]]
      /\ cpc' = [cpc EXCEPT ![c] = "moveM"]
      /\ cores' = cores /\ chunks' = chunks /\ wpc' = wpc /\ todo' = todo /\ ctodo' = ctodo /\ acc' = acc
      /\ in' = in /\ out' = out /\ block' = block /\ flight' = flight /\ sflight' = sflight /\ sem' = sem
      /\ output' = output
  BY DEF MoveO
<1>3. /\ TypeOK' /\ \A d \in Group \ {c} : cpc'[d] = cpc[d] /\ c16'[d] = c16[d]
      /\ cpc'[c] = "moveM" /\ c16'[c] = acc[c]["o"]
  <2>1. /\ acc[c] \in [Parts -> SUBSET Group] /\ acc[c]["l"] \in SUBSET Group
        /\ acc[c]["m"] \in SUBSET Group /\ acc[c]["o"] \in SUBSET Group
    BY <1>1 DEF Inv, TypeOK, Parts
  <2>2. cpc' \in [Group -> {"local", "takeL", "takeO", "takeM", "moveO", "moveM", "moveL", "end"}] /\ Group' = Group
    BY <1>1, <1>2 DEF Inv, TypeOK, Group
  <2>3. c16' \in [Group -> SUBSET Group]
    BY <1>1, <1>2, <2>1 DEF Inv, TypeOK
  <2>4. /\ \A d \in Group \ {c} : cpc'[d] = cpc[d] /\ c16'[d] = c16[d]
        /\ cpc'[c] = "moveM" /\ c16'[c] = acc[c]["o"]
    BY <1>1, <1>2, <2>1 DEF Inv, TypeOK, Parts
  <2> QED BY <1>2, <2>2, <2>3, <2>4 DEF Inv, TypeOK
<1>4. OnlyCore(c)
  BY <1>2, <1>3 DEF OnlyCore, PlanFixed
<1>5. InStep(c) /\ BuffersHold(c) /\ HandedAnnounced(c) /\ Combined(c)
  BY DEF Inv, Core
<1>6. ActiveRounds(c)' = ActiveRounds(c) /\ Running' = Running /\ Running \subseteq Group
  BY <1>1, <1>4, PlanStays, PlanOfRunning DEF OnlyCore
<1>7. CoversClosed'
  BY <1>2, <1>3, <1>6, CoversKept DEF PlanFixed
<1>8. /\ Level(c) /\ ctodo[c] = {} /\ todo[c] = {} /\ c # 0 /\ wpc[c] = "send"
  <2>1. Level(c)
    BY <1>2, <1>5 DEF InStep, Ahead
  <2>2. ctodo[c] = {}
    BY <1>2, <2>1 DEF Level
  <2> QED BY <1>2, <2>1, <2>2 DEF Level
<1>9. InStep(c)'
  <2>1. Level(c)'
    BY <1>2, <1>3, <1>8 DEF Level
  <2> QED BY <1>2, <1>3, <1>5, <1>6, <2>1 DEF InStep
<1>10. BuffersHold(c)'
  <2>1. in'[c]["l"] = HoldsL(c)'
    BY <1>2, <1>3, <1>5, <1>8 DEF BuffersHold, HoldsL
  <2>2. in'[c]["m"] = HoldsM(c)'
    BY <1>2, <1>3, <1>5, <1>8 DEF BuffersHold, HoldsM
  <2>3. c16'[c] = HoldsO(c)'
    BY <1>2, <1>3, <1>5, <1>8 DEF BuffersHold, HoldsO
  <2>4. Sends(c)'
    BY <1>2, <1>3, <1>5, <1>8 DEF BuffersHold, Sends
  <2> QED BY <2>1, <2>2, <2>3, <2>4 DEF BuffersHold
<1>11. HandedAnnounced(c)'
  BY <1>2, <1>3, <1>5, <1>6 DEF HandedAnnounced
<1>12. Combined(c)'
  BY <1>2, <1>3, <1>5, <1>6 DEF Combined
<1>13. c = 0 \/ (wpc[c] \notin {"barrier", "atomic", "end"} /\ wpc'[c] \notin {"barrier", "atomic", "end"})
  BY <1>2, <1>8
<1> QED BY <1>1, <1>2, <1>3, <1>4, <1>7, <1>9, <1>10, <1>11, <1>12, <1>13, KernelStep DEF Core

\* Its M follows,
LEMMA MoveMStep ==
    ASSUME Inv, NEW c \in Running, Move(c, "m", "moveM", "moveL")
    PROVE  Inv'
<1>1. PlanGiven /\ c \in Group
  BY PlanIsGiven
<1>2. /\ cpc[c] = "moveM" /\ out[c]["m"] = {}
      /\ out' = [out EXCEPT ![c]["m"] = acc[c]["m"]]
      /\ cpc' = [cpc EXCEPT ![c] = "moveL"]
      /\ cores' = cores /\ chunks' = chunks /\ wpc' = wpc /\ todo' = todo /\ ctodo' = ctodo /\ acc' = acc
      /\ in' = in /\ c16' = c16 /\ block' = block /\ flight' = flight /\ sflight' = sflight /\ sem' = sem
      /\ output' = output
  BY DEF Move
<1>3. /\ TypeOK' /\ \A d \in Group \ {c} : cpc'[d] = cpc[d] /\ out'[d] = out[d]
      /\ cpc'[c] = "moveL" /\ out'[c]["m"] = acc[c]["m"] /\ out'[c]["l"] = out[c]["l"]
  <2>1. /\ acc[c] \in [Parts -> SUBSET Group] /\ acc[c]["l"] \in SUBSET Group
        /\ acc[c]["m"] \in SUBSET Group /\ acc[c]["o"] \in SUBSET Group
    BY <1>1 DEF Inv, TypeOK, Parts
  <2>2. cpc' \in [Group -> {"local", "takeL", "takeO", "takeM", "moveO", "moveM", "moveL", "end"}] /\ Group' = Group
    BY <1>1, <1>2 DEF Inv, TypeOK, Group
  <2>3. out' \in [Group -> [Parts -> SUBSET Group]]
    BY <1>1, <1>2, <2>1 DEF Inv, TypeOK
  <2>4. /\ \A d \in Group \ {c} : cpc'[d] = cpc[d] /\ out'[d] = out[d]
        /\ cpc'[c] = "moveL" /\ out'[c]["m"] = acc[c]["m"] /\ out'[c]["l"] = out[c]["l"]
    BY <1>1, <1>2, <2>1 DEF Inv, TypeOK, Parts
  <2> QED BY <1>2, <2>2, <2>3, <2>4 DEF Inv, TypeOK
<1>4. OnlyCore(c)
  BY <1>2, <1>3 DEF OnlyCore, PlanFixed
<1>5. InStep(c) /\ BuffersHold(c) /\ HandedAnnounced(c) /\ Combined(c)
  BY DEF Inv, Core
<1>6. ActiveRounds(c)' = ActiveRounds(c) /\ Running' = Running /\ Running \subseteq Group
  BY <1>1, <1>4, PlanStays, PlanOfRunning DEF OnlyCore
<1>7. CoversClosed'
  BY <1>2, <1>3, <1>6, CoversKept DEF PlanFixed
<1>8. /\ Level(c) /\ ctodo[c] = {} /\ todo[c] = {} /\ c # 0 /\ wpc[c] = "send"
  <2>1. Level(c)
    BY <1>2, <1>5 DEF InStep, Ahead
  <2>2. ctodo[c] = {}
    BY <1>2, <2>1 DEF Level
  <2> QED BY <1>2, <2>1, <2>2 DEF Level
<1>9. InStep(c)'
  <2>1. Level(c)'
    BY <1>2, <1>3, <1>8 DEF Level
  <2> QED BY <1>2, <1>3, <1>5, <1>6, <2>1 DEF InStep
<1>10. BuffersHold(c)'
  <2>1. in'[c]["l"] = HoldsL(c)'
    BY <1>2, <1>3, <1>5, <1>8 DEF BuffersHold, HoldsL
  <2>2. in'[c]["m"] = HoldsM(c)'
    BY <1>2, <1>3, <1>5, <1>8 DEF BuffersHold, HoldsM
  <2>3. c16'[c] = HoldsO(c)'
    BY <1>2, <1>3, <1>5, <1>8 DEF BuffersHold, HoldsO
  <2>4. Sends(c)'
    BY <1>2, <1>3, <1>5, <1>8 DEF BuffersHold, Sends
  <2> QED BY <2>1, <2>2, <2>3, <2>4 DEF BuffersHold
<1>11. HandedAnnounced(c)'
  BY <1>2, <1>3, <1>5, <1>6 DEF HandedAnnounced
<1>12. Combined(c)'
  BY <1>2, <1>3, <1>5, <1>6 DEF Combined
<1>13. c = 0 \/ (wpc[c] \notin {"barrier", "atomic", "end"} /\ wpc'[c] \notin {"barrier", "atomic", "end"})
  BY <1>2, <1>8
<1> QED BY <1>1, <1>2, <1>3, <1>4, <1>7, <1>9, <1>10, <1>11, <1>12, <1>13, KernelStep DEF Core

\* and its L last: the sender, which waits for all three, starts no earlier.
LEMMA MoveLStep ==
    ASSUME Inv, NEW c \in Running, Move(c, "l", "moveL", "end")
    PROVE  Inv'
<1>1. PlanGiven /\ c \in Group
  BY PlanIsGiven
<1>2. /\ cpc[c] = "moveL" /\ out[c]["l"] = {}
      /\ out' = [out EXCEPT ![c]["l"] = acc[c]["l"]]
      /\ cpc' = [cpc EXCEPT ![c] = "end"]
      /\ cores' = cores /\ chunks' = chunks /\ wpc' = wpc /\ todo' = todo /\ ctodo' = ctodo /\ acc' = acc
      /\ in' = in /\ c16' = c16 /\ block' = block /\ flight' = flight /\ sflight' = sflight /\ sem' = sem
      /\ output' = output
  BY DEF Move
<1>3. /\ TypeOK' /\ \A d \in Group \ {c} : cpc'[d] = cpc[d] /\ out'[d] = out[d]
      /\ cpc'[c] = "end" /\ out'[c]["l"] = acc[c]["l"] /\ out'[c]["m"] = out[c]["m"]
  <2>1. /\ acc[c] \in [Parts -> SUBSET Group] /\ acc[c]["l"] \in SUBSET Group
        /\ acc[c]["m"] \in SUBSET Group /\ acc[c]["o"] \in SUBSET Group
    BY <1>1 DEF Inv, TypeOK, Parts
  <2>2. cpc' \in [Group -> {"local", "takeL", "takeO", "takeM", "moveO", "moveM", "moveL", "end"}] /\ Group' = Group
    BY <1>1, <1>2 DEF Inv, TypeOK, Group
  <2>3. out' \in [Group -> [Parts -> SUBSET Group]]
    BY <1>1, <1>2, <2>1 DEF Inv, TypeOK
  <2>4. /\ \A d \in Group \ {c} : cpc'[d] = cpc[d] /\ out'[d] = out[d]
        /\ cpc'[c] = "end" /\ out'[c]["l"] = acc[c]["l"] /\ out'[c]["m"] = out[c]["m"]
    BY <1>1, <1>2, <2>1 DEF Inv, TypeOK, Parts
  <2> QED BY <1>2, <2>2, <2>3, <2>4 DEF Inv, TypeOK
<1>4. OnlyCore(c)
  BY <1>2, <1>3 DEF OnlyCore, PlanFixed
<1>5. InStep(c) /\ BuffersHold(c) /\ HandedAnnounced(c) /\ Combined(c)
  BY DEF Inv, Core
<1>6. ActiveRounds(c)' = ActiveRounds(c) /\ Running' = Running /\ Running \subseteq Group
  BY <1>1, <1>4, PlanStays, PlanOfRunning DEF OnlyCore
<1>7. CoversClosed'
  BY <1>2, <1>3, <1>6, CoversKept DEF PlanFixed
<1>8. /\ Level(c) /\ ctodo[c] = {} /\ todo[c] = {} /\ c # 0 /\ wpc[c] = "send"
  <2>1. Level(c)
    BY <1>2, <1>5 DEF InStep, Ahead
  <2>2. ctodo[c] = {}
    BY <1>2, <2>1 DEF Level
  <2> QED BY <1>2, <2>1, <2>2 DEF Level
<1>9. InStep(c)'
  <2>1. Level(c)'
    BY <1>2, <1>3, <1>8 DEF Level
  <2> QED BY <1>2, <1>3, <1>5, <1>6, <2>1 DEF InStep
<1>10. BuffersHold(c)'
  <2>1. in'[c]["l"] = HoldsL(c)'
    BY <1>2, <1>3, <1>5, <1>8 DEF BuffersHold, HoldsL
  <2>2. in'[c]["m"] = HoldsM(c)'
    BY <1>2, <1>3, <1>5, <1>8 DEF BuffersHold, HoldsM
  <2>3. c16'[c] = HoldsO(c)'
    BY <1>2, <1>3, <1>5, <1>8 DEF BuffersHold, HoldsO
  <2>4. Sends(c)'
    BY <1>2, <1>3, <1>5, <1>8 DEF BuffersHold, Sends
  <2> QED BY <2>1, <2>2, <2>3, <2>4 DEF BuffersHold
<1>11. HandedAnnounced(c)'
  BY <1>2, <1>3, <1>5, <1>6 DEF HandedAnnounced
<1>12. Combined(c)'
  BY <1>2, <1>3, <1>5, <1>6 DEF Combined
<1>13. c = 0 \/ (wpc[c] \notin {"barrier", "atomic", "end"} /\ wpc'[c] \notin {"barrier", "atomic", "end"})
  BY <1>2, <1>8
<1> QED BY <1>1, <1>2, <1>3, <1>4, <1>7, <1>9, <1>10, <1>11, <1>12, <1>13, KernelStep DEF Core

-----------------------------------------------------------------------------
(* The invariant *)

\* At the start of a step every kernel is before its first buffer.
LEMMA InitHolds ==
    ASSUME Init
    PROVE  Inv
<1>1. /\ cores \in 1..MaxCores /\ chunks \in 1..MaxChunks
      /\ wpc = [c \in Group |-> Start(c)]
      /\ todo = [c \in Group |-> IF Runs(c) THEN ActiveRounds(c) ELSE {}]
      /\ cpc = [c \in Group |-> IF Runs(c) THEN "local" ELSE "end"]
      /\ ctodo = todo
      /\ acc = [c \in Group |-> Empty] /\ in = [c \in Group |-> Empty] /\ out = [c \in Group |-> Empty]
      /\ c16 = [c \in Group |-> {}]
      /\ block = [c \in Group |-> [r \in Rounds |-> Empty]]
      /\ flight = {} /\ sflight = {} /\ output = {}
      /\ sem = [c \in Group |-> [r \in Rounds |-> 0]]
  BY DEF Init
<1>2. \A c \in Group : Start(c) = IF ~Runs(c) THEN "end" ELSE IF ActiveRounds(c) # {} THEN "poll"
                                 ELSE IF c = 0 THEN "root" ELSE "send"
  BY DEF Start
<1>3. Empty \in [Parts -> SUBSET Group] /\ \A p \in Parts : Empty[p] = {}
  BY DEF Empty
<1>4. \A c \in Group : ActiveRounds(c) \in SUBSET Rounds
  BY DEF ActiveRounds
<1>5. TypeOK
  <2>1. wpc \in [Group -> {"poll", "giveL", "giveM", "giveO", "send", "barrier", "atomic", "root", "end"}]
    <3>1. \A c \in Group : Start(c) \in {"poll", "giveL", "giveM", "giveO", "send", "barrier", "atomic", "root", "end"}
      BY <1>2
    <3> QED BY <1>1, <3>1
  <2>2. cpc \in [Group -> {"local", "takeL", "takeO", "takeM", "moveO", "moveM", "moveL", "end"}]
    BY <1>1
  <2>3. todo \in [Group -> SUBSET Rounds] /\ ctodo \in [Group -> SUBSET Rounds]
    BY <1>1, <1>4
  <2>4. /\ acc \in [Group -> [Parts -> SUBSET Group]] /\ in \in [Group -> [Parts -> SUBSET Group]]
        /\ out \in [Group -> [Parts -> SUBSET Group]] /\ c16 \in [Group -> SUBSET Group]
    BY <1>1, <1>3
  <2>5. sem \in [Group -> [Rounds -> 0..1]]
    BY <1>1
  <2> QED BY <1>1, <2>1, <2>2, <2>3, <2>4, <2>5 DEF TypeOK
<1>6. Landings
  BY <1>1, <1>3 DEF Landings
<1>7. \A c \in Running : /\ c \in Group /\ Runs(c) /\ cpc[c] = "local" /\ todo[c] = ActiveRounds(c) /\ ctodo[c] = ActiveRounds(c)
                         /\ wpc[c] = IF ActiveRounds(c) # {} THEN "poll" ELSE IF c = 0 THEN "root" ELSE "send"
                         /\ \A p \in Parts : acc[c][p] = {} /\ in[c][p] = {} /\ out[c][p] = {}
                         /\ c16[c] = {}
  BY <1>1, <1>2, <1>3 DEF Running
<1>8. OthersIdle
  BY <1>1, <1>2 DEF OthersIdle, Running
<1>9. ASSUME NEW c \in Running PROVE Core(c)
  <2>1. InStep(c)
    BY <1>7 DEF InStep, Level
  <2>2. BuffersHold(c)
    <3>1. in[c]["l"] = {} /\ in[c]["m"] = {} /\ c16[c] = {} /\ out[c]["l"] = {} /\ out[c]["m"] = {}
      BY <1>7 DEF Parts
    <3>2. wpc[c] \in {"poll", "root", "send"} /\ cpc[c] = "local" /\ todo[c] = ctodo[c]
      BY <1>7
    <3> QED BY <3>1, <3>2 DEF BuffersHold, HoldsL, HoldsM, HoldsO, Sends
  <2>3. HandedAnnounced(c)
    BY <1>7 DEF HandedAnnounced
  <2>4. Combined(c)
    BY <1>7 DEF Combined
  <2> QED BY <2>1, <2>2, <2>3, <2>4 DEF Core
<1>10. InFlight
  BY <1>1 DEF InFlight
<1>11. SentLands
  BY <1>7 DEF SentLands
<1>12. AnnouncedSent
  BY <1>1 DEF AnnouncedSent
<1>13. CoversClosed
  BY <1>7 DEF CoversClosed, Parts
<1>14. OutputIsRoots
  BY <1>1 DEF OutputIsRoots
<1> QED BY <1>5, <1>6, <1>8, <1>9, <1>10, <1>11, <1>12, <1>13, <1>14 DEF Inv

\* A step of something else changes nothing here.
LEMMA StutterHolds ==
    ASSUME Inv, UNCHANGED vars
    PROVE  Inv'
<1>1. /\ cores' = cores /\ chunks' = chunks /\ wpc' = wpc /\ todo' = todo /\ cpc' = cpc /\ ctodo' = ctodo /\ acc' = acc
      /\ in' = in /\ c16' = c16 /\ out' = out /\ block' = block /\ flight' = flight /\ sflight' = sflight
      /\ sem' = sem /\ output' = output
  BY DEF vars
<1>2. PlanFixed /\ PlanGiven /\ Running' = Running /\ Group' = Group
  BY <1>1, PlanIsGiven, PlanStays DEF PlanFixed
<1>3. \A d \in Running' : Core(d)'
  BY <1>1, <1>2, CoreKept
<1>4. TypeOK' /\ Landings' /\ OthersIdle'
  BY <1>1, <1>2 DEF Inv, TypeOK, Landings, OthersIdle
<1>5. (\A d : Parent(d)' = Parent(d) /\ SendAt(d)' = SendAt(d)) /\ \A d, r : Child(d, r)' = Child(d, r)
  BY <1>2, PlanStays
<1>6. InFlight' /\ SentLands' /\ AnnouncedSent'
  BY <1>1, <1>2, <1>5 DEF Inv, InFlight, SentLands, AnnouncedSent
<1>7. CoversClosed' /\ OutputIsRoots'
  <2>1. CoversClosed'
    BY <1>1, <1>2, CoversKept
  <2> QED BY <1>1, <1>2, <2>1 DEF Inv, OutputIsRoots
<1> QED BY <1>3, <1>4, <1>6, <1>7 DEF Inv

\* Every step is one of a core that runs, of the root's writer or of the network.
LEMMA StepHolds ==
    ASSUME Inv, [Next]_vars
    PROVE  Inv'
<1>1. ASSUME NEW c \in Group, Writer(c) \/ Compute(c) PROVE Inv'
  <2>1. c \in Running
    <3>1. wpc[c] # "end" \/ cpc[c] # "end"
      BY <1>1 DEF Writer, Compute, Poll, Give, GiveO, Send, Announce, SenderReturns, LocalAttention, TakeL, TakeO,
                  TakeM, MoveO, Move
    <3> QED BY <3>1 DEF Inv, OthersIdle
  <2>2. CASE Writer(c)
    BY <2>1, <2>2, PollStep, GiveOStep, SendStep, AnnounceStep, SenderReturnsStep, GiveLStep, GiveMStep DEF Writer
  <2>3. CASE Compute(c)
    BY <2>1, <2>3, LocalAttentionStep, TakeLStep, TakeOStep, TakeMStep, MoveOStep, MoveMStep, MoveLStep DEF Compute
  <2> QED BY <1>1, <2>2, <2>3
<1>2. CASE WriteOutput
  BY <1>2, WriteOutputStep
<1>3. CASE Network
  BY <1>3, LandPartStep, LandIncrementStep DEF Network
<1>4. CASE UNCHANGED vars
  BY <1>4, StutterHolds
<1> QED BY <1>1, <1>2, <1>3, <1>4 DEF Next

\* The inductive invariant: writer and compute kernel of every core are in step, every buffer
\* between them holds what its reader will take it for, and whatever a core has been told of is final.
THEOREM Invariant == Spec => []Inv
<1>1. Init => Inv
  BY InitHolds
<1>2. Inv /\ [Next]_vars => Inv'
  BY StepHolds
<1> QED BY <1>1, <1>2, PTL DEF Spec

\* The places and buffers of the kernels, and no nibble of the semaphore is ever announced twice.
THEOREM TypeCorrect == Spec => []TypeOK
<1>1. Inv => TypeOK
  BY DEF Inv
<1> QED BY <1>1, Invariant, PTL

-----------------------------------------------------------------------------
(* What follows *)

\* On every step the rules that the cores apply on their own agree: the shares cover the cache,
\* and those that send are those that are waited for.
THEOREM PlansAgree == Spec => []PlanAgrees
<1>1. Inv => PlanAgrees
  <2> SUFFICES ASSUME Inv PROVE PlanAgrees
    OBVIOUS
  <2>1. PlanGiven /\ cores \in Nat \ {0} /\ chunks \in Nat \ {0}
    BY PlanIsGiven DEF PlanGiven
  <2>2. SharesPartition
    BY <2>1, SharesCover
  <2>3. SendersMatchWaiters
    BY <2>1, TreeAgrees
  <2> QED BY <2>2, <2>3 DEF PlanAgrees
<1> QED BY <1>1, Invariant, PTL

\* When a parent is told of a child, the L, M and O in its block are all three the child's combined result.
THEOREM SentCombined == Spec => []SentIsCombined
<1>1. Inv => SentIsCombined
  <2> SUFFICES ASSUME Inv PROVE SentIsCombined
    OBVIOUS
  <2>1. PlanGiven
    BY PlanIsGiven
  <2> QED BY <2>1, FullBlocks DEF SentIsCombined
<1> QED BY <1>1, Invariant, PTL

\* The output covers every core that has chunks: a core that has a parent is covered where its parent is.
THEOREM OutputCovers == Spec => []OutputCoversAll
<1>1. Inv => OutputCoversAll
  <2> SUFFICES ASSUME Inv, output # {} PROVE output = {c \in Group : HasLocalData(c)}
    BY DEF OutputCoversAll
  <2>1. /\ PlanGiven /\ Running \subseteq Group /\ Group \subseteq Nat
        /\ 0 \in Running /\ cpc[0] = "end" /\ output = acc[0]["o"]
    BY PlanIsGiven DEF Inv, OutputIsRoots
  <2>2. \A c \in Running : cpc[c] = "end" =>
          c \in acc[c]["o"] /\ \A r \in ActiveRounds(c) : block[c][r]["o"] \subseteq acc[c]["o"]
    <3>1. ASSUME NEW c \in Running, cpc[c] = "end" PROVE ctodo[c] = {} /\ Combined(c)
      BY <3>1 DEF Inv, Core, InStep, Level, Ahead
    <3> QED BY <3>1 DEF Combined, Parts
  <2>3. \A c \in Group : Launched /\ HasLocalData(c) <=> c \in Running
    BY <2>1, PlanOfRunning
  <2>4. \A c \in output : c \in Running
    BY <2>1 DEF Inv, CoversClosed
  <2>5. ASSUME NEW c \in Running, c # 0, Parent(c) \in output PROVE c \in output
    <3> DEFINE q == Parent(c)
               s == SendAt(c)
    <3>1. q \in Running /\ s \in ActiveRounds(q) /\ s \in Rounds /\ Child(q, s) = c
      <4>1. q \in Running /\ s \in ActiveRounds(q) /\ Child(q, s) = c
        BY <2>1, <2>5, PlanOfRunning
      <4> QED BY <4>1 DEF ActiveRounds
    <3> HIDE DEF q, s
    <3>2. cpc[q] = "end" /\ acc[q]["o"] \subseteq output
      BY <2>1, <2>5 DEF Inv, CoversClosed, q
    <3>3. sem[q][s] >= 1 /\ block[q][s]["o"] \subseteq output
      <4>1. ctodo[q] = {}
        BY <3>1, <3>2 DEF Inv, Core, InStep, Level, Ahead
      <4>2. sem[q][s] >= 1
        BY <2>1, <3>1, <4>1, HandedOver
      <4> QED BY <2>2, <3>1, <3>2, <4>2
    <3> QED BY <2>1, <3>1, <3>3, FullBlocks DEF Parts
  <2>6. Running \subseteq output
    <3> SUFFICES ASSUME Running \ output # {} PROVE FALSE
      OBVIOUS
    <3>1. PICK c \in Running \ output : \A d \in Running \ output : c <= d
      <4>1. Running \ output \in SUBSET Nat
        BY <2>1
      <4> QED BY <4>1, LeastElement
    <3>2. c # 0
      BY <2>1, <2>2, <3>1
    <3>3. Parent(c) \in Running /\ Parent(c) \in 0..(c - 1) /\ c \in Nat
      BY <2>1, <3>1, <3>2, PlanOfRunning, ParentAwaits
    <3>4. Parent(c) \in output
      BY <3>1, <3>3
    <3> QED BY <2>5, <3>1, <3>2, <3>4
  <2>7. Launched
    BY <2>1, PlanOfRunning
  <2> QED BY <2>1, <2>3, <2>4, <2>6, <2>7
<1> QED BY <1>1, Invariant, PTL
-----------------------------------------------------------------------------
(* Nobody waits for ever *)

\* The guards of the actions: what lets a writer, a compute kernel or the network go on.
WriterCanGo(c) ==
    \/ wpc[c] = "poll" /\ sem[c][Min(todo[c])] >= 1
    \/ wpc[c] = "giveL" /\ in[c]["l"] = {}
    \/ wpc[c] = "giveM" /\ in[c]["m"] = {}
    \/ wpc[c] = "giveO" /\ c16[c] = {}
    \/ wpc[c] = "send" /\ c16[c] # {} /\ out[c]["m"] # {} /\ out[c]["l"] # {}
    \/ wpc[c] = "barrier" /\ \A f \in flight : f[1] # c
    \/ wpc[c] = "atomic" /\ c \notin sflight
    \/ c = 0 /\ wpc[c] = "root" /\ cpc[c] = "end"
ComputeCanGo(c) ==
    \/ cpc[c] \in {"local", "takeM"}
    \/ cpc[c] = "takeL" /\ in[c]["l"] # {}
    \/ cpc[c] = "takeO" /\ in[c]["m"] # {} /\ c16[c] # {}
    \/ cpc[c] = "moveO" /\ c16[c] = {}
    \/ cpc[c] = "moveM" /\ out[c]["m"] = {}
    \/ cpc[c] = "moveL" /\ out[c]["l"] = {}
NetworkCanGo == flight # {} \/ sflight # {}

SomebodyCanGo == NetworkCanGo \/ \E c \in Group : WriterCanGo(c) \/ ComputeCanGo(c)
AllEnded == (Launched => output # {}) /\ \A c \in Group : wpc[c] = "end" /\ cpc[c] = "end"
NobodyStuck == AllEnded \/ SomebodyCanGo

\* A core that has sent has told its parent, or its increment is on the way.
ParentTold ==
    \A c \in Running \ {0} : wpc[c] \in {"atomic", "end"} => c \in sflight \/ sem[Parent(c)][SendAt(c)] >= 1

\* The root ends with the output.
RootWrote == 0 \in Running /\ wpc[0] = "end" => output # {}

\* A step that ends no writer and takes back no announcement keeps both.
LEMMA EndsKept ==
    ASSUME Inv, PlanFixed, ParentTold, RootWrote, NEW c \in Group,
           \A d \in Group : d # c => wpc'[d] = wpc[d],
           c # 0 /\ wpc'[c] \in {"atomic", "end"} => wpc[c] = "atomic" \/ c \in sflight',
           c = 0 /\ wpc'[c] = "end" => wpc[c] = "end" \/ output' # {},
           sflight \subseteq sflight', sem' = sem, output' = output \/ output' # {}
    PROVE  ParentTold' /\ RootWrote'
<1>1. /\ Running' = Running /\ Running \subseteq Group
      /\ \A d : Parent(d)' = Parent(d) /\ SendAt(d)' = SendAt(d)
  BY PlanStays, PlanIsGiven
<1>2. ParentTold'
  <2> SUFFICES ASSUME NEW d \in Running \ {0}, wpc'[d] \in {"atomic", "end"}
               PROVE  d \in sflight' \/ sem[Parent(d)][SendAt(d)] >= 1
    BY <1>1 DEF ParentTold
  <2>1. d \in Group
    BY <1>1
  <2>2. wpc[d] \in {"atomic", "end"} \/ d \in sflight'
    BY <2>1
  <2> QED BY <2>2 DEF ParentTold
<1>3. RootWrote'
  BY <1>1 DEF RootWrote
<1> QED BY <1>2, <1>3

LEMMA EndsStep ==
    ASSUME Inv, ParentTold, RootWrote, [Next]_vars
    PROVE  ParentTold' /\ RootWrote'
<1>1. /\ PlanGiven /\ Running \subseteq Group /\ Group \subseteq Nat
      /\ wpc \in [Group -> {"poll", "giveL", "giveM", "giveO", "send", "barrier", "atomic", "root", "end"}]
  BY PlanIsGiven DEF Inv, TypeOK
<1>2. PlanFixed
  <2>1. ASSUME NEW c \in Group, Writer(c) PROVE PlanFixed
    BY <2>1 DEF Writer, Poll, Give, GiveO, Send, Announce, SenderReturns, PlanFixed
  <2>2. ASSUME NEW c \in Group, Compute(c) PROVE PlanFixed
    BY <2>2 DEF Compute, LocalAttention, TakeL, TakeO, TakeM, MoveO, Move, PlanFixed
  <2>3. WriteOutput \/ Network \/ UNCHANGED vars => PlanFixed
    BY DEF WriteOutput, Network, LandPart, LandIncrement, vars, PlanFixed
  <2> QED BY <2>1, <2>2, <2>3 DEF Next
<1>3. /\ Running' = Running /\ \A d : Parent(d)' = Parent(d) /\ SendAt(d)' = SendAt(d)
  BY <1>2, PlanStays
<1>4. ASSUME wpc' = wpc, sflight' = sflight, sem' = sem, output' = output
      PROVE  ParentTold' /\ RootWrote'
  BY <1>3, <1>4 DEF ParentTold, RootWrote
<1>5. ASSUME NEW c \in Group, Writer(c) PROVE ParentTold' /\ RootWrote'
  <2>1. CASE Poll(c) \/ Give(c, "l", "giveL", "giveM") \/ Give(c, "m", "giveM", "giveO") \/ GiveO(c) \/ Send(c)
    <3>1. /\ \E to \in {"giveL", "giveM", "giveO", "poll", "root", "send", "barrier"} :
               wpc' = [wpc EXCEPT ![c] = to]
          /\ sflight' = sflight /\ sem' = sem /\ output' = output
      BY <2>1 DEF Poll, Give, GiveO, Send
    <3>2. wpc'[c] \notin {"atomic", "end"} /\ \A d \in Group : d # c => wpc'[d] = wpc[d]
      BY <1>1, <3>1
    <3> QED BY <1>2, <3>1, <3>2, EndsKept
  <2>2. CASE Announce(c)
    <3>1. /\ sflight' = sflight \union {c} /\ wpc' = [wpc EXCEPT ![c] = "atomic"]
          /\ sem' = sem /\ output' = output
      BY <2>2 DEF Announce
    <3>2. wpc'[c] = "atomic" /\ \A d \in Group : d # c => wpc'[d] = wpc[d]
      BY <1>1, <3>1
    <3> QED BY <1>2, <3>1, <3>2, EndsKept
  <2>3. CASE SenderReturns(c)
    <3>1. /\ wpc[c] = "atomic" /\ wpc' = [wpc EXCEPT ![c] = "end"]
          /\ sflight' = sflight /\ sem' = sem /\ output' = output
      BY <2>3 DEF SenderReturns
    <3>2. wpc'[c] = "end" /\ \A d \in Group : d # c => wpc'[d] = wpc[d]
      BY <1>1, <3>1
    <3>3. c # 0
      <4> SUFFICES ASSUME c = 0 PROVE FALSE
        OBVIOUS
      <4>1. c \in Running
        BY <3>1 DEF Inv, OthersIdle
      <4>2. Level(c) \/ Ahead(c)
        BY <4>1 DEF Inv, Core, InStep
      <4> QED BY <3>1, <4>2 DEF Level, Ahead
    <3> QED BY <1>2, <3>1, <3>2, <3>3, EndsKept
  <2> QED BY <1>5, <2>1, <2>2, <2>3 DEF Writer
<1>6. ASSUME NEW c \in Group, Compute(c) PROVE ParentTold' /\ RootWrote'
  <2>1. wpc' = wpc /\ sflight' = sflight /\ sem' = sem /\ output' = output
    BY <1>6 DEF Compute, LocalAttention, TakeL, TakeO, TakeM, MoveO, Move
  <2> QED BY <1>4, <2>1
<1>7. ASSUME WriteOutput PROVE ParentTold' /\ RootWrote'
  <2>1. /\ wpc[0] = "root" /\ cpc[0] = "end" /\ output' = acc[0]["o"] /\ wpc' = [wpc EXCEPT ![0] = "end"]
        /\ sflight' = sflight /\ sem' = sem
    BY <1>7 DEF WriteOutput
  <2>2. 0 \in Group
    BY <1>1 DEF PlanGiven, Group
  <2>3. 0 \in Running
    BY <2>1, <2>2 DEF Inv, OthersIdle
  <2>4. 0 \in acc[0]["o"]
    BY <2>1, <2>3 DEF Inv, Core, Combined, Parts
  <2>5. wpc'[0] = "end" /\ \A d \in Group : d # 0 => wpc'[d] = wpc[d]
    BY <1>1, <2>1, <2>2
  <2> QED BY <1>2, <2>1, <2>2, <2>4, <2>5, EndsKept
<1>8. ASSUME NEW f \in flight, LandPart(f) PROVE ParentTold' /\ RootWrote'
  <2>1. wpc' = wpc /\ sflight' = sflight /\ sem' = sem /\ output' = output
    BY <1>8 DEF LandPart
  <2> QED BY <1>4, <2>1
<1>9. ASSUME NEW c \in sflight, LandIncrement(c) PROVE ParentTold' /\ RootWrote'
  <2>1. PICK q, s : q = Parent(c) /\ s = SendAt(c)
    OBVIOUS
  <2>2. /\ sflight' = sflight \ {c} /\ sem' = [sem EXCEPT ![q][s] = sem[q][s] + 1]
        /\ wpc' = wpc /\ output' = output
    BY <1>9, <2>1 DEF LandIncrement
  <2>3. c \in Running \ {0} /\ sem \in [Group -> [Rounds -> 0..1]]
    BY <1>9 DEF Inv, InFlight, TypeOK
  <2>4. q \in Group /\ s \in Rounds
    BY <1>1, <2>1, <2>3, PlanOfRunning
  <2>5. /\ sem'[q][s] >= 1
        /\ \A d \in Group, r \in Rounds : sem[d][r] >= 1 => sem'[d][r] >= 1
    <3>1. sem[q] \in [Rounds -> 0..1] /\ sem[q][s] \in 0..1
      BY <2>3, <2>4
    <3>2. sem'[q] = [sem[q] EXCEPT ![s] = sem[q][s] + 1] /\ \A d \in Group : d # q => sem'[d] = sem[d]
      BY <2>2, <2>3, <2>4
    <3>3. sem'[q][s] = sem[q][s] + 1 /\ \A r \in Rounds : r # s => sem'[q][r] = sem[q][r]
      BY <2>4, <3>1, <3>2
    <3> QED BY <3>1, <3>2, <3>3
  <2>6. ParentTold'
    <3> SUFFICES ASSUME NEW d \in Running \ {0}, wpc[d] \in {"atomic", "end"}
                 PROVE  d \in sflight' \/ sem'[Parent(d)][SendAt(d)] >= 1
      BY <1>3, <2>2 DEF ParentTold
    <3>1. CASE d = c
      BY <2>1, <2>5, <3>1
    <3>2. CASE d # c
      <4>1. Parent(d) \in Group /\ SendAt(d) \in Rounds
        BY <1>1, PlanOfRunning
      <4>2. d \in sflight \/ sem[Parent(d)][SendAt(d)] >= 1
        BY DEF ParentTold
      <4> QED BY <2>2, <2>5, <3>2, <4>1, <4>2
    <3> QED BY <3>1, <3>2
  <2> QED BY <1>3, <2>2, <2>6 DEF RootWrote
<1>10. CASE UNCHANGED vars
  BY <1>4, <1>10 DEF vars
<1> QED BY <1>5, <1>6, <1>7, <1>8, <1>9, <1>10 DEF Next, Network

\* The two kernels of a core never keep each other waiting: where nobody can go on, both have
\* ended, or both wait for a child that has not been announced.
LEMMA WaitsForChild ==
    ASSUME Inv, ~SomebodyCanGo, NEW c \in Running
    PROVE  \/ wpc[c] = "end" /\ cpc[c] = "end"
           \/ wpc[c] = "poll" /\ ctodo[c] # {} /\ todo[c] = ctodo[c] /\ ~(sem[c][Min(ctodo[c])] >= 1)
<1>1. PlanGiven /\ c \in Group
  BY PlanIsGiven
<1>2. ~WriterCanGo(c) /\ ~ComputeCanGo(c) /\ flight = {} /\ sflight = {}
  BY <1>1 DEF SomebodyCanGo, NetworkCanGo
<1>3. InStep(c) /\ BuffersHold(c) /\ Combined(c)
  BY DEF Inv, Core
<1>4. wpc[c] \notin {"barrier", "atomic"} /\ cpc[c] \notin {"local", "takeM"}
  BY <1>2 DEF WriterCanGo, ComputeCanGo
<1>5. CASE Level(c) /\ ctodo[c] = {}
  <2>1. /\ todo[c] = ctodo[c]
        /\ c = 0 => wpc[c] \in {"root", "end"} /\ cpc[c] = "end"
        /\ c # 0 => wpc[c] \in {"send", "end"} /\ cpc[c] \in {"moveO", "moveM", "moveL", "end"}
        /\ wpc[c] = "end" => cpc[c] = "end"
    BY <1>4, <1>5 DEF Level
  <2>2. wpc[c] # "root"
    BY <1>2, <2>1 DEF WriterCanGo
  <2>3. wpc[c] # "send"
    <3> SUFFICES ASSUME wpc[c] = "send" PROVE FALSE
      OBVIOUS
    <3>1. cpc[c] # "moveO"
      <4>1. cpc[c] = "moveO" => c16[c] = {}
        BY <1>3, <2>1 DEF BuffersHold, HoldsO
      <4> QED BY <1>2, <4>1 DEF ComputeCanGo
    <3>2. cpc[c] # "moveM" /\ cpc[c] # "moveL"
      BY <1>2, <1>3 DEF BuffersHold, Sends, ComputeCanGo
    <3>3. cpc[c] = "end"
      BY <2>1, <3>1, <3>2
    <3>4. c16[c] = acc[c]["o"] /\ out[c]["m"] = acc[c]["m"] /\ out[c]["l"] = acc[c]["l"]
      BY <1>3, <2>1, <3>3 DEF BuffersHold, HoldsO, Sends
    <3>5. acc[c]["o"] # {} /\ acc[c]["m"] # {} /\ acc[c]["l"] # {}
      BY <1>3, <3>3 DEF Combined, Parts
    <3> QED BY <1>2, <3>4, <3>5 DEF WriterCanGo
  <2> QED BY <2>1, <2>2, <2>3
<1>6. CASE Level(c) /\ ctodo[c] # {}
  <2>1. /\ todo[c] = ctodo[c] /\ wpc[c] \in {"poll", "giveL", "giveM", "giveO"}
        /\ cpc[c] = "takeL" \/ (cpc[c] = "takeO" /\ wpc[c] \in {"giveM", "giveO"})
    BY <1>4, <1>6 DEF Level
  <2>2. in[c]["l"] = HoldsL(c) /\ in[c]["m"] = HoldsM(c) /\ c16[c] = HoldsO(c)
    BY <1>3 DEF BuffersHold
  <2>3. wpc[c] # "giveL"
    <3>1. wpc[c] = "giveL" => HoldsL(c) = {}
      BY <2>1 DEF HoldsL
    <3> QED BY <1>2, <2>2, <3>1 DEF WriterCanGo
  <2>4. wpc[c] # "giveM"
    <3>1. wpc[c] = "giveM" => HoldsM(c) = {}
      BY <2>1 DEF HoldsM
    <3> QED BY <1>2, <2>2, <3>1 DEF WriterCanGo
  <2>5. wpc[c] # "giveO"
    <3>1. wpc[c] = "giveO" => HoldsO(c) = {}
      BY <2>1 DEF HoldsO
    <3> QED BY <1>2, <2>2, <3>1 DEF WriterCanGo
  <2>6. wpc[c] = "poll"
    BY <2>1, <2>3, <2>4, <2>5
  <2> QED BY <1>2, <1>6, <2>1, <2>6 DEF WriterCanGo
<1>7. CASE Ahead(c)
  <2>1. /\ ctodo[c] # {} /\ todo[c] # ctodo[c] /\ cpc[c] \in {"takeL", "takeO"}
        /\ sem[c][Min(ctodo[c])] >= 1 /\ Min(ctodo[c]) \in Rounds
    <3>1. ctodo[c] # {} /\ cpc[c] \in {"takeL", "takeO"} /\ todo[c] = ctodo[c] \ {Min(ctodo[c])}
      BY <1>4, <1>7 DEF Ahead
    <3>2. Min(ctodo[c]) \in ctodo[c] /\ ctodo[c] \subseteq Rounds
      BY <1>1, <3>1, HandedOver
    <3>3. todo[c] # ctodo[c]
      BY <3>1, <3>2
    <3> QED BY <1>1, <3>1, <3>2, <3>3, HandedOver
  <2>2. \A p \in Parts : block[c][Min(ctodo[c])][p] # {}
    BY <1>1, <2>1, FullBlocks
  <2>3. cpc[c] = "takeL" => in[c]["l"] = block[c][Min(ctodo[c])]["l"]
    BY <1>3, <2>1 DEF BuffersHold, HoldsL
  <2>4. in[c]["m"] = block[c][Min(ctodo[c])]["m"] /\ c16[c] = block[c][Min(ctodo[c])]["o"]
    BY <1>3, <2>1 DEF BuffersHold, HoldsM, HoldsO
  <2>5. in[c]["m"] # {} /\ c16[c] # {} /\ (cpc[c] = "takeL" => in[c]["l"] # {})
    BY <2>2, <2>3, <2>4 DEF Parts
  <2> QED BY <1>2, <2>1, <2>5 DEF ComputeCanGo
<1> QED BY <1>3, <1>5, <1>6, <1>7 DEF InStep

\* No group hangs: in every reachable state all kernels have ended and the output is written, or
\* somebody can go on.  The last core that waits would wait for a child behind it, which has ended
\* and has told it so.
THEOREM NeverStuck == Spec => []NobodyStuck
<1>1. Init => ParentTold /\ RootWrote
  <2> SUFFICES ASSUME Init PROVE \A c \in Running : wpc[c] \notin {"atomic", "end"}
    BY DEF ParentTold, RootWrote
  <2>1. wpc = [c \in Group |-> Start(c)]
    BY DEF Init
  <2>2. \A c \in Running : c \in Group /\ Runs(c)
    BY DEF Running
  <2> QED BY <2>1, <2>2 DEF Start
<1>2. Inv /\ ParentTold /\ RootWrote => NobodyStuck
  <2> SUFFICES ASSUME Inv, ParentTold, RootWrote, ~SomebodyCanGo PROVE AllEnded
    BY DEF NobodyStuck
  <2> DEFINE Waiting == {c \in Running : ~(wpc[c] = "end" /\ cpc[c] = "end")}
  <2>1. /\ PlanGiven /\ Running \subseteq Group /\ Group \subseteq Nat /\ cores \in Nat
        /\ \A c \in Group : c < cores
    BY PlanIsGiven DEF PlanGiven, Group
  <2>2. sflight = {}
    BY DEF SomebodyCanGo, NetworkCanGo
  <2>3. ASSUME NEW c \in Waiting PROVE \E d \in Waiting : c < d
    <3>1. c \in Running /\ ctodo[c] # {} /\ ~(sem[c][Min(ctodo[c])] >= 1)
      BY <2>3, WaitsForChild
    <3>2. PICK r : r = Min(ctodo[c])
      OBVIOUS
    <3>3. r \in ActiveRounds(c)
      BY <2>1, <3>1, <3>2, HandedOver
    <3>4. PICK d : d = Child(c, r)
      OBVIOUS
    <3>5. d \in Running \ {0} /\ Parent(d) = c /\ SendAt(d) = r
      BY <2>1, <3>1, <3>3, <3>4, PlanOfRunning
    <3>6. wpc[d] # "end"
      BY <2>2, <3>1, <3>2, <3>5 DEF ParentTold
    <3>7. d \in Group /\ Parent(d) \in 0..(d - 1) /\ d \in Nat
      BY <2>1, <3>5, ParentAwaits, PlanOfRunning
    <3>8. c < d
      BY <3>5, <3>7
    <3> QED BY <3>5, <3>6, <3>8
  <2>4. Waiting \subseteq Running
    OBVIOUS
  <2>5. \A c \in Running : c \notin Waiting => wpc[c] = "end" /\ cpc[c] = "end"
    OBVIOUS
  <2> HIDE DEF Waiting
  <2>6. Waiting = {}
    <3> SUFFICES ASSUME Waiting # {} PROVE FALSE
      OBVIOUS
    <3> DEFINE T == {n \in Nat : \E c \in Waiting : n = cores - c}
    <3>1. \A c \in Waiting : c \in Nat /\ c < cores
      BY <2>1, <2>4
    <3>2. \A c \in Waiting : cores - c \in T
      BY <2>1, <3>1
    <3>3. T \in SUBSET Nat /\ \A n \in T : \E c \in Waiting : n = cores - c
      OBVIOUS
    <3> HIDE DEF T
    <3>4. T # {}
      BY <3>2
    <3>5. PICK x \in T : \A y \in T : x <= y
      BY <3>3, <3>4, LeastElement
    <3>6. PICK c \in Waiting : x = cores - c
      BY <3>3
    <3>7. PICK d \in Waiting : c < d
      BY <2>3
    <3>8. cores - c <= cores - d
      BY <3>2, <3>5, <3>6
    <3> QED BY <2>1, <3>1, <3>7, <3>8
  <2>7. \A c \in Group : wpc[c] = "end" /\ cpc[c] = "end"
    <3> SUFFICES ASSUME NEW c \in Group PROVE wpc[c] = "end" /\ cpc[c] = "end"
      OBVIOUS
    <3>1. CASE c \in Running
      BY <2>5, <2>6, <3>1
    <3>2. CASE c \notin Running
      BY <3>2 DEF Inv, OthersIdle
    <3> QED BY <3>1, <3>2
  <2>8. ASSUME Launched PROVE output # {}
    <3>1. 0 \in Group /\ cores \in Nat \ {0} /\ chunks \in Nat \ {0}
      BY <2>1 DEF PlanGiven, Group
    <3>2. HasLocalData(0)
      BY <3>1, DataRule
    <3>3. 0 \in Running
      BY <2>1, <2>8, <3>1, <3>2, PlanOfRunning
    <3> QED BY <2>7, <3>1, <3>3 DEF RootWrote
  <2> QED BY <2>7, <2>8 DEF AllEnded
<1>3. Inv /\ ParentTold /\ RootWrote /\ [Next]_vars => (ParentTold /\ RootWrote)'
  BY EndsStep
<1> QED BY <1>1, <1>2, <1>3, Invariant, PTL DEF Spec
=============================================================================
