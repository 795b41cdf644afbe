-------------------------- MODULE PrefixCacheProofs --------------------------
(***************************************************************************)
(* Proofs about PrefixCache, for every workload: any number of requests,   *)
(* blocks, prefixes and checkpoints.                                       *)
(*                                                                         *)
(* The inductive invariant has two halves.  The first is about K/V blocks: *)
(* a block that a prompt has yet to write belongs to that prompt alone,    *)
(* and any other cached block holds the K/V of its hash, written by a      *)
(* whole chunk; so a hit is what a cold prefill would have computed.  The  *)
(* second is about the store: a checkpoint's pins are the grants that hold *)
(* it, a grant names the checkpoint of the very prefix its request starts  *)
(* at, and a granted request holds the block whose eviction would drop it. *)
(***************************************************************************)
EXTENDS PrefixCache, FiniteSetTheorems, SequenceTheorems, TLAPS

-----------------------------------------------------------------------------
(* The inductive invariant: blocks *)

\* How far the prompt of an admitted request has been run.
Pos(r) == IF row # None /\ row.req = r THEN row.pos ELSE start[r]

\* Block b is taken for a prompt and not yet written.
Pending(b) == \E r \in Admitted : \E i \in Pos(r) + 1 .. Len(table[r]) : table[r][i] = b

\* Block b holds the K/V of the prefix k, of a whole prefill chunk.
HoldsChunk(b, k) == kv[b] # None /\ kv[b].prefix = k /\ kv[b].by = "chunk"

BlockTypes ==
    /\ sameStep \subseteq Blocks
    /\ cached \in [Hashes -> Seq(Blocks)]
    /\ kv \in [Blocks -> [prefix : Hashes, by : Writers] \cup {None}]
    /\ table \in [Req -> Seq(Blocks)]

RequestTypes ==
    /\ phase \in [Req -> {"waiting", "admitted", "running", "preempted", "done"}]
    /\ len \in [Req -> Nat] /\ start \in [Req -> Nat]
    /\ slot \in [Req -> Seq(Nat) \cup {None}]
    /\ \A r \in Req : /\ PromptLen[r] <= len[r] /\ len[r] <= Len(Text[r])
                      /\ phase[r] \in {"waiting", "admitted", "preempted"} => len[r] < Len(Text[r])
                      /\ phase[r] = "running" => PromptLen[r] < len[r]

\* Which parts of a step exist when.
StepPhases ==
    /\ pc \in {"idle", "schedule", "model"} /\ killed \in BOOLEAN
    /\ pc # "schedule" => trying = None
    /\ pc = "idle" => Admitted = {}
    /\ row # None => pc = "model"

\* The hit of the request being admitted is cached K/V that was there before this step.
TryingSound ==
    trying # None =>
        /\ trying.req \in Req /\ phase[trying.req] \in {"waiting", "preempted"}
        /\ trying.hit \in Seq(Blocks) /\ Len(trying.hit) < len[trying.req] /\ Len(trying.hit) % Chunk = 0
        /\ \A i \in 1 .. Len(trying.hit) : /\ trying.hit[i] \in ToSet(cached[Prefix(trying.req, i)])
                                           /\ trying.hit[i] \notin sameStep

AdmittedShape == \A r \in Admitted : Len(table[r]) = len[r] /\ start[r] < len[r] /\ start[r] % Chunk = 0

\* An admitted request's hit stays cached: it holds the blocks.
HitsCached == \A r \in Admitted : \A i \in 1 .. start[r] : table[r][i] \in ToSet(cached[Prefix(r, i)])

\* The whole chunks of an admitted request's prompt are published.
PromptsCached ==
    ~killed => \A r \in Admitted \ Excluded : \A i \in start[r] + 1 .. len[r] :
                   i <= Floor(PromptLen[r]) => table[r][i] \in ToSet(cached[Prefix(r, i)])

\* A row's scratch is the state of the tokens it has run.
RowSound ==
    row # None =>
        /\ row \in [req : Req, pos : Nat] /\ row.req \in Admitted /\ row.pos % Chunk = 0
        /\ start[row.req] <= row.pos /\ row.pos <= len[row.req]
        /\ scratch = Prefix(row.req, row.pos)

\* The blocks of a prefix that is computed hold its K/V, and its slot the recurrent state.
HeldBy(r) ==
    /\ phase[r] = "running" => /\ Len(table[r]) = len[r] - 1 /\ start[r] <= len[r] - 1
                               /\ slot[r] = Prefix(r, len[r] - 1)
    /\ phase[r] \in {"admitted", "running"} =>
         \A i \in 1 .. Len(table[r]) :
           /\ phase[r] = "running" \/ i <= Pos(r) => kv[table[r][i]] # None /\ kv[table[r][i]].prefix = Prefix(r, i)
           /\ i <= start[r] => kv[table[r][i]].by = "chunk"

HeldSound == \A r \in Req : HeldBy(r)

\* A block that a prompt has yet to write is nobody else's.
PendingOwned ==
    \A r \in Admitted : \A i \in Pos(r) + 1 .. Len(table[r]) :
        \A x \in Req : \A j \in 1 .. Len(table[x]) : table[x][j] = table[r][i] => x = r /\ j = i

\* A cached block is written, or published in this step and about to be written by a whole chunk.
CachedSound ==
    \A k \in Hashes : \A b \in ToSet(cached[k]) :
        \/ HoldsChunk(b, k) /\ ~Pending(b)
        \/ /\ b \in sameStep
           /\ \E r \in Admitted : \E i \in Pos(r) + 1 .. Len(table[r]) :
                b = table[r][i] /\ k = Prefix(r, i) /\ i <= Floor(PromptLen[r])

BlockInv ==
    /\ BlockTypes /\ RequestTypes /\ StepPhases /\ TryingSound /\ AdmittedShape /\ HitsCached /\ PromptsCached
    /\ RowSound /\ HeldSound /\ PendingOwned /\ CachedSound

-----------------------------------------------------------------------------
(* The inductive invariant: checkpoints and grants *)

\* The grants that pin a checkpoint.
Holders(s) == {r \in Req : committed[r] # None /\ committed[r].ckpt = s}

StoreTypes ==
    /\ entries \in Seq(Serials)
    /\ ckpt \in [Serials -> [key : Hashes \cup {None}, gdn : Hashes \cup {None}, pins : Nat]]
    /\ staged \in [Req -> Grants] /\ committed \in [Req -> Grants]
    /\ \A r \in Req : /\ pc = "schedule" => committed[r] = None
                      /\ pc # "schedule" => staged[r] = None

\* A grant names the checkpoint of the prefix it resumes at, and plans captures above it within the prompt.
GrantSound(r, g) ==
    /\ g.q > 0 => /\ g.q % Chunk = 0 /\ BelowWindow(r, g.q)
                  /\ g.ckpt \in Serials /\ ckpt[g.ckpt].key = Prefix(r, g.q)
    /\ r \notin Excluded /\ \A p \in g.plan : g.q < p /\ p <= Floor(PromptLen[r])

GrantsSound ==
    \A r \in Req : /\ staged[r] # None => GrantSound(r, staged[r])
                   /\ committed[r] # None => GrantSound(r, committed[r]) /\ phase[r] \in {"admitted", "running"}

\* Where a grant lets a request start.
GrantedAt(g) == IF g = None THEN 0 ELSE g.q

\* The hit of the request being admitted is its grant's, whose checkpoint is stored.
TryingGranted ==
    trying # None =>
        /\ Len(trying.hit) = GrantedAt(staged[trying.req])
        /\ Len(trying.hit) > 0 /\ ~killed => staged[trying.req].ckpt \in ToSet(entries)

\* An admitted request starts where its grant says.
StartsGranted ==
    \A r \in Admitted : /\ pc = "schedule" => start[r] = GrantedAt(staged[r])
                        /\ pc = "model" => start[r] = GrantedAt(committed[r])

\* A checkpoint's state is that of the prefix it is keyed by, and its pins are its grants.
CheckpointsSound ==
    /\ \A s \in Serials : ckpt[s].gdn = ckpt[s].key /\ ckpt[s].pins = Cardinality(Holders(s))
    /\ \A s \in ToSet(entries) : ckpt[s].key \in Hashes

\* What an admitted request was granted is in the store until it is given back.
GrantsStored ==
    ~killed => \A r \in Req :
        /\ committed[r] # None /\ committed[r].q > 0 => committed[r].ckpt \in ToSet(entries)
        /\ phase[r] = "admitted" /\ staged[r] # None /\ staged[r].q > 0 => staged[r].ckpt \in ToSet(entries)

\* The store is within its budget or holds granted checkpoints only.
StoreFits ==
    pc # "idle" => \/ Cardinality(ToSet(entries)) <= Budget
                   \/ \A s \in ToSet(entries) : Holders(s) # {}

StoreInv ==
    /\ StoreTypes /\ GrantsSound /\ TryingGranted /\ StartsGranted /\ CheckpointsSound
    /\ GrantsStored /\ StoreFits /\ StoredHaveKv

Inv == load \in Workloads /\ BlockInv /\ StoreInv

-----------------------------------------------------------------------------
(* Sets of numbers in order, and sequences without some elements *)

LEMMA UpTo ==
    ASSUME NEW n \in Nat
    PROVE  IsFiniteSet(1 .. n) /\ Cardinality(1 .. n) = n
BY FS_Interval

\* In a finite set of numbers, for every i up to its size exactly i elements lie up to one of them.
LEMMA Ranked ==
    ASSUME NEW S \in SUBSET Nat, IsFiniteSet(S)
    PROVE  \A i \in 1 .. Cardinality(S) : \E b \in S : Cardinality({c \in S : c <= b}) = i
<1> DEFINE upto(b) == {c \in S : c <= b}
           n == Cardinality(S)
           R == [b \in S |-> Cardinality(upto(b))]
<1>1. n \in Nat
  BY FS_CardinalityType
<1>2. \A b \in S : IsFiniteSet(upto(b)) /\ Cardinality(upto(b)) \in 1 .. n
  <2> TAKE b \in S
  <2>1. IsFiniteSet(upto(b)) /\ Cardinality(upto(b)) <= n
    BY FS_Subset
  <2>2. Cardinality(upto(b)) \in Nat /\ upto(b) # {}
    BY <2>1, FS_CardinalityType
  <2>3. Cardinality(upto(b)) # 0
    BY <2>1, <2>2, FS_EmptySet
  <2> QED BY <1>1, <2>1, <2>2, <2>3
<1>3. R \in [S -> 1 .. n]
  BY <1>2
<1>4. \A a, b \in S : a < b => Cardinality(upto(a)) < Cardinality(upto(b))
  <2> TAKE a, b \in S
  <2> HAVE a < b
  <2>1. a \in Nat /\ b \in Nat /\ \A c \in S : c \in Nat /\ (c <= a => c <= b)
    OBVIOUS
  <2>2. upto(a) \in SUBSET upto(b)
    BY <2>1
  <2>3. b \in upto(b) /\ b \notin upto(a)
    OBVIOUS
  <2>4. Cardinality(upto(a)) <= Cardinality(upto(b)) /\ Cardinality(upto(a)) # Cardinality(upto(b))
    <3> HIDE DEF upto
    <3> QED BY <1>2, <2>2, <2>3, FS_Subset
  <2> HIDE DEF upto, n
  <2> QED BY <1>1, <1>2, <2>4
<1>5. \A a, b \in S : R[a] = R[b] => a = b
  <2> SUFFICES ASSUME NEW a \in S, NEW b \in S, R[a] = R[b], a # b PROVE FALSE
    OBVIOUS
  <2>1. a < b \/ b < a
    OBVIOUS
  <2>2. Cardinality(upto(a)) = Cardinality(upto(b))
    OBVIOUS
  <2> HIDE DEF upto, n, R
  <2> QED BY <1>1, <1>2, <1>4, <2>1, <2>2
<1>6. R \in Injection(S, 1 .. n)
  <2>1. DOMAIN R = S
    OBVIOUS
  <2> HIDE DEF R, n
  <2> QED BY <1>3, <1>5, <2>1 DEF Injection, IsInjective
<1>7. IsFiniteSet(1 .. n) /\ Cardinality(1 .. n) = n
  <2> HIDE DEF n
  <2> QED BY <1>1, UpTo
<1>8. R \in Surjection(S, 1 .. n)
  <2> HIDE DEF R
  <2> QED BY <1>6, <1>7, FS_Injection
<1>9. \A i \in 1 .. n : \E b \in S : R[b] = i
  <2> HIDE DEF R, n
  <2> QED BY <1>8 DEF Surjection
<1> QED BY <1>9

\* InOrder lists a finite set of numbers, each once.
LEMMA InOrderLists ==
    ASSUME NEW S \in SUBSET Nat, IsFiniteSet(S)
    PROVE  /\ InOrder(S) \in Seq(S) /\ Len(InOrder(S)) = Cardinality(S) /\ ToSet(InOrder(S)) = S
           /\ \A i, j \in 1 .. Cardinality(S) : InOrder(S)[i] = InOrder(S)[j] => i = j
           /\ \A i \in 1 .. Cardinality(S) : /\ InOrder(S)[i] \in S
                                             /\ Cardinality({c \in S : c <= InOrder(S)[i]}) = i
<1> DEFINE n == Cardinality(S)
           rank(b) == Cardinality({c \in S : c <= b})
           F == InOrder(S)
<1>1. n \in Nat
  BY FS_CardinalityType
<1>2. \A i \in 1 .. n : \E b \in S : rank(b) = i
  BY Ranked
<1>3. F = [i \in 1 .. n |-> CHOOSE b \in S : rank(b) = i]
  BY DEF InOrder
<1> HIDE DEF rank, n, F
<1>4. \A i \in 1 .. n : F[i] \in S /\ rank(F[i]) = i
  BY <1>2, <1>3
<1>5. F \in [1 .. n -> S]
  BY <1>3, <1>4
<1>6. F \in Seq(S) /\ Len(F) = n /\ DOMAIN F = 1 .. n
  BY <1>1, <1>5
<1>7. \A i, j \in 1 .. n : F[i] = F[j] => i = j
  BY <1>4
<1>8. F \in Injection(1 .. n, S)
  BY <1>5, <1>6, <1>7 DEF Injection, IsInjective
<1>9. IsFiniteSet(1 .. n) /\ Cardinality(1 .. n) = Cardinality(S)
  BY <1>1, UpTo DEF n
<1>10. F \in Surjection(1 .. n, S)
  BY <1>8, <1>9, FS_Injection
<1>11. \A b \in S : \E i \in 1 .. n : F[i] = b
  BY <1>10 DEF Surjection
<1>12. ToSet(F) = S
  BY <1>4, <1>6, <1>11 DEF ToSet
<1> QED BY <1>4, <1>6, <1>7, <1>12 DEF F, n, rank

\* The elements of a sequence are those at its positions.
LEMMA SeqElements ==
    ASSUME NEW T, NEW es \in Seq(T)
    PROVE  /\ DOMAIN es = 1 .. Len(es) /\ Len(es) \in Nat /\ ToSet(es) \subseteq T
           /\ \A x : x \in ToSet(es) <=> \E i \in 1 .. Len(es) : es[i] = x
           /\ IsFiniteSet(ToSet(es)) /\ Cardinality(ToSet(es)) <= Len(es)
           /\ es = <<>> <=> ToSet(es) = {}
<1>1. DOMAIN es = 1 .. Len(es) /\ Len(es) \in Nat /\ \A i \in 1 .. Len(es) : es[i] \in T
  OBVIOUS
<1>2. \A x : x \in ToSet(es) <=> \E i \in 1 .. Len(es) : es[i] = x
  BY <1>1 DEF ToSet
<1>3. es \in [1 .. Len(es) -> ToSet(es)]
  BY <1>1, <1>2
<1>4. es \in Surjection(1 .. Len(es), ToSet(es))
  BY <1>2, <1>3 DEF Surjection
<1>5. IsFiniteSet(1 .. Len(es)) /\ Cardinality(1 .. Len(es)) = Len(es)
  BY <1>1, UpTo
<1>6. IsFiniteSet(ToSet(es)) /\ Cardinality(ToSet(es)) <= Len(es)
  BY <1>4, <1>5, FS_Surjection
<1>7. es = <<>> <=> Len(es) = 0
  OBVIOUS
<1>8. es = <<>> <=> ToSet(es) = {}
  <2>1. ASSUME Len(es) = 0 PROVE ToSet(es) = {}
    BY <1>1, <1>2, <2>1
  <2>2. ASSUME Len(es) # 0 PROVE ToSet(es) # {}
    <3>1. 1 \in 1 .. Len(es)
      BY <1>1, <2>2
    <3> QED BY <1>2, <3>1
  <2> QED BY <1>7, <2>1, <2>2
<1> QED BY <1>1, <1>2, <1>6, <1>8

\* Without drops exactly the elements of S; its length is the number of the others.
LEMMA WithoutDrops ==
    ASSUME NEW T, NEW es \in Seq(T), NEW S
    PROVE  /\ Without(es, S) \in Seq(T)
           /\ ToSet(Without(es, S)) = ToSet(es) \ S
           /\ Len(Without(es, S)) = Cardinality({i \in 1 .. Len(es) : es[i] \notin S})
<1> DEFINE K == {i \in DOMAIN es : es[i] \notin S}
           n == Cardinality(K)
           F == InOrder(K)
           W == Without(es, S)
<1>1. DOMAIN es = 1 .. Len(es) /\ Len(es) \in Nat /\ \A i \in 1 .. Len(es) : es[i] \in T
  OBVIOUS
<1>2. K \in SUBSET Nat /\ K \subseteq 1 .. Len(es)
  BY <1>1
<1>3. IsFiniteSet(K)
  <2> HIDE DEF K
  <2> QED BY <1>1, <1>2, UpTo, FS_Subset
<1>4. n \in Nat
  BY <1>3, FS_CardinalityType
<1>5. W = [i \in 1 .. n |-> es[F[i]]]
  BY DEF Without
<1>6. \A i \in 1 .. n : F[i] \in K
  <2> HIDE DEF K
  <2> QED BY <1>2, <1>3, InOrderLists
<1>7. ToSet(F) = K /\ DOMAIN F = 1 .. n
  <2>1. F \in Seq(K) /\ Len(F) = n /\ ToSet(F) = K
    <3> HIDE DEF K
    <3> QED BY <1>2, <1>3, InOrderLists
  <2> HIDE DEF K, F, n
  <2> QED BY <2>1
<1>8. \A k \in K : \E i \in 1 .. n : F[i] = k
  <2> HIDE DEF K, F, n
  <2> QED BY <1>7 DEF ToSet
<1>9. \A i : i \in K <=> i \in 1 .. Len(es) /\ es[i] \notin S
  BY <1>1
<1>10. K = {i \in 1 .. Len(es) : es[i] \notin S}
  BY <1>1
<1> HIDE DEF K, F, n, W
<1>11. \A i \in 1 .. n : W[i] = es[F[i]] /\ es[F[i]] \in T /\ es[F[i]] \notin S
  BY <1>1, <1>5, <1>6, <1>9
<1>12. W \in [1 .. n -> T]
  BY <1>5, <1>11
<1>13. W \in Seq(T) /\ Len(W) = n /\ DOMAIN W = 1 .. n
  BY <1>4, <1>12
<1>14. \A x : x \in ToSet(W) <=> x \in ToSet(es) \ S
  <2> TAKE x
  <2>1. ASSUME x \in ToSet(W) PROVE x \in ToSet(es) \ S
    <3>1. PICK i \in 1 .. n : W[i] = x
      BY <1>13, <2>1 DEF ToSet
    <3> QED BY <1>1, <1>6, <1>9, <1>11, <3>1 DEF ToSet
  <2>2. ASSUME x \in ToSet(es) \ S PROVE x \in ToSet(W)
    <3>1. PICK j \in 1 .. Len(es) : es[j] = x
      BY <1>1, <2>2 DEF ToSet
    <3>2. PICK i \in 1 .. n : F[i] = j
      BY <1>8, <1>9, <2>2, <3>1
    <3> QED BY <1>11, <1>13, <3>1, <3>2 DEF ToSet
  <2> QED BY <2>1, <2>2
<1>15. ToSet(W) = ToSet(es) \ S
  BY <1>14
<1> QED BY <1>10, <1>13, <1>15 DEF W, n

\* The elements of a concatenation and of an appended sequence.
LEMMA JoinedElements ==
    ASSUME NEW T, NEW es \in Seq(T), NEW fs \in Seq(T)
    PROVE  es \o fs \in Seq(T) /\ ToSet(es \o fs) = ToSet(es) \cup ToSet(fs)
<1> DEFINE W == es \o fs
<1>1. /\ W \in Seq(T) /\ Len(W) = Len(es) + Len(fs) /\ Len(es) \in Nat /\ Len(fs) \in Nat
      /\ \A i \in 1 .. Len(es) + Len(fs) : W[i] = IF i <= Len(es) THEN es[i] ELSE fs[i - Len(es)]
  BY ConcatProperties, LenProperties
<1> HIDE DEF W
<1>2. \A x : x \in ToSet(W) => x \in ToSet(es) \cup ToSet(fs)
  <2> TAKE x
  <2> HAVE x \in ToSet(W)
  <2>1. PICK i \in 1 .. Len(W) : W[i] = x
    BY <1>1, SeqElements
  <2>2. CASE i <= Len(es)
    BY <1>1, <2>1, <2>2, SeqElements
  <2>3. CASE i > Len(es)
    <3>1. i - Len(es) \in 1 .. Len(fs) /\ fs[i - Len(es)] = x
      BY <1>1, <2>1, <2>3
    <3> QED BY <3>1, SeqElements
  <2> QED BY <1>1, <2>1, <2>2, <2>3
<1>3. \A x \in ToSet(es) : x \in ToSet(W)
  <2> TAKE x \in ToSet(es)
  <2>1. PICK i \in 1 .. Len(es) : es[i] = x
    BY SeqElements
  <2>2. i \in 1 .. Len(W) /\ W[i] = x
    BY <1>1, <2>1
  <2> QED BY <1>1, <2>2, SeqElements
<1>4. \A x \in ToSet(fs) : x \in ToSet(W)
  <2> TAKE x \in ToSet(fs)
  <2>1. PICK i \in 1 .. Len(fs) : fs[i] = x
    BY SeqElements
  <2>2. PICK m : m = Len(es) + i
    OBVIOUS
  <2>3. m \in 1 .. Len(W) /\ ~(m <= Len(es)) /\ m - Len(es) = i
    BY <1>1, <2>1, <2>2
  <2>4. W[m] = x
    BY <1>1, <2>1, <2>3
  <2> QED BY <1>1, <2>3, <2>4, SeqElements
<1>5. ToSet(W) = ToSet(es) \cup ToSet(fs)
  BY <1>2, <1>3, <1>4
<1> QED BY <1>1, <1>5 DEF W

LEMMA AppendedElements ==
    ASSUME NEW T, NEW es \in Seq(T), NEW e \in T
    PROVE  Append(es, e) \in Seq(T) /\ ToSet(Append(es, e)) = ToSet(es) \cup {e}
<1> DEFINE fs == <<e>>
<1>1. fs \in Seq(T) /\ ToSet(fs) = {e}
  BY DEF ToSet
<1>2. Append(es, e) = es \o fs
  BY AppendIsConcat
<1> HIDE DEF fs
<1>3. ToSet(es \o fs) = ToSet(es) \cup {e} /\ es \o fs \in Seq(T)
  BY <1>1, JoinedElements
<1> QED BY <1>2, <1>3

\* SetToSeq and SetToSeqs list a finite set, each element once.
LEMMA OrdersList ==
    ASSUME NEW S, IsFiniteSet(S)
    PROVE  /\ \A order \in SetToSeqs(S) : order \in Seq(S) /\ ToSet(order) = S /\ IsInjective(order)
           /\ SetToSeq(S) \in Seq(S) /\ ToSet(SetToSeq(S)) = S /\ IsInjective(SetToSeq(S))
<1> DEFINE n == Cardinality(S)
<1>1. n \in Nat /\ IsFiniteSet(1 .. n) /\ Cardinality(1 .. n) = n
  BY FS_CardinalityType, UpTo
<1>2. ASSUME NEW f \in [1 .. n -> S], IsInjective(f)
      PROVE  f \in Seq(S) /\ ToSet(f) = S
  <2>1. f \in Injection(1 .. n, S)
    BY <1>2 DEF Injection
  <2>2. f \in Surjection(1 .. n, S)
    BY <1>1, <2>1, FS_Injection
  <2>3. DOMAIN f = 1 .. n /\ f \in Seq(S)
    <3> HIDE DEF n
    <3> QED BY <1>1, <1>2
  <2>4. \A x \in S : \E i \in 1 .. n : f[i] = x
    BY <2>2 DEF Surjection
  <2> HIDE DEF n
  <2>5. ToSet(f) = S
    BY <2>3, <2>4 DEF ToSet
  <2> QED BY <2>3, <2>5
<1>3. \A order \in SetToSeqs(S) : order \in [1 .. n -> S] /\ IsInjective(order)
  <2> TAKE order \in SetToSeqs(S)
  <2>1. order \in [1 .. n -> S] /\ \A i, j \in 1 .. n : i # j => order[i] # order[j]
    BY DEF SetToSeqs
  <2>2. DOMAIN order = 1 .. n
    BY <2>1
  <2> QED BY <2>1, <2>2 DEF IsInjective
<1>4. \E f \in [1 .. n -> S] : IsInjective(f)
  <2>1. ExistsBijection(1 .. n, S)
    BY FS_CardinalityType
  <2> QED BY <2>1 DEF ExistsBijection, Bijection, Injection
<1>5. SetToSeq(S) \in [1 .. n -> S] /\ IsInjective(SetToSeq(S))
  BY <1>4 DEF SetToSeq
<1> QED BY <1>2, <1>3, <1>5

-----------------------------------------------------------------------------
(* The budget *)

\* The budget never drops a pinned checkpoint, and where it is not met only pinned ones are left.
LEMMA BudgetKeepsPinned ==
    ASSUME Budget \in Nat, NEW T, NEW es \in Seq(T), NEW objects
    PROVE  /\ EnforceBudget(es, objects) \in Seq(T)
           /\ ToSet(EnforceBudget(es, objects)) \subseteq ToSet(es)
           /\ \A s \in ToSet(es) : objects[s].pins # 0 => s \in ToSet(EnforceBudget(es, objects))
           /\ \/ Cardinality(ToSet(EnforceBudget(es, objects))) <= Budget
              \/ \A s \in ToSet(EnforceBudget(es, objects)) : objects[s].pins # 0
<1> DEFINE U == {i \in DOMAIN es : objects[es[i]].pins = 0}
           oldest(i) == Cardinality({j \in U : j <= i})
           n == Len(es) - Budget
           D == {j \in U : oldest(j) <= n}
           X == {es[i] : i \in D}
           res == EnforceBudget(es, objects)
<1>1. res = Without(es, X)
  BY DEF EnforceBudget
<1>2. DOMAIN es = 1 .. Len(es) /\ Len(es) \in Nat /\ n \in Int
  OBVIOUS
<1>3. \A i : i \in U <=> i \in 1 .. Len(es) /\ objects[es[i]].pins = 0
  BY <1>2
<1>4. \A i : i \in D <=> i \in U /\ oldest(i) <= n
  OBVIOUS
<1>5. \A s : s \in X <=> \E i \in D : es[i] = s
  OBVIOUS
<1>6. U \subseteq 1 .. Len(es) /\ U \in SUBSET Nat
  BY <1>2
<1>7. IsFiniteSet(U) /\ Cardinality(U) \in Nat
  <2> HIDE DEF U
  <2> QED BY <1>2, <1>6, UpTo, FS_Subset, FS_CardinalityType
<1>8. D \subseteq U
  OBVIOUS
<1>9. \A i \in U : oldest(i) \in Nat /\ oldest(i) <= Cardinality(U)
  <2> TAKE i \in U
  <2> DEFINE V == {j \in U : j <= i}
  <2>1. V \in SUBSET U
    OBVIOUS
  <2> HIDE DEF U, V
  <2>2. Cardinality(V) \in Nat /\ Cardinality(V) <= Cardinality(U)
    BY <1>7, <2>1, FS_Subset, FS_CardinalityType
  <2> QED BY <2>2 DEF V
<1>10. /\ \A i \in 1 .. Cardinality(U) : InOrder(U)[i] \in U /\ oldest(InOrder(U)[i]) = i
       /\ \A i, j \in 1 .. Cardinality(U) : InOrder(U)[i] = InOrder(U)[j] => i = j
  <2> HIDE DEF U
  <2> QED BY <1>6, <1>7, InOrderLists
<1> HIDE DEF U, oldest, D, X, res
<1>11. /\ res \in Seq(T) /\ ToSet(res) = ToSet(es) \ X
       /\ Len(res) = Cardinality({i \in 1 .. Len(es) : es[i] \notin X})
  BY <1>1, WithoutDrops
<1>12. \A s \in ToSet(es) : objects[s].pins # 0 => s \in ToSet(res)
  BY <1>3, <1>5, <1>8, <1>11
<1>13. Cardinality(ToSet(res)) <= Len(res) /\ Cardinality(ToSet(res)) \in Nat /\ Len(res) \in Nat
  BY <1>11, SeqElements, FS_CardinalityType
<1>14. IsFiniteSet(D) /\ Cardinality(D) \in Nat
  BY <1>7, <1>8, FS_Subset, FS_CardinalityType
<1>15. Len(res) <= Len(es) - Cardinality(D)
  <2> DEFINE all == 1 .. Len(es)
             kept == {i \in all : es[i] \notin X}
  <2>1. IsFiniteSet(all) /\ Cardinality(all) = Len(es)
    BY <1>2, UpTo
  <2>2. D \subseteq all
    BY <1>6, <1>8
  <2>3. kept \in SUBSET (all \ D)
    BY <1>5
  <2>4. Len(res) = Cardinality(kept)
    BY <1>11
  <2> HIDE DEF all, kept
  <2>5. IsFiniteSet(all \ D) /\ Cardinality(all \ D) = Cardinality(all) - Cardinality(all \cap D)
    BY <2>1, FS_Difference
  <2>6. all \cap D = D
    BY <2>2
  <2>7. Cardinality(kept) <= Cardinality(all \ D)
    BY <2>3, <2>5, FS_Subset
  <2> QED BY <1>2, <1>13, <1>14, <2>1, <2>4, <2>5, <2>6, <2>7
<1>16. CASE n >= Cardinality(U)
  <2>1. \A i \in U : i \in D
    BY <1>2, <1>4, <1>7, <1>9, <1>16
  <2>2. \A s \in ToSet(res) : objects[s].pins # 0
    <3> TAKE s \in ToSet(res)
    <3>1. PICK i \in 1 .. Len(es) : es[i] = s
      BY <1>11, SeqElements
    <3> QED BY <1>3, <1>5, <1>11, <2>1, <3>1
  <2> QED BY <1>11, <1>12, <2>2 DEF res
<1>17. CASE n <= 0
  <2>1. Cardinality(ToSet(res)) <= Budget
    BY <1>2, <1>13, <1>14, <1>15, <1>17
  <2> QED BY <1>11, <1>12, <2>1 DEF res
<1>18. CASE 0 < n /\ n < Cardinality(U)
  <2> DEFINE f == [i \in 1 .. n |-> InOrder(U)[i]]
  <2>1. \A i \in 1 .. n : i \in 1 .. Cardinality(U)
    BY <1>2, <1>7, <1>18
  <2>2. \A i \in 1 .. n : InOrder(U)[i] \in D
    BY <1>2, <1>4, <1>10, <2>1
  <2>3. f \in [1 .. n -> D]
    BY <2>2
  <2>4. DOMAIN f = 1 .. n /\ \A i, j \in 1 .. n : f[i] = f[j] => i = j
    BY <1>10, <2>1
  <2> HIDE DEF f
  <2>5. f \in Injection(1 .. n, D)
    BY <2>3, <2>4 DEF Injection, IsInjective
  <2>6. n \in Nat
    BY <1>2, <1>18
  <2> HIDE DEF n
  <2>7. n <= Cardinality(D)
    BY <1>14, <2>5, <2>6, FS_Injection, UpTo
  <2>8. Cardinality(ToSet(res)) <= Budget
    <3> USE DEF n
    <3> QED BY <1>2, <1>13, <1>14, <1>15, <2>7
  <2> QED BY <1>11, <1>12, <2>8 DEF res
<1> QED BY <1>2, <1>7, <1>16, <1>17, <1>18

-----------------------------------------------------------------------------
(* The workload *)

\* What PrefixAssumption says of the workload the system runs.
LEMMA Workload ==
    ASSUME load \in Workloads
    PROVE  /\ IsFiniteSet(Req) /\ Cardinality(Req) \in Nat /\ Excluded \subseteq Req
           /\ PromptLen \in [Req -> Nat]
           /\ \A r \in Req : /\ Text[r] \in Seq(Nat) /\ Len(Text[r]) \in Nat
                             /\ PromptLen[r] \in Nat /\ 1 <= PromptLen[r] /\ PromptLen[r] < Len(Text[r])
           /\ Blocks \subseteq Nat /\ IsFiniteSet(Blocks)
           /\ Chunk \in Nat /\ Chunk # 0 /\ Budget \in Nat
           /\ Sticky \in BOOLEAN /\ MidLoop \in BOOLEAN /\ Killable \in BOOLEAN
           /\ Serials \subseteq Nat /\ IsFiniteSet(Serials)
           /\ Cardinality(Serials) = Budget + Cardinality(Req) + 1
<1>1. /\ IsFiniteSet(Req) /\ Excluded \subseteq Req /\ PromptLen \in [Req -> Nat]
      /\ \A r \in Req : Text[r] \in Seq(Nat) /\ PromptLen[r] \in 1 .. Len(Text[r]) - 1
      /\ Chunk \in Nat \ {0} /\ Budget \in Nat
      /\ {Sticky, MidLoop, Killable} \subseteq BOOLEAN
  BY PrefixAssumption DEF Req, Excluded, PromptLen, Text, Chunk, Budget, Sticky, MidLoop, Killable
<1>2. Cardinality(Req) \in Nat
  BY <1>1, FS_CardinalityType
<1>3. \A r \in Req : Len(Text[r]) \in Nat
  BY <1>1, LenProperties
<1>4. \A r \in Req : PromptLen[r] \in Nat /\ 1 <= PromptLen[r] /\ PromptLen[r] < Len(Text[r])
  BY <1>1, <1>3
<1>5. Serials \subseteq Nat /\ IsFiniteSet(Serials) /\ Cardinality(Serials) = Budget + Cardinality(Req) + 1
  <2> DEFINE n == Budget + Cardinality(Req) + 1
  <2>1. n \in Nat /\ Serials = 1 .. n
    BY <1>1, <1>2 DEF Serials
  <2> HIDE DEF n
  <2>2. IsFiniteSet(Serials) /\ Cardinality(Serials) = n /\ Serials \subseteq Nat
    BY <2>1, UpTo
  <2> QED BY <2>2 DEF n
<1>6. Blocks \subseteq Nat /\ IsFiniteSet(Blocks)
  <2>1. load.blocks \in Nat
    BY PrefixAssumption
  <2> QED BY <2>1, UpTo DEF Blocks
<1> QED BY <1>1, <1>2, <1>3, <1>4, <1>5, <1>6

\* A step that keeps the workload keeps what is derived from it.
LEMMA WorkloadStays ==
    ASSUME load' = load
    PROVE  /\ Req' = Req /\ Excluded' = Excluded /\ PromptLen' = PromptLen /\ Text' = Text
           /\ Blocks' = Blocks /\ Chunk' = Chunk /\ Budget' = Budget
           /\ Sticky' = Sticky /\ MidLoop' = MidLoop /\ Killable' = Killable
           /\ Hashes' = Hashes /\ Serials' = Serials /\ Grants' = Grants
           /\ \A r, n : Prefix(r, n)' = Prefix(r, n)
           /\ \A r : Prefix(r, len[r] - 1)' = Prefix(r, len'[r] - 1)
           /\ \A i : Prefix(trying.req, i)' = Prefix(trying'.req, i)
           /\ Prefix(row.req, row.pos)' = Prefix(row'.req, row'.pos)
           /\ \A n : Floor(n)' = Floor(n)
           /\ \A r : Floor(PromptLen[r])' = Floor(PromptLen[r])
           /\ \A r, q : BelowWindow(r, q)' = BelowWindow(r, q)
<1>1. /\ Req' = Req /\ Excluded' = Excluded /\ PromptLen' = PromptLen /\ Text' = Text
      /\ Blocks' = Blocks /\ Chunk' = Chunk /\ Budget' = Budget
      /\ Sticky' = Sticky /\ MidLoop' = MidLoop /\ Killable' = Killable
  BY DEF Req, Excluded, PromptLen, Text, Blocks, Chunk, Budget, Sticky, MidLoop, Killable
<1>2. \A r, n : Prefix(r, n)' = Prefix(r, n)
  BY <1>1 DEF Prefix
<1>3. \A r : Prefix(r, len[r] - 1)' = Prefix(r, len'[r] - 1)
  BY <1>1 DEF Prefix
<1>4. \A i : Prefix(trying.req, i)' = Prefix(trying'.req, i)
  BY <1>1 DEF Prefix
<1>5. Prefix(row.req, row.pos)' = Prefix(row'.req, row'.pos)
  BY <1>1 DEF Prefix
<1>6. \A r : Floor(PromptLen[r])' = Floor(PromptLen[r])
  BY <1>1 DEF Floor
<1>7. \A n : Floor(n)' = Floor(n)
  BY <1>1 DEF Floor
<1>8. \A r, q : BelowWindow(r, q)' = BelowWindow(r, q)
  BY <1>1 DEF BelowWindow
<1>9. Serials' = Serials
  BY <1>1 DEF Serials
<1>10. Grants' = Grants
  BY <1>9 DEF Grants
<1>11. Hashes' = Hashes
  BY <1>1, <1>2 DEF Hashes
<1> QED BY <1>1, <1>2, <1>7, <1>8, <1>9, <1>10, <1>11, <1>3, <1>4, <1>5, <1>6

\* Prefixes are hashes, told apart by their length, and grow by the tokens that follow.
LEMMA PrefixFacts ==
    ASSUME load \in Workloads, NEW r \in Req
    PROVE  /\ \A n \in 1 .. Len(Text[r]) : Prefix(r, n) \in Hashes /\ Len(Prefix(r, n)) = n
           /\ \A n \in 0 .. Len(Text[r]) : Prefix(r, n) \in Seq(Nat)
           /\ Prefix(r, 0) = <<>>
           /\ \A m \in 0 .. Len(Text[r]) : \A n \in m .. Len(Text[r]) :
                  Prefix(r, m) \o SubSeq(Text[r], m + 1, n) = Prefix(r, n)
           /\ \A n \in 1 .. Len(Text[r]) : Append(Prefix(r, n - 1), Text[r][n]) = Prefix(r, n)
<1>1. Text[r] \in Seq(Nat) /\ Len(Text[r]) \in Nat /\ \A i \in 1 .. Len(Text[r]) : Text[r][i] \in Nat
  <2>1. Text[r] \in Seq(Nat)
    BY Workload
  <2> DEFINE t == Text[r]
  <2> HIDE DEF t
  <2>2. t \in Seq(Nat)
    BY <2>1 DEF t
  <2>3. Len(t) \in Nat /\ \A i \in 1 .. Len(t) : t[i] \in Nat
    BY <2>2, LenProperties, ElementOfSeq
  <2> QED BY <2>2, <2>3 DEF t
<1>2. \A n \in 0 .. Len(Text[r]) : Prefix(r, n) \in Seq(Nat) /\ Len(Prefix(r, n)) = n
  <2> TAKE n \in 0 .. Len(Text[r])
  <2>1. \A i \in 1 .. n : Text[r][i] \in Nat
    BY <1>1
  <2>2. n \in Int /\ 1 \in Int
    BY <1>1
  <2>3. /\ SubSeq(Text[r], 1, n) \in Seq(Nat)
        /\ Len(SubSeq(Text[r], 1, n)) = IF 1 <= n THEN n - 1 + 1 ELSE 0
    BY <2>1, <2>2, SubSeqProperties
  <2> QED BY <1>1, <2>3 DEF Prefix
<1>3. \A n \in 1 .. Len(Text[r]) : Prefix(r, n) \in Hashes
  BY DEF Hashes
<1>4. Prefix(r, 0) = <<>>
  BY SubSeqEmpty DEF Prefix
<1>5. \A m \in 0 .. Len(Text[r]) : \A n \in m .. Len(Text[r]) :
          Prefix(r, m) \o SubSeq(Text[r], m + 1, n) = Prefix(r, n)
  <2> TAKE m \in 0 .. Len(Text[r])
  <2> TAKE n \in m .. Len(Text[r])
  <2>1. 1 \in 1 .. Len(Text[r]) + 1 /\ m \in (1 - 1) .. Len(Text[r])
    BY <1>1
  <2> QED BY <1>1, <2>1, ConcatAdjacentSubSeq DEF Prefix
<1>6. \A n \in 1 .. Len(Text[r]) : Append(Prefix(r, n - 1), Text[r][n]) = Prefix(r, n)
  <2> TAKE n \in 1 .. Len(Text[r])
  <2>1. 1 \in 1 .. Len(Text[r]) /\ n \in 1 .. Len(Text[r])
    BY <1>1
  <2>2. SubSeq(Text[r], 1, n) = SubSeq(Text[r], 1, n - 1) \o << Text[r][n] >>
    BY <1>1, <2>1, SubSeqRecursiveSecond
  <2>3. Prefix(r, n - 1) \in Seq(Nat) /\ Text[r][n] \in Nat
    BY <1>1, <1>2
  <2>4. Append(Prefix(r, n - 1), Text[r][n]) = Prefix(r, n - 1) \o << Text[r][n] >>
    BY <2>3, AppendIsConcat
  <2> QED BY <2>2, <2>4 DEF Prefix
<1>7. \A n \in 1 .. Len(Text[r]) : n \in 0 .. Len(Text[r])
  BY <1>1
<1> QED BY <1>2, <1>3, <1>4, <1>5, <1>6, <1>7

\* Whole chunks.
LEMMA Chunks ==
    ASSUME load \in Workloads
    PROVE  /\ \A n \in Int : Floor(n) \in Int /\ Floor(n) <= n
           /\ \A a \in Nat : a % Chunk = 0 => (a + Chunk) % Chunk = 0
           /\ \A a \in Nat, n \in Nat : (a % Chunk = 0 /\ n < a + Chunk) => Floor(n) <= a
           /\ 0 % Chunk = 0
<1> DEFINE c == Chunk
<1>1. c \in Nat /\ c > 0
  BY Workload
<1> HIDE DEF c
<1>2. \A n \in Int : n \div c \in Int /\ n % c \in 0 .. c - 1 /\ n = c * (n \div c) + (n % c)
  BY <1>1
<1>3. \A n \in Int : Floor(n) = c * (n \div c)
  BY <1>1, <1>2 DEF Floor, c
<1>4. \A n \in Int : c * (n \div c) \in Int
  BY <1>1, <1>2
<1>5. \A n \in Int : Floor(n) \in Int /\ Floor(n) <= n
  BY <1>1, <1>2, <1>3, <1>4
<1>6. ASSUME NEW a \in Nat, a % c = 0 PROVE (a + c) % c = 0
  <2> DEFINE p == a \div c
             q == (a + c) \div c
             m == (a + c) % c
  <2>1. p \in Int /\ a = c * p
    BY <1>1, <1>2, <1>6
  <2>2. q \in Int /\ m \in Int /\ 0 <= m /\ m < c /\ a + c = c * q + m
    BY <1>1, <1>2
  <2> HIDE DEF p, q, m
  <2>3. m = c * (p + 1 - q)
    BY <1>1, <2>1, <2>2
  <2> DEFINE d == p + 1 - q
  <2>4. d \in Int /\ m = c * d
    BY <2>1, <2>2, <2>3
  <2> HIDE DEF d
  <2>5. d >= 1 => c * d >= c
    BY <1>1, <2>4
  <2>6. d <= -1 => c * d <= -c
    BY <1>1, <2>4
  <2>7. d = 0
    BY <1>1, <2>2, <2>4, <2>5, <2>6
  <2>8. m = 0
    BY <1>1, <2>4, <2>7
  <2> QED BY <2>8 DEF m
<1>7. ASSUME NEW a \in Nat, NEW n \in Nat, a % c = 0, n < a + c PROVE Floor(n) <= a
  <2> DEFINE p == a \div c
             q == n \div c
  <2>1. p \in Int /\ q \in Int /\ a = c * p /\ n >= c * q /\ Floor(n) = c * q
    BY <1>1, <1>2, <1>3, <1>7
  <2>2. c * q < c * p + c
    BY <1>1, <1>7, <2>1
  <2> HIDE DEF p, q
  <2>3. c * q < c * (p + 1)
    BY <1>1, <2>1, <2>2
  <2>4. q < p + 1
    BY <1>1, <2>1, <2>3
  <2>5. q <= p
    BY <2>1, <2>4
  <2>6. c * q <= c * p
    BY <1>1, <2>1, <2>5
  <2> QED BY <2>1, <2>6
<1>8. 0 % c = 0
  BY <1>1
<1> QED BY <1>5, <1>6, <1>7, <1>8 DEF c

\* The whole chunks of a prompt are within it.
LEMMA PromptChunks ==
    ASSUME load \in Workloads, NEW r \in Req
    PROVE  Floor(PromptLen[r]) \in Int /\ Floor(PromptLen[r]) <= PromptLen[r]
<1>1. PromptLen[r] \in Int
  BY Workload
<1>2. \A n \in Int : Floor(n) \in Int /\ Floor(n) <= n
  BY Chunks
<1> QED BY <1>1, <1>2

\* What a block holds is something.
LEMMA ContentsAreSomething ==
    \A p \in Seq(Nat), by \in Writers : [prefix |-> p, by |-> by] # None
BY NoneAssumption

-----------------------------------------------------------------------------
(* Steps that leave the blocks and the requests alone *)

\* What those steps keep.
OnlyStore ==
    /\ load' = load /\ cached' = cached /\ kv' = kv /\ table' = table
    /\ phase' = phase /\ len' = len /\ start' = start
    /\ row' = row /\ scratch' = scratch /\ slot' = slot

\* Such a step keeps what holds of the blocks.
LEMMA BlocksKept ==
    ASSUME Inv, OnlyStore, StepPhases', TryingSound', killed => killed',
           sameStep' = sameStep \/ (sameStep' = {} /\ Admitted = {})
    PROVE  BlockInv'
<1> USE WorkloadStays
<1>1. load' = load
  BY DEF OnlyStore
<1>2. Admitted' = Admitted /\ \A r : Pos(r)' = Pos(r)
  BY <1>1 DEF OnlyStore, Admitted, Pos
<1>3. \A b : Pending(b)' <=> Pending(b)
  BY <1>2 DEF OnlyStore, Pending
<1>4. \A b, k : HoldsChunk(b, k)' <=> HoldsChunk(b, k)
  BY DEF OnlyStore, HoldsChunk
<1>5. BlockTypes' /\ RequestTypes'
  BY <1>1 DEF Inv, BlockInv, OnlyStore, BlockTypes, RequestTypes, Writers
<1>6. AdmittedShape'
  BY <1>1, <1>2 DEF Inv, BlockInv, OnlyStore, AdmittedShape
<1>7. HitsCached'
  BY <1>1, <1>2 DEF Inv, BlockInv, OnlyStore, HitsCached
<1>8. PromptsCached'
  BY <1>1, <1>2 DEF Inv, BlockInv, OnlyStore, PromptsCached
<1>9. RowSound'
  BY <1>1, <1>2 DEF Inv, BlockInv, OnlyStore, RowSound
<1>10. HeldSound'
  BY <1>1, <1>2 DEF Inv, BlockInv, OnlyStore, HeldSound, HeldBy
<1>11. PendingOwned'
  BY <1>1, <1>2 DEF Inv, BlockInv, OnlyStore, PendingOwned
<1>12. CachedSound'
  <2>1. CachedSound /\ cached' = cached /\ table' = table
    BY DEF Inv, BlockInv, OnlyStore
  <2> QED BY <1>1, <1>2, <1>3, <1>4, <2>1 DEF CachedSound
<1> QED BY <1>5, <1>6, <1>7, <1>8, <1>9, <1>10, <1>11, <1>12 DEF BlockInv

-----------------------------------------------------------------------------
(* The trim *)

\* A nonempty set of numbers up to n has a largest, and any nonempty finite one a smallest.
LEMMA Largest ==
    ASSUME NEW n \in Nat, NEW S \in SUBSET (0 .. n), S # {}
    PROVE  \E m \in S : \A k \in S : k <= m
<1>1. S \in SUBSET Nat /\ IsFiniteSet(S)
  <2> DEFINE T == 0 .. n
  <2>1. IsFiniteSet(T) /\ S \in SUBSET T /\ T \subseteq Nat
    BY FS_Interval
  <2> HIDE DEF T
  <2> QED BY <2>1, FS_Subset
<1>2. Cardinality(S) \in Nat /\ Cardinality(S) # 0
  BY <1>1, FS_CardinalityType, FS_EmptySet
<1>3. PICK m \in S : Cardinality({c \in S : c <= m}) = Cardinality(S)
  BY <1>1, <1>2, Ranked
<1>4. {c \in S : c <= m} = S
  <2> DEFINE T == {c \in S : c <= m}
  <2>1. T \in SUBSET S /\ Cardinality(T) = Cardinality(S)
    BY <1>3
  <2> HIDE DEF T
  <2>2. T = S
    BY <1>1, <2>1, FS_Subset
  <2> QED BY <2>2 DEF T
<1> QED BY <1>4

LEMMA Smallest ==
    ASSUME NEW S \in SUBSET Nat, IsFiniteSet(S), S # {}
    PROVE  \E m \in S : \A k \in S : m <= k
<1>1. Cardinality(S) \in Nat /\ Cardinality(S) # 0
  BY FS_CardinalityType, FS_EmptySet
<1>2. PICK m \in S : Cardinality({c \in S : c <= m}) = 1
  BY <1>1, Ranked
<1>3. \A k \in S : k <= m => k = m
  <2> DEFINE T == {c \in S : c <= m}
  <2>1. T \in SUBSET S /\ Cardinality(T) = 1 /\ m \in T
    BY <1>2
  <2> HIDE DEF T
  <2>2. PICK x : T = {x}
    BY <2>1, FS_Subset, FS_Singleton
  <2> QED BY <2>1, <2>2 DEF T
<1> QED BY <1>3

\* vLLM's hit is a chain of cached blocks short of the whole prompt.
LEMMA HitIsCached ==
    ASSUME Inv, NEW r \in Req
    PROVE  Hit(r) \in Nat /\ Hit(r) < len[r] /\ \A i \in 1 .. Hit(r) : cached[Prefix(r, i)] # <<>>
<1> DEFINE chains == {n \in 0 .. len[r] - 1 : \A i \in 1 .. n : cached[Prefix(r, i)] # <<>>}
           longest == CHOOSE n \in chains : \A k \in chains : k <= n
<1>1. len[r] \in Nat /\ len[r] - 1 \in Nat
  BY Workload DEF Inv, BlockInv, RequestTypes
<1>2. chains \in SUBSET (0 .. len[r] - 1) /\ 0 \in chains
  BY <1>1
<1>3. \E m \in chains : \A k \in chains : k <= m
  <2> HIDE DEF chains
  <2> QED BY <1>1, <1>2, Largest
<1>4. longest \in chains
  BY <1>3
<1>5. longest \in 0 .. len[r] - 1 /\ \A i \in 1 .. longest : cached[Prefix(r, i)] # <<>>
  <2> HIDE DEF longest
  <2> QED BY <1>4
<1>6. Hit(r) = IF Sticky /\ longest > 0 THEN longest - 1 ELSE longest
  BY DEF Hit
<1> HIDE DEF longest
<1> QED BY <1>1, <1>5, <1>6

\* Where the trim lets request r resume.
TrimPoints(r) == {0} \cup ResumePoints(r, Hit(r))
TrimPoint(r) == CHOOSE p \in TrimPoints(r) : \A k \in TrimPoints(r) : k <= p

LEMMA TrimPointSound ==
    ASSUME Inv, NEW r \in Req
    PROVE  /\ TrimPoint(r) \in Nat /\ TrimPoint(r) <= Hit(r) /\ TrimPoint(r) % Chunk = 0
           /\ TrimPoint(r) > 0 => TrimPoint(r) \in ResumePoints(r, Hit(r))
           /\ HitBlocks(r, TrimPoint(r)) \in Seq(Blocks)
           /\ Len(HitBlocks(r, TrimPoint(r))) = TrimPoint(r)
           /\ \A i \in 1 .. TrimPoint(r) :
                 /\ HitBlocks(r, TrimPoint(r))[i] \in ToSet(cached[Prefix(r, i)])
                 /\ HitBlocks(r, TrimPoint(r))[i] \notin sameStep
<1> DEFINE h == Hit(r)
           q == TrimPoint(r)
           P == TrimPoints(r)
<1>1. h \in Nat /\ h < len[r] /\ \A i \in 1 .. h : cached[Prefix(r, i)] # <<>>
  BY HitIsCached
<1>2. \A p \in ResumePoints(r, h) : /\ p \in 1 .. h /\ p % Chunk = 0
                                    /\ \A i \in 1 .. p : HitBlocks(r, h)[i] \notin sameStep
  BY DEF ResumePoints
<1> HIDE DEF h
<1>3. P \in SUBSET (0 .. h) /\ P # {} /\ P = {0} \cup ResumePoints(r, h)
  BY <1>1, <1>2 DEF TrimPoints, h
<1>4. \E m \in P : \A k \in P : k <= m
  <2> HIDE DEF P
  <2> QED BY <1>1, <1>3, Largest
<1>5. q \in P
  BY <1>4 DEF TrimPoint
<1> HIDE DEF P, q
<1>6. q \in Nat /\ q <= h /\ (q > 0 => q \in ResumePoints(r, h)) /\ (q = 0 \/ q \in ResumePoints(r, h))
  BY <1>1, <1>3, <1>5
<1>7. q % Chunk = 0
  BY <1>2, <1>6, Chunks DEF Inv
<1>8. \A i \in 1 .. q : /\ Head(cached[Prefix(r, i)]) \in ToSet(cached[Prefix(r, i)])
                        /\ Head(cached[Prefix(r, i)]) \in Blocks
  <2> TAKE i \in 1 .. q
  <2>1. i \in 1 .. Len(Text[r]) /\ cached[Prefix(r, i)] # <<>>
    BY <1>1, <1>6, Workload DEF Inv, BlockInv, RequestTypes
  <2>2. Prefix(r, i) \in Hashes
    BY <2>1, PrefixFacts DEF Inv
  <2> DEFINE c == cached[Prefix(r, i)]
  <2>3. c \in Seq(Blocks) /\ c # <<>>
    BY <2>1, <2>2 DEF Inv, BlockInv, BlockTypes
  <2> HIDE DEF c
  <2>4. Head(c) = c[1] /\ 1 \in DOMAIN c /\ c[1] \in Blocks
    BY <2>3
  <2>5. Head(c) \in ToSet(c)
    BY <2>4 DEF ToSet
  <2> QED BY <2>4, <2>5 DEF c
<1>9. \A n : HitBlocks(r, n) = [i \in 1 .. n |-> Head(cached[Prefix(r, i)])]
  BY DEF HitBlocks
<1> DEFINE head(i) == Head(cached[Prefix(r, i)])
<1>10. HitBlocks(r, q) = [i \in 1 .. q |-> head(i)] /\ \A i \in 1 .. q : head(i) \in Blocks
  BY <1>8, <1>9
<1>11. \A i \in 1 .. h : HitBlocks(r, h)[i] = head(i)
  BY <1>9
<1> HIDE DEF head
<1>12. HitBlocks(r, q) \in Seq(Blocks) /\ Len(HitBlocks(r, q)) = q
  BY <1>6, <1>10
<1>13. \A i \in 1 .. q : HitBlocks(r, q)[i] \notin sameStep
  <2> TAKE i \in 1 .. q
  <2>1. q \in ResumePoints(r, h) /\ i \in 1 .. h
    BY <1>1, <1>6
  <2>2. HitBlocks(r, h)[i] \notin sameStep
    BY <1>2, <2>1
  <2> QED BY <1>10, <1>11, <2>1, <2>2
<1>14. \A i \in 1 .. q : HitBlocks(r, q)[i] \in ToSet(cached[Prefix(r, i)])
  BY <1>8, <1>10 DEF head
<1> QED BY <1>6, <1>7, <1>12, <1>13, <1>14 DEF q, h

\* What Trim does, with its choice of the resume point named.
LEMMA TrimEffect ==
    ASSUME Inv, NEW r \in Req, Trim(r), load' = load
    PROVE  /\ pc = "schedule" /\ trying = None /\ phase[r] \in {"waiting", "preempted"}
           /\ pc' = pc /\ ckpt' = ckpt /\ committed' = committed /\ sameStep' = sameStep /\ OnlyStore
           /\ killed' = killed \/ killed' = TRUE
           /\ entries' = entries \/ (entries' = <<>> /\ killed')
           /\ \/ /\ staged' = [staged EXCEPT ![r] = None]
                 /\ trying' = [req |-> r, hit |-> <<>>]
              \/ /\ r \notin Excluded /\ ~killed' /\ entries' = entries
                 /\ \/ staged' = [staged EXCEPT ![r] = Grant(r, Hit(r), TrimPoint(r))]
                    \/ ~(TrimPoint(r) > 0) /\ staged' = [staged EXCEPT ![r] = None]
                 /\ trying' = [req |-> r, hit |-> HitBlocks(r, TrimPoint(r))]
<1>1. PICK engage \in {FALSE, TRUE} : killed' = (killed \/ engage)
  BY Zenon DEF Trim
<1>2. /\ pc = "schedule" /\ trying = None /\ phase[r] \in {"waiting", "preempted"}
      /\ pc' = pc /\ ckpt' = ckpt /\ committed' = committed /\ sameStep' = sameStep /\ OnlyStore
      /\ entries' = IF killed' /\ ~killed THEN <<>> ELSE entries
  BY DEF Trim, OnlyStore, kvcache, model
<1>3. IF r \in Excluded \/ killed'
      THEN staged' = [staged EXCEPT ![r] = None] /\ trying' = [req |-> r, hit |-> <<>>]
      ELSE /\ staged' = [staged EXCEPT ![r] =
                   IF TrimPoint(r) > 0 \/ Boundaries(r, Hit(r), TrimPoint(r)) # {}
                   THEN Grant(r, Hit(r), TrimPoint(r)) ELSE None]
           /\ trying' = [req |-> r, hit |-> HitBlocks(r, TrimPoint(r))]
  BY Zenon DEF Trim, TrimPoint, TrimPoints
<1>4. killed' = killed \/ killed' = TRUE
  <2>1. killed \in BOOLEAN
    BY DEF Inv, BlockInv, StepPhases
  <2> QED BY <1>1, <2>1
<1>5. r \notin Excluded /\ ~killed' => entries' = entries
  BY <1>2
<1> QED BY <1>2, <1>3, <1>4, <1>5

-----------------------------------------------------------------------------
(* Each step keeps what holds of the blocks *)

LEMMA TrimBlocks ==
    ASSUME Inv, NEW r \in Req, Trim(r), load' = load
    PROVE  BlockInv'
<1>1. /\ pc = "schedule" /\ phase[r] \in {"waiting", "preempted"}
      /\ pc' = pc /\ sameStep' = sameStep /\ OnlyStore
      /\ killed' = killed \/ killed' = TRUE
      /\ \/ trying' = [req |-> r, hit |-> <<>>]
         \/ trying' = [req |-> r, hit |-> HitBlocks(r, TrimPoint(r))]
  BY TrimEffect
<1>2. Admitted' = Admitted
  BY <1>1, WorkloadStays DEF OnlyStore, Admitted
<1>3. StepPhases'
  BY <1>1, <1>2 DEF Inv, BlockInv, StepPhases, OnlyStore
<1>4. len[r] \in Nat /\ len[r] > 0 /\ TrimPoint(r) < len[r]
  <2>1. PromptLen[r] \in Nat /\ 1 <= PromptLen[r] /\ len[r] \in Nat /\ PromptLen[r] <= len[r]
    BY Workload DEF Inv, BlockInv, RequestTypes
  <2>2. TrimPoint(r) \in Nat /\ Hit(r) \in Nat /\ TrimPoint(r) <= Hit(r) /\ Hit(r) < len[r]
    BY TrimPointSound, HitIsCached
  <2> QED BY <2>1, <2>2
<1>5. TryingSound'
  <2>1. phase' = phase /\ len' = len /\ cached' = cached /\ sameStep' = sameStep
    BY <1>1 DEF OnlyStore
  <2>2. Blocks' = Blocks /\ Req' = Req /\ Chunk' = Chunk /\ \A i : Prefix(trying.req, i)' = Prefix(trying'.req, i)
    BY WorkloadStays
  <2>3. CASE trying' = [req |-> r, hit |-> <<>>]
    <3>1. trying'.req = r /\ trying'.hit = <<>> /\ Len(trying'.hit) = 0 /\ trying'.hit \in Seq(Blocks)
      BY <2>3
    <3>2. 0 % Chunk = 0
      BY Chunks DEF Inv
    <3> QED BY <1>1, <1>4, <2>1, <2>2, <3>1, <3>2 DEF TryingSound
  <2>4. CASE trying' = [req |-> r, hit |-> HitBlocks(r, TrimPoint(r))]
    <3>1. trying'.req = r /\ trying'.hit = HitBlocks(r, TrimPoint(r))
      BY <2>4
    <3>2. /\ trying'.hit \in Seq(Blocks) /\ Len(trying'.hit) = TrimPoint(r) /\ TrimPoint(r) % Chunk = 0
          /\ \A i \in 1 .. TrimPoint(r) : /\ trying'.hit[i] \in ToSet(cached[Prefix(r, i)])
                                          /\ trying'.hit[i] \notin sameStep
      BY <3>1, TrimPointSound
    <3> QED BY <1>1, <1>4, <2>1, <2>2, <3>1, <3>2 DEF TryingSound
  <2> QED BY <1>1, <2>3, <2>4
<1> QED BY <1>1, <1>3, <1>5, BlocksKept

LEMMA BeginStepBlocks ==
    ASSUME Inv, BeginStep, load' = load
    PROVE  BlockInv'
<1>1. /\ pc = "idle" /\ pc' = "schedule" /\ sameStep' = {} /\ killed' = killed /\ trying' = trying /\ OnlyStore
  BY DEF BeginStep, OnlyStore, kvcache, requests, model
<1>2. Admitted' = Admitted /\ Admitted = {} /\ trying = None /\ row = None
  BY <1>1, WorkloadStays DEF OnlyStore, Admitted, Inv, BlockInv, StepPhases
<1>3. StepPhases' /\ TryingSound'
  BY <1>1, <1>2 DEF Inv, BlockInv, StepPhases, TryingSound, OnlyStore
<1> QED BY <1>1, <1>2, <1>3, BlocksKept

LEMMA DiscardBlocks ==
    ASSUME Inv, Discard, load' = load
    PROVE  BlockInv'
<1>1. /\ pc' = pc /\ trying' = None /\ sameStep' = sameStep /\ killed' = killed /\ OnlyStore
  BY DEF Discard, OnlyStore, registry, kvcache, model
<1>2. Admitted' = Admitted
  BY <1>1, WorkloadStays DEF OnlyStore, Admitted
<1>3. StepPhases' /\ TryingSound'
  BY <1>1, <1>2 DEF Inv, BlockInv, StepPhases, TryingSound, OnlyStore
<1> QED BY <1>1, <1>3, BlocksKept

LEMMA CommitBlocks ==
    ASSUME Inv, Commit, load' = load
    PROVE  BlockInv'
<1>1. /\ pc = "schedule" /\ pc' = "model" /\ trying = None /\ trying' = trying
      /\ sameStep' = sameStep /\ killed' = killed /\ OnlyStore
  BY DEF Commit, OnlyStore, kvcache, requests, model
<1>2. Admitted' = Admitted
  BY <1>1, WorkloadStays DEF OnlyStore, Admitted
<1>3. StepPhases' /\ TryingSound'
  BY <1>1, <1>2 DEF Inv, BlockInv, StepPhases, TryingSound, OnlyStore
<1> QED BY <1>1, <1>3, BlocksKept

LEMMA EndStepBlocks ==
    ASSUME Inv, EndStep, load' = load
    PROVE  BlockInv'
<1>1. /\ pc = "model" /\ pc' = "idle" /\ row = None /\ Admitted = {} /\ trying' = trying
      /\ sameStep' = sameStep /\ killed' = killed /\ OnlyStore
  BY DEF EndStep, OnlyStore, registry, kvcache, requests, model
<1>2. Admitted' = Admitted /\ trying = None
  BY <1>1, WorkloadStays DEF OnlyStore, Admitted, Inv, BlockInv, StepPhases
<1>3. StepPhases' /\ TryingSound'
  BY <1>1, <1>2 DEF Inv, BlockInv, StepPhases, TryingSound, OnlyStore
<1> QED BY <1>1, <1>3, BlocksKept

\* With no request admitted, a cached block is written.
LEMMA NobodyAdmitted ==
    ASSUME Inv, Admitted = {}
    PROVE  /\ trying = None => row = None
           /\ \A k \in Hashes : \A b \in ToSet(cached[k]) : HoldsChunk(b, k)
BY DEF Inv, BlockInv, CachedSound, RowSound

LEMMA NobodyAdmittedNext ==
    ASSUME load' = load, Admitted' = {}, row' = None,
           BlockTypes', RequestTypes', StepPhases', TryingSound', HeldSound',
           \A k \in Hashes : \A b \in ToSet(cached'[k]) : HoldsChunk(b, k)'
    PROVE  BlockInv'
<1>1. AdmittedShape' /\ HitsCached' /\ PromptsCached' /\ PendingOwned' /\ RowSound'
  BY DEF AdmittedShape, HitsCached, PromptsCached, PendingOwned, RowSound
<1>2. \A b : ~Pending(b)'
  BY DEF Pending
<1>3. CachedSound'
  BY <1>2, WorkloadStays DEF CachedSound
<1> QED BY <1>1, <1>3 DEF BlockInv

\* A request whose blocks are not written keeps what they hold.
LEMMA HeldKept ==
    ASSUME Inv, load' = load, NEW x \in Req, phase'[x] = phase[x], len'[x] = len[x], start'[x] = start[x],
           slot'[x] = slot[x], table'[x] = table[x], Pos(x)' = Pos(x),
           \A i \in 1 .. Len(table[x]) : kv'[table[x][i]] = kv[table[x][i]]
    PROVE  HeldBy(x)'
<1>1. HeldBy(x)
  BY DEF Inv, BlockInv, HeldSound
<1>2. (Prefix(x, len[x] - 1))' = Prefix(x, len[x] - 1) /\ \A i : Prefix(x, i)' = Prefix(x, i)
  BY WorkloadStays
<1> QED BY <1>1, <1>2 DEF HeldBy

LEMMA PreemptBlocks ==
    ASSUME Inv, NEW r \in Req, Preempt(r), load' = load
    PROVE  BlockInv'
<1>1. /\ pc = "schedule" /\ pc' = pc /\ trying = None /\ trying' = None /\ Admitted = {} /\ phase[r] = "running"
      /\ len[r] < Len(Text[r])
      /\ cached' = cached /\ kv' = kv /\ len' = len /\ row' = row /\ sameStep' = sameStep /\ killed' = killed
      /\ phase' = [phase EXCEPT ![r] = "preempted"] /\ table' = [table EXCEPT ![r] = <<>>]
      /\ slot' = [slot EXCEPT ![r] = None] /\ start' = [start EXCEPT ![r] = 0]
  BY DEF Preempt, registry
<1>2. row = None /\ row' = None
  BY <1>1 DEF Inv, BlockInv, StepPhases
<1>3. BlockTypes /\ RequestTypes /\ StepPhases /\ HeldSound
  BY DEF Inv, BlockInv
<1>4. /\ \A x \in Req : phase'[x] = (IF x = r THEN "preempted" ELSE phase[x])
      /\ \A x \in Req : x # r => table'[x] = table[x] /\ slot'[x] = slot[x] /\ start'[x] = start[x]
  BY <1>1, <1>3 DEF BlockTypes, RequestTypes
<1>5. Admitted' = {}
  BY <1>1, <1>4, WorkloadStays DEF Admitted
<1>6. BlockTypes'
  <2>1. <<>> \in Seq(Blocks)
    OBVIOUS
  <2> QED BY <1>1, <1>3, <2>1, WorkloadStays DEF BlockTypes, Writers
<1>7. RequestTypes'
  BY <1>1, <1>3, <1>4, WorkloadStays DEF RequestTypes
<1>8. StepPhases' /\ TryingSound'
  BY <1>1, <1>2, <1>3, <1>5 DEF StepPhases, TryingSound
<1>9. HeldSound'
  <2> SUFFICES ASSUME NEW x \in Req PROVE HeldBy(x)'
    BY WorkloadStays DEF HeldSound
  <2>1. CASE x = r
    BY <1>4, <2>1 DEF HeldBy
  <2>2. CASE x # r
    <3>1. Pos(x)' = Pos(x)
      BY <1>2, <1>4, <2>2 DEF Pos
    <3> QED BY <1>1, <1>4, <2>2, <3>1, HeldKept
  <2> QED BY <2>1, <2>2
<1>10. \A k \in Hashes : \A b \in ToSet(cached'[k]) : HoldsChunk(b, k)'
  BY <1>1, NobodyAdmitted DEF HoldsChunk
<1> QED BY <1>2, <1>5, <1>6, <1>7, <1>8, <1>9, <1>10, NobodyAdmittedNext

LEMMA FreeRequestBlocks ==
    ASSUME Inv, NEW r \in Req, FreeRequest(r), load' = load
    PROVE  BlockInv'
<1>1. /\ pc = "idle" /\ pc' = pc /\ trying' = trying
      /\ cached' = cached /\ kv' = kv /\ row' = row /\ sameStep' = sameStep /\ killed' = killed
      /\ phase' = [phase EXCEPT ![r] = "done"] /\ table' = [table EXCEPT ![r] = <<>>]
      /\ slot' = [slot EXCEPT ![r] = None] /\ start' = [start EXCEPT ![r] = 0]
      /\ len' = [len EXCEPT ![r] = PromptLen[r]]
  BY DEF FreeRequest
<1>2. row = None /\ row' = None /\ Admitted = {} /\ trying = None
  BY <1>1 DEF Inv, BlockInv, StepPhases
<1>3. BlockTypes /\ RequestTypes /\ StepPhases /\ HeldSound
  BY DEF Inv, BlockInv
<1>4. /\ \A x \in Req : phase'[x] = (IF x = r THEN "done" ELSE phase[x])
      /\ \A x \in Req : x # r =>
             table'[x] = table[x] /\ slot'[x] = slot[x] /\ start'[x] = start[x] /\ len'[x] = len[x]
      /\ len'[r] = PromptLen[r]
  BY <1>1, <1>3 DEF BlockTypes, RequestTypes
<1>5. Admitted' = {}
  BY <1>2, <1>4, WorkloadStays DEF Admitted
<1>6. BlockTypes'
  <2>1. <<>> \in Seq(Blocks)
    OBVIOUS
  <2> QED BY <1>1, <1>3, <2>1, WorkloadStays DEF BlockTypes, Writers
<1>7. RequestTypes'
  <2>1. PromptLen[r] \in Nat /\ Len(Text[r]) \in Nat /\ PromptLen[r] < Len(Text[r])
    BY Workload DEF Inv
  <2>2. /\ phase' \in [Req -> {"waiting", "admitted", "running", "preempted", "done"}]
        /\ len' \in [Req -> Nat] /\ start' \in [Req -> Nat] /\ slot' \in [Req -> Seq(Nat) \cup {None}]
    BY <1>1, <1>3, <2>1 DEF RequestTypes
  <2>3. phase'[r] = "done"
    BY <1>4
  <2>4. \A x \in Req : /\ PromptLen[x] <= len'[x] /\ len'[x] <= Len(Text[x])
                       /\ phase'[x] \in {"waiting", "admitted", "preempted"} => len'[x] < Len(Text[x])
                       /\ phase'[x] = "running" => PromptLen[x] < len'[x]
    BY <1>3, <1>4, <2>1, <2>3 DEF RequestTypes
  <2> QED BY <2>2, <2>4, WorkloadStays DEF RequestTypes
<1>8. StepPhases' /\ TryingSound'
  BY <1>1, <1>2, <1>3, <1>5 DEF StepPhases, TryingSound
<1>9. HeldSound'
  <2> SUFFICES ASSUME NEW x \in Req PROVE HeldBy(x)'
    BY WorkloadStays DEF HeldSound
  <2>1. CASE x = r
    BY <1>4, <2>1 DEF HeldBy
  <2>2. CASE x # r
    <3>1. Pos(x)' = Pos(x)
      BY <1>2, <1>4, <2>2 DEF Pos
    <3> QED BY <1>1, <1>4, <2>2, <3>1, HeldKept
  <2> QED BY <2>1, <2>2
<1>10. \A k \in Hashes : \A b \in ToSet(cached'[k]) : HoldsChunk(b, k)'
  BY <1>1, <1>2, NobodyAdmitted DEF HoldsChunk
<1> QED BY <1>2, <1>5, <1>6, <1>7, <1>8, <1>9, <1>10, NobodyAdmittedNext

LEMMA ResetBlocks ==
    ASSUME Inv, ResetPrefixCache, load' = load
    PROVE  BlockInv'
<1>1. /\ pc = "idle" /\ pc' = pc /\ trying' = trying /\ cached' = [k \in Hashes |-> <<>>]
      /\ kv' = kv /\ row' = row /\ sameStep' = sameStep /\ killed' = killed
      /\ phase' = phase /\ table' = table /\ slot' = slot /\ start' = start /\ len' = len
  BY DEF ResetPrefixCache, requests, model
<1>2. row = None /\ row' = None /\ Admitted = {} /\ trying = None
  BY <1>1 DEF Inv, BlockInv, StepPhases
<1>3. BlockTypes /\ RequestTypes /\ StepPhases /\ HeldSound
  BY DEF Inv, BlockInv
<1>4. Admitted' = {} /\ \A x : Pos(x)' = Pos(x)
  BY <1>1, <1>2, WorkloadStays DEF Admitted, Pos
<1>5. BlockTypes'
  <2>1. [k \in Hashes |-> <<>>] \in [Hashes -> Seq(Blocks)]
    OBVIOUS
  <2> QED BY <1>1, <1>3, <2>1, WorkloadStays DEF BlockTypes, Writers
<1>6. RequestTypes' /\ HeldSound'
  BY <1>1, <1>3, <1>4, WorkloadStays DEF RequestTypes, HeldSound, HeldBy
<1>7. StepPhases' /\ TryingSound'
  BY <1>1, <1>2, <1>3, <1>4 DEF StepPhases, TryingSound
<1>8. \A k \in Hashes : \A b \in ToSet(cached'[k]) : HoldsChunk(b, k)'
  <2>1. ToSet(<<>>) = {}
    BY DEF ToSet
  <2> QED BY <1>1, <2>1
<1> QED BY <1>2, <1>4, <1>5, <1>6, <1>7, <1>8, NobodyAdmittedNext

LEMMA StartRowBlocks ==
    ASSUME Inv, NEW r \in Req, StartRow(r), load' = load
    PROVE  BlockInv'
<1>1. /\ pc = "model" /\ pc' = pc /\ row = None /\ r \in Admitted /\ RowAccepted(r)
      /\ row' = [req |-> r, pos |-> start[r]]
      /\ scratch' = IF start[r] = 0 THEN <<>> ELSE ckpt[committed[r].ckpt].gdn
      /\ cached' = cached /\ kv' = kv /\ table' = table /\ sameStep' = sameStep /\ killed' = killed
      /\ phase' = phase /\ len' = len /\ start' = start /\ trying' = trying /\ slot' = slot
  BY DEF StartRow, registry, kvcache, requests
<1>2. BlockInv
  BY DEF Inv
<1>3. trying = None /\ start[r] \in Nat
  BY <1>1, <1>2 DEF BlockInv, StepPhases, RequestTypes
<1>4. Admitted' = Admitted /\ \A x : Pos(x)' = Pos(x)
  BY <1>1, WorkloadStays DEF Admitted, Pos
<1>5. \A b : Pending(b)' <=> Pending(b)
  BY <1>1, <1>4 DEF Pending
<1>6. \A b, k : HoldsChunk(b, k)' <=> HoldsChunk(b, k)
  BY <1>1 DEF HoldsChunk
<1>7. BlockTypes' /\ RequestTypes'
  BY <1>1, <1>2, WorkloadStays DEF BlockInv, BlockTypes, RequestTypes, Writers
<1>8. StepPhases' /\ TryingSound'
  BY <1>1, <1>2, <1>3, <1>4 DEF BlockInv, StepPhases, TryingSound
<1>9. AdmittedShape' /\ HitsCached' /\ PromptsCached'
  BY <1>1, <1>2, <1>4, WorkloadStays DEF BlockInv, AdmittedShape, HitsCached, PromptsCached
<1>10. RowSound'
  <2>1. scratch' = Prefix(r, start[r])
    <3>1. CASE start[r] = 0
      BY <1>1, <3>1, PrefixFacts DEF Inv
    <3>2. CASE start[r] # 0
      <4>1. /\ committed[r] # None /\ committed[r].q = start[r] /\ committed[r].ckpt \in Serials
            /\ ckpt[committed[r].ckpt].key = Prefix(r, committed[r].q)
        BY <1>1, <1>3, <3>2 DEF RowAccepted
      <4> QED BY <1>1, <3>2, <4>1 DEF Inv, StoreInv, CheckpointsSound
    <3> QED BY <3>1, <3>2
  <2>2. row'.req = r /\ row'.pos = start[r] /\ start[r] < len[r] /\ start[r] % Chunk = 0 /\ len[r] \in Nat
    BY <1>1, <1>2 DEF BlockInv, AdmittedShape, RequestTypes
  <2> QED BY <1>1, <1>3, <1>4, <2>1, <2>2, WorkloadStays DEF RowSound
<1>11. HeldSound' /\ PendingOwned'
  BY <1>1, <1>2, <1>4, WorkloadStays DEF BlockInv, HeldSound, HeldBy, PendingOwned
<1>12. CachedSound'
  <2>1. CachedSound
    BY <1>2 DEF BlockInv
  <2> QED BY <1>1, <1>4, <1>5, <1>6, <2>1, WorkloadStays DEF CachedSound
<1> QED BY <1>7, <1>8, <1>9, <1>10, <1>11, <1>12 DEF BlockInv

-----------------------------------------------------------------------------
(* Taking free blocks *)

\* A free block is in no table.
LEMMA FreeIsUnheld ==
    ASSUME Inv
    PROVE  \A b \in FreeBlocks : b \in Blocks /\ \A x \in Req : \A j \in 1 .. Len(table[x]) : table[x][j] # b
<1> TAKE b \in FreeBlocks
<1>1. b \in Blocks /\ \A x \in Req : b \notin ToSet(table[x])
  BY DEF FreeBlocks
<1>2. \A x \in Req : \A j \in 1 .. Len(table[x]) : table[x][j] # b
  <2> TAKE x \in Req
  <2> DEFINE t == table[x]
  <2>1. t \in Seq(Blocks) /\ b \notin ToSet(t)
    BY <1>1 DEF Inv, BlockInv, BlockTypes
  <2> HIDE DEF t
  <2>2. \A j \in 1 .. Len(t) : t[j] # b
    BY <2>1, SeqElements
  <2> QED BY <2>2 DEF t
<1> QED BY <1>1, <1>2

\* Taking blocks removes them from every hash.
LEMMA EvictedDrops ==
    ASSUME Inv, NEW S
    PROVE  /\ Evicted(S) \in [Hashes -> Seq(Blocks)]
           /\ \A k \in Hashes : ToSet(Evicted(S)[k]) = ToSet(cached[k]) \ S
<1>1. \A k \in Hashes : cached[k] \in Seq(Blocks)
  BY DEF Inv, BlockInv, BlockTypes
<1>2. \A k \in Hashes : Without(cached[k], S) \in Seq(Blocks) /\ ToSet(Without(cached[k], S)) = ToSet(cached[k]) \ S
  BY <1>1, WithoutDrops
<1> QED BY <1>2 DEF Evicted

\* Publishing adds the blocks of whole chunks of the prompt, each under its own prefix.
Adds(P, c, r, blocks, known, n) ==
    /\ P \in [Hashes -> Seq(Blocks)]
    /\ \A k \in Hashes : \A b :
         b \in ToSet(P[k]) <=>
           \/ b \in ToSet(c[k])
           \/ \E i \in known + 1 .. n : i <= CapLimit(r) /\ k = Prefix(r, i) /\ b = blocks[i]

LEMMA PublishAdds ==
    ASSUME Inv, NEW r \in Req, NEW c \in [Hashes -> Seq(Blocks)], NEW blocks \in Seq(Blocks),
           NEW known \in Nat, NEW n \in Nat, n <= Len(blocks), n <= Len(Text[r])
    PROVE  Adds(Publish(c, r, blocks, known, n), c, r, blocks, known, n)
<1> DEFINE new == {i \in known + 1 .. n : i <= CapLimit(r)}
           P == Publish(c, r, blocks, known, n)
<1>1. P = [k \in Hashes |-> IF \E i \in new : Prefix(r, i) = k THEN Append(c[k], blocks[Len(k)]) ELSE c[k]]
  BY Zenon DEF Publish
<1>2. \A i : i \in new <=> i \in known + 1 .. n /\ i <= CapLimit(r)
  OBVIOUS
<1>3. \A i \in new : i \in 1 .. n /\ i \in 1 .. Len(Text[r]) /\ i \in 1 .. Len(blocks)
  <2>1. Len(blocks) \in Nat /\ Len(Text[r]) \in Nat
    BY Workload, LenProperties DEF Inv
  <2> QED BY <2>1
<1>4. \A i \in new : blocks[i] \in Blocks /\ Len(Prefix(r, i)) = i
  BY <1>3, PrefixFacts, ElementOfSeq DEF Inv
<1> HIDE DEF new, P
<1>5. ASSUME NEW k \in Hashes, NEW i \in new, Prefix(r, i) = k
      PROVE  /\ P[k] \in Seq(Blocks) /\ ToSet(P[k]) = ToSet(c[k]) \cup {blocks[i]}
             /\ \A j \in new : Prefix(r, j) = k => j = i
  <2>1. Len(k) = i /\ blocks[i] \in Blocks
    BY <1>4, <1>5
  <2>2. P[k] = Append(c[k], blocks[i])
    BY <1>1, <1>5, <2>1
  <2>3. c[k] \in Seq(Blocks)
    OBVIOUS
  <2>4. P[k] \in Seq(Blocks) /\ ToSet(P[k]) = ToSet(c[k]) \cup {blocks[i]}
    BY <2>1, <2>2, <2>3, AppendedElements
  <2>5. \A j \in new : Prefix(r, j) = k => j = i
    BY <1>4, <1>5
  <2> QED BY <2>4, <2>5
<1>6. ASSUME NEW k \in Hashes, \A i \in new : Prefix(r, i) # k
      PROVE  P[k] \in Seq(Blocks) /\ P[k] = c[k]
  BY <1>1, <1>6
<1>7. \A k \in Hashes : P[k] \in Seq(Blocks)
  BY <1>5, <1>6
<1>8. P \in [Hashes -> Seq(Blocks)]
  BY <1>1, <1>7
<1>9. \A k \in Hashes : \A b :
        b \in ToSet(P[k]) <=> b \in ToSet(c[k]) \/ \E i \in new : k = Prefix(r, i) /\ b = blocks[i]
  <2> TAKE k \in Hashes
  <2>1. CASE \A i \in new : Prefix(r, i) # k
    BY <1>6, <2>1
  <2>2. CASE \E i \in new : Prefix(r, i) = k
    <3>1. PICK i \in new : Prefix(r, i) = k
      BY <2>2
    <3>2. /\ ToSet(P[k]) = ToSet(c[k]) \cup {blocks[i]}
          /\ \A j \in new : Prefix(r, j) = k => j = i
      BY <1>5, <3>1
    <3> QED BY <3>1, <3>2
  <2> QED BY <2>1, <2>2
<1> QED BY <1>2, <1>8, <1>9 DEF P, Adds

\* Nothing past the whole chunks of the prompt is published, and nothing at all once killed.
LEMMA CapSound ==
    ASSUME Inv, NEW r \in Req, NEW i \in Nat \ {0}
    PROVE  i <= CapLimit(r) <=> i <= Floor(PromptLen[r]) /\ r \notin Excluded /\ ~killed
<1>1. Floor(PromptLen[r]) \in Int
  BY Workload, Chunks DEF Inv
<1> QED BY <1>1 DEF CapLimit

LEMMA DecodeBlocks ==
    ASSUME Inv, NEW r \in Req, Decode(r), load' = load
    PROVE  BlockInv'
<1>1. /\ pc = "schedule" /\ pc' = pc /\ trying = None /\ trying' = None /\ Admitted = {} /\ phase[r] = "running"
      /\ len[r] < Len(Text[r])
      /\ row' = row /\ sameStep' = sameStep /\ killed' = killed /\ phase' = phase /\ start' = start
      /\ slot' = [slot EXCEPT ![r] = Append(@, Text[r][len[r]])]
      /\ len' = [len EXCEPT ![r] = @ + 1]
  BY DEF Decode
<1>2. PICK b \in FreeBlocks :
           /\ table' = [table EXCEPT ![r] = Append(@, b)]
           /\ cached' = Publish(Evicted({b}), r, table'[r], len[r] - 1, len[r])
           /\ kv' = [kv EXCEPT ![b] = [prefix |-> Prefix(r, len[r]), by |-> "decode"]]
  BY Zenon DEF Decode
<1>3. row = None /\ row' = None
  BY <1>1 DEF Inv, BlockInv, StepPhases
<1>4. BlockTypes /\ RequestTypes /\ StepPhases /\ HeldSound
  BY DEF Inv, BlockInv
<1>5. b \in Blocks /\ \A x \in Req : \A j \in 1 .. Len(table[x]) : table[x][j] # b
  BY FreeIsUnheld
<1>6. /\ len[r] \in Nat /\ PromptLen[r] \in Nat /\ PromptLen[r] < len[r] /\ Len(Text[r]) \in Nat /\ 1 <= PromptLen[r]
      /\ len[r] \in 1 .. Len(Text[r]) /\ len[r] - 1 \in Nat
  <2>1. PromptLen[r] \in Nat /\ Len(Text[r]) \in Nat /\ 1 <= PromptLen[r]
    BY Workload DEF Inv
  <2>2. len[r] \in Nat /\ PromptLen[r] < len[r]
    BY <1>1, <1>4 DEF RequestTypes
  <2> QED BY <1>1, <2>1, <2>2
<1>7. /\ table[r] \in Seq(Blocks) /\ Len(table[r]) = len[r] - 1 /\ start[r] <= len[r] - 1 /\ start[r] \in Nat
      /\ slot[r] = Prefix(r, len[r] - 1)
  BY <1>1, <1>4 DEF HeldSound, HeldBy, BlockTypes, RequestTypes
<1>8. /\ table'[r] \in Seq(Blocks) /\ Len(table'[r]) = len[r] /\ table'[r][len[r]] = b
      /\ \A i \in 1 .. len[r] - 1 : table'[r][i] = table[r][i]
      /\ \A x \in Req : x # r => table'[x] = table[x]
  <2> DEFINE t == Append(table[r], b)
  <2>1. table'[r] = t /\ \A x \in Req : x # r => table'[x] = table[x]
    BY <1>2, <1>4 DEF BlockTypes
  <2>2. /\ t \in Seq(Blocks) /\ Len(t) = Len(table[r]) + 1 /\ t[Len(table[r]) + 1] = b
        /\ \A i \in 1 .. Len(table[r]) : t[i] = table[r][i]
    BY <1>5, <1>7, AppendProperties
  <2> HIDE DEF t
  <2>3. Len(table[r]) + 1 = len[r]
    BY <1>6, <1>7
  <2>4. Len(t) = len[r] /\ t[len[r]] = b
    BY <2>2, <2>3
  <2>5. \A i \in 1 .. len[r] - 1 : t[i] = table[r][i]
    BY <1>7, <2>2
  <2> QED BY <2>1, <2>2, <2>4, <2>5
<1>9. cached' \in [Hashes -> Seq(Blocks)] /\ \A k \in Hashes : ToSet(cached'[k]) = ToSet(cached[k]) \ {b}
  <2> DEFINE c == Evicted({b})
             t == table'[r]
             known == len[r] - 1
             n == len[r]
             P == Publish(c, r, t, known, n)
  <2>1. c \in [Hashes -> Seq(Blocks)] /\ \A k \in Hashes : ToSet(c[k]) = ToSet(cached[k]) \ {b}
    BY EvictedDrops
  <2>2. n \in Nat /\ known \in Nat /\ n <= Len(t) /\ n <= Len(Text[r]) /\ t \in Seq(Blocks)
    BY <1>6, <1>8
  <2> HIDE DEF c, t, P, known, n
  <2>3. /\ P \in [Hashes -> Seq(Blocks)]
        /\ \A k \in Hashes : \A x : x \in ToSet(P[k]) <=>
               \/ x \in ToSet(c[k])
               \/ \E i \in known + 1 .. n : i <= CapLimit(r) /\ k = Prefix(r, i) /\ x = t[i]
    <3>1. Adds(P, c, r, t, known, n)
      BY <2>1, <2>2, PublishAdds DEF P
    <3> QED BY <3>1 DEF Adds
  <2>4. \A i \in known + 1 .. n : ~(i <= CapLimit(r))
    <3>1. Floor(PromptLen[r]) \in Int /\ Floor(PromptLen[r]) <= PromptLen[r]
      BY PromptChunks DEF Inv
    <3>2. len[r] \in Nat \ {0} /\ ~(len[r] <= Floor(PromptLen[r]))
      BY <1>6, <3>1
    <3>3. ~(len[r] <= CapLimit(r))
      BY <3>2, CapSound
    <3>4. \A i \in known + 1 .. n : i = len[r]
      BY <1>6 DEF known, n
    <3> QED BY <3>3, <3>4
  <2>5. \A k \in Hashes : \A x : x \in ToSet(P[k]) <=> x \in ToSet(c[k])
    BY <2>3, <2>4
  <2>6. \A k \in Hashes : ToSet(P[k]) = ToSet(c[k])
    BY <2>5
  <2>7. cached' = P
    BY <1>2 DEF P, c, t, known, n
  <2> QED BY <2>1, <2>3, <2>6, <2>7
<1>10. Prefix(r, len[r]) \in Hashes
  BY <1>6, PrefixFacts DEF Inv
<1>11. /\ kv'[b] = [prefix |-> Prefix(r, len[r]), by |-> "decode"]
       /\ \A x \in Blocks : x # b => kv'[x] = kv[x]
  BY <1>2, <1>4, <1>5 DEF BlockTypes
<1>12. [prefix |-> Prefix(r, len[r]), by |-> "decode"] # None
  <2>1. Prefix(r, len[r]) \in Seq(Nat)
    BY <1>6, PrefixFacts DEF Inv
  <2> QED BY <2>1, ContentsAreSomething DEF Writers
<1>13. Admitted' = {}
  BY <1>1, WorkloadStays DEF Admitted
<1>14. BlockTypes'
  <2>1. [prefix |-> Prefix(r, len[r]), by |-> "decode"] \in [prefix : Hashes, by : Writers]
    BY <1>10 DEF Writers
  <2>2. kv' \in [Blocks -> [prefix : Hashes, by : Writers] \cup {None}]
    BY <1>2, <1>4, <2>1 DEF BlockTypes
  <2>3. table' \in [Req -> Seq(Blocks)]
    BY <1>2, <1>4, <1>8 DEF BlockTypes
  <2> QED BY <1>1, <1>4, <1>9, <2>2, <2>3, WorkloadStays DEF BlockTypes, Writers
<1>15. slot'[r] = Prefix(r, len[r]) /\ \A x \in Req : x # r => slot'[x] = slot[x]
  <2>1. slot'[r] = Append(slot[r], Text[r][len[r]]) /\ \A x \in Req : x # r => slot'[x] = slot[x]
    BY <1>1, <1>4 DEF RequestTypes
  <2>2. Append(Prefix(r, len[r] - 1), Text[r][len[r]]) = Prefix(r, len[r])
    BY <1>6, PrefixFacts DEF Inv
  <2> QED BY <1>7, <2>1, <2>2
<1>16. len'[r] = len[r] + 1 /\ \A x \in Req : x # r => len'[x] = len[x]
  BY <1>1, <1>4 DEF RequestTypes
<1>17. RequestTypes'
  <2>1. Prefix(r, len[r]) \in Seq(Nat)
    BY <1>6, PrefixFacts DEF Inv
  <2>2. slot' \in [Req -> Seq(Nat) \cup {None}]
    BY <1>1, <1>4, <1>15, <2>1 DEF RequestTypes
  <2>3. len' \in [Req -> Nat]
    BY <1>1, <1>4, <1>6 DEF RequestTypes
  <2>4. \A x \in Req : /\ PromptLen[x] <= len'[x] /\ len'[x] <= Len(Text[x])
                       /\ phase'[x] \in {"waiting", "admitted", "preempted"} => len'[x] < Len(Text[x])
                       /\ phase'[x] = "running" => PromptLen[x] < len'[x]
    BY <1>1, <1>4, <1>6, <1>16 DEF RequestTypes
  <2> QED BY <1>1, <1>4, <2>2, <2>3, <2>4, WorkloadStays DEF RequestTypes
<1>18. StepPhases' /\ TryingSound'
  BY <1>1, <1>3, <1>4, <1>13 DEF StepPhases, TryingSound
<1>19. HeldSound'
  <2> SUFFICES ASSUME NEW x \in Req PROVE HeldBy(x)'
    BY WorkloadStays DEF HeldSound
  <2>1. \A i \in 1 .. Len(table[x]) : kv'[table[x][i]] = kv[table[x][i]]
    <3>1. \A i \in 1 .. Len(table[x]) : table[x][i] \in Blocks /\ table[x][i] # b
      BY <1>4, <1>5 DEF BlockTypes
    <3> QED BY <1>11, <3>1
  <2>2. CASE x # r
    <3>1. Pos(x)' = Pos(x)
      BY <1>1 DEF Pos
    <3> QED BY <1>1, <1>8, <1>15, <1>16, <2>1, <2>2, <3>1, HeldKept
  <2>3. CASE x = r
    <3>1. len'[r] - 1 = len[r]
      BY <1>6, <1>16
    <3>2. Len(table'[r]) = len'[r] - 1 /\ start'[r] <= len'[r] - 1 /\ slot'[r] = Prefix(r, len'[r] - 1)
      <4>1. start[r] <= len[r]
        BY <1>6, <1>7
      <4> QED BY <1>1, <1>8, <1>15, <3>1, <4>1
    <3>3. \A i \in 1 .. len[r] - 1 : /\ kv[table[r][i]] # None /\ kv[table[r][i]].prefix = Prefix(r, i)
                                     /\ i <= start[r] => kv[table[r][i]].by = "chunk"
      BY <1>1, <1>4, <1>7 DEF HeldSound, HeldBy
    <3>4. \A i \in 1 .. len[r] - 1 : kv'[table'[r][i]] = kv[table[r][i]]
      BY <1>7, <1>8, <2>1, <2>3
    <3>5. kv'[table'[r][len[r]]] # None /\ kv'[table'[r][len[r]]].prefix = Prefix(r, len[r])
      BY <1>8, <1>11, <1>12
    <3>6. \A i \in 1 .. Len(table'[r]) : i \in 1 .. len[r] - 1 \/ (i = len[r] /\ ~(i <= start[r]))
      BY <1>6, <1>7, <1>8
    <3>7. \A i \in 1 .. Len(table'[r]) :
             /\ kv'[table'[r][i]] # None /\ kv'[table'[r][i]].prefix = Prefix(r, i)
             /\ i <= start'[r] => kv'[table'[r][i]].by = "chunk"
      <4> TAKE i \in 1 .. Len(table'[r])
      <4>1. CASE i = len[r] /\ ~(i <= start[r])
        BY <1>1, <3>5, <4>1
      <4>2. CASE i \in 1 .. len[r] - 1
        <5>1. kv'[table'[r][i]] = kv[table[r][i]] /\ start'[r] = start[r]
          BY <1>1, <3>4, <4>2
        <5>2. /\ kv[table[r][i]] # None /\ kv[table[r][i]].prefix = Prefix(r, i)
              /\ i <= start[r] => kv[table[r][i]].by = "chunk"
          BY <3>3, <4>2
        <5> QED BY <5>1, <5>2
      <4> QED BY <3>6, <4>1, <4>2
    <3>8. (Prefix(r, len[r] - 1))' = Prefix(r, len'[r] - 1) /\ \A i : Prefix(r, i)' = Prefix(r, i)
      BY WorkloadStays
    <3>9. HeldBy(r)'
      BY <3>2, <3>7, <3>8 DEF HeldBy
    <3> QED BY <2>3, <3>9
  <2> QED BY <2>2, <2>3
<1>20. \A k \in Hashes : \A x \in ToSet(cached'[k]) : HoldsChunk(x, k)'
  <2> TAKE k \in Hashes
  <2> TAKE x \in ToSet(cached'[k])
  <2>1. x \in ToSet(cached[k]) /\ x # b
    BY <1>9
  <2>2. HoldsChunk(x, k)
    BY <1>1, <2>1, NobodyAdmitted
  <2>3. x \in Blocks
    <3> DEFINE c == cached[k]
    <3>1. c \in Seq(Blocks) /\ x \in ToSet(c)
      BY <1>4, <2>1 DEF BlockTypes
    <3> HIDE DEF c
    <3> QED BY <3>1, SeqElements
  <2> QED BY <1>11, <2>1, <2>2, <2>3 DEF HoldsChunk
<1> QED BY <1>3, <1>13, <1>14, <1>17, <1>18, <1>19, <1>20, NobodyAdmittedNext

-----------------------------------------------------------------------------
(* Running a prompt *)

\* The row that runs: its request is admitted, its position is how far that has been run.
LEMMA RunningRow ==
    ASSUME Inv, row # None, NEW r, NEW pos, r = row.req, pos = row.pos
    PROVE  /\ row \in [req : Req, pos : Nat] /\ r \in Admitted /\ r \in Req /\ pos \in Nat
           /\ phase[r] = "admitted" /\ Pos(r) = pos /\ pc = "model" /\ trying = None
           /\ table[r] \in Seq(Blocks) /\ Len(table[r]) = len[r] /\ len[r] \in Nat
           /\ pos <= len[r] /\ start[r] <= pos /\ start[r] \in Nat
           /\ pos % Chunk = 0 /\ scratch = Prefix(r, pos)
           /\ PromptLen[r] <= len[r] /\ len[r] < Len(Text[r]) /\ Len(Text[r]) \in Nat
<1>1. BlockTypes /\ RequestTypes /\ StepPhases /\ RowSound /\ AdmittedShape
  BY DEF Inv, BlockInv
<1>2. /\ row \in [req : Req, pos : Nat] /\ r \in Admitted /\ pos % Chunk = 0
      /\ start[r] <= pos /\ pos <= len[r] /\ scratch = Prefix(r, pos)
  BY <1>1 DEF RowSound
<1>3. r \in Req /\ pos \in Nat /\ phase[r] = "admitted"
  BY <1>2 DEF Admitted
<1>4. Pos(r) = pos /\ pc = "model" /\ trying = None
  BY <1>1 DEF Pos, StepPhases
<1>5. table[r] \in Seq(Blocks) /\ Len(table[r]) = len[r]
  BY <1>1, <1>2, <1>3 DEF BlockTypes, AdmittedShape
<1>6. /\ len[r] \in Nat /\ start[r] \in Nat
      /\ PromptLen[r] <= len[r] /\ len[r] < Len(Text[r])
  BY <1>1, <1>3 DEF RequestTypes
<1>7. Len(Text[r]) \in Nat
  BY <1>3, Workload DEF Inv
<1> QED BY <1>2, <1>3, <1>4, <1>5, <1>6, <1>7

\* A kernel writes the blocks of its tokens and no other.
LEMMA WrittenBlocks ==
    ASSUME Inv, row # None, NEW r, NEW pos, r = row.req, pos = row.pos,
           NEW to \in Nat, pos <= to, to <= len[r], NEW by \in Writers
    PROVE  /\ Written(r, pos, to, by) \in [Blocks -> [prefix : Hashes, by : Writers] \cup {None}]
           /\ \A i \in pos + 1 .. to :
                /\ Written(r, pos, to, by)[table[r][i]] # None
                /\ Written(r, pos, to, by)[table[r][i]].prefix = Prefix(r, i)
                /\ Written(r, pos, to, by)[table[r][i]].by = by
           /\ \A b \in Blocks : (\A i \in pos + 1 .. to : table[r][i] # b) => Written(r, pos, to, by)[b] = kv[b]
<1> DEFINE W == Written(r, pos, to, by)
           t == table[r]
           is(b) == CHOOSE i \in pos + 1 .. to : t[i] = b
           value(i) == [prefix |-> Prefix(r, i), by |-> by]
<1>1. /\ r \in Admitted /\ r \in Req /\ pos \in Nat /\ Pos(r) = pos /\ t \in Seq(Blocks) /\ Len(t) = len[r]
      /\ len[r] \in Nat /\ len[r] < Len(Text[r]) /\ Len(Text[r]) \in Nat
  BY RunningRow
<1>2. W = [b \in Blocks |-> IF \E i \in pos + 1 .. to : t[i] = b THEN value(is(b)) ELSE kv[b]]
  BY DEF Written
<1>3. \A i \in Pos(r) + 1 .. Len(t) : \A j \in 1 .. Len(t) : t[j] = t[i] => j = i
  BY <1>1 DEF Inv, BlockInv, PendingOwned
<1>4. kv \in [Blocks -> [prefix : Hashes, by : Writers] \cup {None}]
  BY DEF Inv, BlockInv, BlockTypes
<1> HIDE DEF W, t, is, value
<1>5. \A i \in pos + 1 .. to : i \in Pos(r) + 1 .. Len(t) /\ i \in 1 .. Len(Text[r]) /\ i \in 1 .. Len(t)
  <2> TAKE i \in pos + 1 .. to
  <2>1. /\ pos \in Nat /\ Pos(r) = pos /\ Len(t) = len[r] /\ len[r] \in Nat
        /\ len[r] < Len(Text[r]) /\ Len(Text[r]) \in Nat
    BY <1>1
  <2> DEFINE l == len[r]
             T == Len(Text[r])
  <2>2. l \in Nat /\ T \in Nat /\ l < T /\ to <= l
    BY <2>1
  <2> HIDE DEF l, T
  <2>3. i \in Nat /\ 1 <= i /\ pos + 1 <= i /\ i <= l /\ i <= T
    BY <2>1, <2>2
  <2> QED BY <2>1, <2>2, <2>3 DEF l, T
<1>6. \A i \in pos + 1 .. to : \A j \in pos + 1 .. to : t[j] = t[i] => j = i
  BY <1>3, <1>5
<1>7. \A i \in pos + 1 .. to : t[i] \in Blocks /\ Prefix(r, i) \in Hashes /\ Prefix(r, i) \in Seq(Nat)
  <2> TAKE i \in pos + 1 .. to
  <2>1. i \in 1 .. Len(t) /\ i \in 1 .. Len(Text[r]) /\ i \in 0 .. Len(Text[r])
    BY <1>1, <1>5
  <2> QED BY <1>1, <2>1, ElementOfSeq, PrefixFacts DEF Inv
<1>8. \A i \in pos + 1 .. to : /\ value(i) \in [prefix : Hashes, by : Writers] /\ value(i) # None
                               /\ value(i).prefix = Prefix(r, i) /\ value(i).by = by
  BY <1>7, ContentsAreSomething DEF value
<1>9. ASSUME NEW i \in pos + 1 .. to PROVE W[t[i]] = value(i)
  <2>1. is(t[i]) = i
    BY <1>6 DEF is
  <2> QED BY <1>2, <1>7, <2>1
<1>10. ASSUME NEW b \in Blocks, \A i \in pos + 1 .. to : t[i] # b PROVE W[b] = kv[b]
  BY <1>2, <1>10
<1>11. ASSUME NEW b \in Blocks PROVE W[b] \in [prefix : Hashes, by : Writers] \cup {None}
  <2>1. CASE \E i \in pos + 1 .. to : t[i] = b
    <3>1. PICK i \in pos + 1 .. to : t[i] = b
      BY <2>1
    <3>2. W[b] = value(i) /\ value(i) \in [prefix : Hashes, by : Writers]
      BY <1>8, <1>9, <3>1
    <3> QED BY <3>2
  <2>2. CASE ~ \E i \in pos + 1 .. to : t[i] = b
    <3>1. W[b] = kv[b]
      BY <1>10, <2>2
    <3> QED BY <1>4, <3>1
  <2> QED BY <2>1, <2>2
<1>12. W \in [Blocks -> [prefix : Hashes, by : Writers] \cup {None}]
  BY <1>2, <1>11
<1>13. \A i \in pos + 1 .. to : W[t[i]] # None /\ W[t[i]].prefix = Prefix(r, i) /\ W[t[i]].by = by
  BY <1>8, <1>9
<1> QED BY <1>10, <1>12, <1>13 DEF W, t

\* What the kernel leaves alone: the blocks of others, those already run, and the cached K/V of whole chunks.
LEMMA OthersUnwritten ==
    ASSUME Inv, row # None, NEW r, NEW pos, r = row.req, pos = row.pos,
           NEW to \in Nat, pos <= to, to <= len[r], NEW by \in Writers,
           kv' = Written(r, pos, to, by)
    PROVE  /\ \A x \in Req : x # r => \A j \in 1 .. Len(table[x]) : kv'[table[x][j]] = kv[table[x][j]]
           /\ \A j \in 1 .. pos : kv'[table[r][j]] = kv[table[r][j]]
           /\ \A b \in Blocks : ~Pending(b) => kv'[b] = kv[b]
<1>1. /\ r \in Admitted /\ r \in Req /\ pos \in Nat /\ Pos(r) = pos /\ Len(table[r]) = len[r]
      /\ len[r] \in Nat
  BY RunningRow
<1>2. \A i \in pos + 1 .. to : i \in Pos(r) + 1 .. Len(table[r])
  BY <1>1
<1>3. \A i \in pos + 1 .. to : \A x \in Req : \A j \in 1 .. Len(table[x]) :
          table[x][j] = table[r][i] => x = r /\ j = i
  BY <1>1, <1>2 DEF Inv, BlockInv, PendingOwned
<1>4. \A x \in Req : \A j \in 1 .. Len(table[x]) : table[x][j] \in Blocks
  <2> TAKE x \in Req
  <2>1. table[x] \in Seq(Blocks)
    BY DEF Inv, BlockInv, BlockTypes
  <2> QED BY <2>1, ElementOfSeq
<1>5. \A b \in Blocks : (\A i \in pos + 1 .. to : table[r][i] # b) => kv'[b] = kv[b]
  BY WrittenBlocks
<1>6. ASSUME NEW x \in Req, NEW j \in 1 .. Len(table[x]), x # r \/ ~(j \in pos + 1 .. to)
      PROVE  kv'[table[x][j]] = kv[table[x][j]]
  BY <1>3, <1>4, <1>5, <1>6
<1>7. \A j \in 1 .. pos : j \in 1 .. Len(table[r]) /\ ~(j \in pos + 1 .. to)
  <2>1. pos <= Len(table[r])
    BY <1>1
  <2> QED BY <1>1, <2>1
<1>8. \A b \in Blocks : ~Pending(b) => kv'[b] = kv[b]
  BY <1>1, <1>2, <1>5 DEF Pending
<1> QED BY <1>1, <1>6, <1>7, <1>8

LEMMA RunChunkBlocks ==
    ASSUME Inv, RunChunk, load' = load
    PROVE  BlockInv'
<1>1. row # None
  BY DEF RunChunk
<1>2. PICK r : r = row.req
  OBVIOUS
<1>3. PICK pos : pos = row.pos
  OBVIOUS
<1>4. PICK end : end = pos + Chunk
  OBVIOUS
<1>5. /\ row # None /\ end <= len[r] /\ pc' = pc /\ killed' = killed /\ sameStep' = sameStep /\ cached' = cached
      /\ table' = table /\ phase' = phase /\ len' = len /\ start' = start /\ trying' = trying /\ slot' = slot
      /\ kv' = Written(r, pos, end, "chunk") /\ row' = [row EXCEPT !.pos = end]
      /\ scratch' = scratch \o SubSeq(Text[r], pos + 1, end)
  BY <1>2, <1>3, <1>4 DEF RunChunk, requests
<1>6. /\ row \in [req : Req, pos : Nat] /\ r \in Admitted /\ r \in Req /\ pos \in Nat
      /\ phase[r] = "admitted" /\ Pos(r) = pos /\ pc = "model" /\ trying = None
      /\ table[r] \in Seq(Blocks) /\ Len(table[r]) = len[r] /\ len[r] \in Nat
      /\ pos <= len[r] /\ start[r] <= pos /\ start[r] \in Nat
      /\ pos % Chunk = 0 /\ scratch = Prefix(r, pos)
      /\ len[r] < Len(Text[r]) /\ Len(Text[r]) \in Nat
  BY <1>1, <1>2, <1>3, RunningRow
<1>7. end \in Nat /\ pos < end /\ pos <= end /\ end % Chunk = 0
  <2>1. Chunk \in Nat /\ Chunk # 0
    BY Workload DEF Inv
  <2>2. (pos + Chunk) % Chunk = 0
    BY <1>6, Chunks DEF Inv
  <2> QED BY <1>6, <1>4, <2>1, <2>2
<1>8. BlockTypes /\ RequestTypes /\ StepPhases /\ PendingOwned /\ CachedSound
  BY DEF Inv, BlockInv
<1>9. row'.req = r /\ row'.pos = end /\ row' \in [req : Req, pos : Nat] /\ row' # None
  <2>1. row' \in [req : Req, pos : Nat] /\ row'.req = r /\ row'.pos = end
    BY <1>5, <1>6, <1>7, <1>2
  <2>2. None \notin [req : Req, pos : Nat]
    BY NoneAssumption DEF Inv, Req
  <2> QED BY <2>1, <2>2
<1>10. Admitted' = Admitted /\ Pos(r)' = end /\ \A x : x # r => Pos(x)' = Pos(x)
  BY <1>5, <1>9, <1>2, WorkloadStays DEF Admitted, Pos
<1>11. /\ kv' \in [Blocks -> [prefix : Hashes, by : Writers] \cup {None}]
       /\ \A i \in pos + 1 .. end : /\ kv'[table[r][i]] # None /\ kv'[table[r][i]].prefix = Prefix(r, i)
                                    /\ kv'[table[r][i]].by = "chunk"
  <2>1. end <= len[r] /\ kv' = Written(r, pos, end, "chunk") /\ "chunk" \in Writers
    BY <1>5 DEF Writers
  <2> QED BY <1>1, <1>7, <1>2, <1>3, <2>1, WrittenBlocks
<1>12. /\ \A x \in Req : x # r => \A j \in 1 .. Len(table[x]) : kv'[table[x][j]] = kv[table[x][j]]
       /\ \A j \in 1 .. pos : kv'[table[r][j]] = kv[table[r][j]]
       /\ \A b \in Blocks : ~Pending(b) => kv'[b] = kv[b]
  <2>1. end <= len[r] /\ kv' = Written(r, pos, end, "chunk") /\ "chunk" \in Writers
    BY <1>5 DEF Writers
  <2> QED BY <1>1, <1>7, <1>2, <1>3, <2>1, OthersUnwritten
<1>13. BlockTypes'
  BY <1>5, <1>8, <1>11, WorkloadStays DEF BlockTypes, Writers
<1>14. RequestTypes'
  BY <1>5, <1>8, WorkloadStays DEF RequestTypes
<1>15. StepPhases' /\ TryingSound'
  BY <1>5, <1>6, <1>8, <1>10 DEF StepPhases, TryingSound
<1>16. AdmittedShape' /\ HitsCached' /\ PromptsCached'
  BY <1>5, <1>10, WorkloadStays DEF Inv, BlockInv, AdmittedShape, HitsCached, PromptsCached
<1>17. RowSound'
  <2>1. scratch' = Prefix(r, end)
    <3>1. pos \in 0 .. Len(Text[r]) /\ end \in pos .. Len(Text[r])
      BY <1>5, <1>6, <1>7
    <3>2. Prefix(r, pos) \o SubSeq(Text[r], pos + 1, end) = Prefix(r, end)
      BY <1>6, <3>1, PrefixFacts DEF Inv
    <3> QED BY <1>5, <1>6, <3>2
  <2>2. start[r] <= end
    BY <1>6, <1>7
  <2> QED BY <1>5, <1>6, <1>7, <1>9, <1>10, <2>1, <2>2, WorkloadStays DEF RowSound
<1>18. HeldSound'
  <2> SUFFICES ASSUME NEW x \in Req PROVE HeldBy(x)'
    BY WorkloadStays DEF HeldSound
  <2>1. CASE x # r
    BY <1>5, <1>10, <1>12, <2>1, HeldKept
  <2>2. CASE x = r
    <3>1. \A i \in 1 .. Len(table[r]) : /\ i <= pos => kv[table[r][i]] # None /\ kv[table[r][i]].prefix = Prefix(r, i)
                                        /\ i <= start[r] => kv[table[r][i]].by = "chunk"
      BY <1>6 DEF Inv, BlockInv, HeldSound, HeldBy
    <3>2. \A i \in 1 .. Len(table[r]) :
             /\ i <= end => kv'[table[r][i]] # None /\ kv'[table[r][i]].prefix = Prefix(r, i)
             /\ i <= start[r] => kv'[table[r][i]].by = "chunk"
      <4> TAKE i \in 1 .. Len(table[r])
      <4>1. CASE i <= pos
        <5>1. kv'[table[r][i]] = kv[table[r][i]]
          BY <1>6, <1>12, <4>1
        <5> QED BY <3>1, <4>1, <5>1
      <4>2. CASE pos < i /\ i <= end
        <5>1. i \in pos + 1 .. end
          BY <1>6, <1>7, <4>2
        <5> QED BY <1>11, <5>1
      <4>3. CASE end < i
        BY <1>6, <1>7, <4>3
      <4> QED BY <1>6, <1>7, <4>1, <4>2, <4>3
    <3>3. phase'[r] = "admitted" /\ table'[r] = table[r] /\ start'[r] = start[r]
      BY <1>5, <1>6
    <3>4. HeldBy(r)'
      BY <1>10, <3>2, <3>3, WorkloadStays DEF HeldBy
    <3> QED BY <2>2, <3>4
  <2> QED BY <2>1, <2>2
<1>19. \A x \in Admitted : \A i \in Pos(x)' + 1 .. Len(table[x]) : i \in Pos(x) + 1 .. Len(table[x])
  <2> TAKE x \in Admitted
  <2> TAKE i \in Pos(x)' + 1 .. Len(table[x])
  <2>1. CASE x = r
    <3>1. i \in end + 1 .. Len(table[x]) /\ Len(table[x]) \in Nat
      BY <1>6, <1>10, <2>1
    <3>2. i \in pos + 1 .. Len(table[x])
      BY <1>6, <1>7, <3>1
    <3> QED BY <1>6, <2>1, <3>2
  <2>2. CASE x # r
    BY <1>10, <2>2
  <2> QED BY <2>1, <2>2
<1>20. PendingOwned'
  BY <1>5, <1>8, <1>10, <1>19, WorkloadStays DEF PendingOwned
<1>21. \A b : Pending(b)' => Pending(b)
  BY <1>5, <1>10, <1>19 DEF Pending
<1>22. CachedSound'
  <2> SUFFICES ASSUME NEW k \in Hashes, NEW b \in ToSet(cached[k])
               PROVE  \/ HoldsChunk(b, k)' /\ ~Pending(b)'
                      \/ /\ b \in sameStep
                         /\ \E x \in Admitted : \E i \in Pos(x)' + 1 .. Len(table[x]) :
                              b = table[x][i] /\ k = Prefix(x, i) /\ i <= Floor(PromptLen[x])
    BY <1>5, <1>10, WorkloadStays DEF CachedSound
  <2>1. b \in Blocks
    <3> DEFINE c == cached[k]
    <3>1. c \in Seq(Blocks) /\ b \in ToSet(c)
      BY <1>8 DEF BlockTypes
    <3> HIDE DEF c
    <3> QED BY <3>1, SeqElements
  <2>2. CASE HoldsChunk(b, k) /\ ~Pending(b)
    <3>1. kv'[b] = kv[b]
      BY <1>12, <2>1, <2>2, Zenon
    <3>2. ~Pending(b)'
      BY <1>21, <2>2
    <3> QED BY <2>2, <3>1, <3>2 DEF HoldsChunk
  <2>3. CASE ~(HoldsChunk(b, k) /\ ~Pending(b))
    <3>1. b \in sameStep /\ \E x \in Admitted : \E i \in Pos(x) + 1 .. Len(table[x]) :
                              b = table[x][i] /\ k = Prefix(x, i) /\ i <= Floor(PromptLen[x])
      BY <1>8, <2>3 DEF CachedSound
    <3>2. PICK x \in Admitted : \E i \in Pos(x) + 1 .. Len(table[x]) :
              b = table[x][i] /\ k = Prefix(x, i) /\ i <= Floor(PromptLen[x])
      BY <3>1
    <3>3. PICK i \in Pos(x) + 1 .. Len(table[x]) : b = table[x][i] /\ k = Prefix(x, i) /\ i <= Floor(PromptLen[x])
      BY <3>2
    <3>4. CASE x # r
      BY <1>10, <3>1, <3>3, <3>4
    <3>5. CASE x = r /\ i > end
      <4>1. i \in Pos(r)' + 1 .. Len(table[r])
        <5>1. i \in Pos(r) + 1 .. Len(table[r])
          BY <3>5
        <5>2. i \in end + 1 .. Len(table[r])
          BY <1>6, <1>7, <3>5, <5>1
        <5> QED BY <1>10, <5>2
      <4> QED BY <1>6, <3>1, <3>3, <3>5, <4>1
    <3>6. CASE x = r /\ i <= end
      <4>1. i \in pos + 1 .. end
        BY <1>6, <1>7, <3>3, <3>6
      <4>2. HoldsChunk(b, k)'
        BY <1>11, <3>3, <3>6, <4>1 DEF HoldsChunk
      <4>3. ~Pending(b)'
        <5>1. \A y \in Req : \A j \in 1 .. Len(table[y]) : table[y][j] = b => y = r /\ j = i
          BY <1>8, <3>3, <3>6 DEF PendingOwned
        <5> SUFFICES ASSUME NEW y \in Admitted, NEW j \in Pos(y)' + 1 .. Len(table[y]), table[y][j] = b PROVE FALSE
          BY <1>5, <1>10 DEF Pending
        <5>2. j \in 1 .. Len(table[y]) /\ y \in Req
          <6>1. Pos(y) \in Nat /\ j \in Pos(y) + 1 .. Len(table[y]) /\ y \in Req
            BY <1>8, <1>19, RunningRow DEF Pos, RequestTypes, Admitted
          <6> QED BY <6>1
        <5>3. y = r /\ j = i
          BY <5>1, <5>2
        <5>4. i \in end + 1 .. Len(table[r])
          BY <1>10, <5>3
        <5> QED BY <1>6, <1>7, <3>6, <4>1, <5>4
      <4> QED BY <4>2, <4>3
    <3> QED BY <1>6, <1>7, <3>3, <3>4, <3>5, <3>6
  <2> QED BY <2>2, <2>3
<1> QED BY <1>13, <1>14, <1>15, <1>16, <1>17, <1>18, <1>20, <1>22 DEF BlockInv

LEMMA RunTailBlocks ==
    ASSUME Inv, RunTail, load' = load
    PROVE  BlockInv'
<1>1. row # None
  BY DEF RunTail
<1>2. PICK r : r = row.req
  OBVIOUS
<1>3. PICK pos : pos = row.pos
  OBVIOUS
<1>4. PICK end : end = len[r]
  OBVIOUS
<1>5. /\ end < pos + Chunk /\ pc' = pc /\ killed' = killed /\ sameStep' = sameStep /\ cached' = cached
      /\ table' = table /\ start' = start /\ trying' = trying /\ row' = None
      /\ kv' = Written(r, pos, end, "tail") /\ scratch' = scratch \o SubSeq(Text[r], pos + 1, end)
      /\ slot' = [slot EXCEPT ![r] = scratch'] /\ phase' = [phase EXCEPT ![r] = "running"]
      /\ len' = [len EXCEPT ![r] = @ + 1]
  <2>1. pos + Chunk > len[r]
    BY <1>2, <1>3 DEF RunTail
  <2>2. len[r] \in Nat /\ pos \in Nat /\ Chunk \in Nat
    BY <1>1, <1>2, <1>3, RunningRow, Workload DEF Inv
  <2>3. end < pos + Chunk
    BY <1>4, <2>1, <2>2
  <2> QED BY <1>2, <1>3, <1>4, <2>3 DEF RunTail, registry
<1>6. /\ row \in [req : Req, pos : Nat] /\ r \in Admitted /\ r \in Req /\ pos \in Nat
      /\ phase[r] = "admitted" /\ Pos(r) = pos /\ pc = "model" /\ trying = None
      /\ table[r] \in Seq(Blocks) /\ Len(table[r]) = end /\ end \in Nat
      /\ pos <= end /\ start[r] <= pos /\ start[r] \in Nat
      /\ pos % Chunk = 0 /\ scratch = Prefix(r, pos)
      /\ end < Len(Text[r]) /\ Len(Text[r]) \in Nat /\ PromptLen[r] <= end
  BY <1>1, <1>2, <1>3, <1>4, RunningRow
<1>7. BlockTypes /\ RequestTypes /\ StepPhases /\ PendingOwned /\ CachedSound
  BY DEF Inv, BlockInv
<1>8. /\ phase'[r] = "running" /\ len'[r] = end + 1 /\ slot'[r] = scratch'
      /\ \A x \in Req : x # r => phase'[x] = phase[x] /\ len'[x] = len[x] /\ slot'[x] = slot[x]
  BY <1>5, <1>6, <1>7, <1>4 DEF RequestTypes
<1>9. /\ \A x : x \in Admitted' <=> x \in Admitted /\ x # r
      /\ \A x : x # r => Pos(x)' = Pos(x)
  <2>1. \A x \in Req : phase'[x] = "admitted" <=> phase[x] = "admitted" /\ x # r
    BY <1>6, <1>8
  <2>2. \A x : x \in Admitted' <=> x \in Admitted /\ x # r
    BY <2>1, WorkloadStays DEF Admitted
  <2>3. \A x : x # r => Pos(x)' = Pos(x)
    BY <1>5, <1>2 DEF Pos
  <2> QED BY <2>2, <2>3
<1>10. /\ kv' \in [Blocks -> [prefix : Hashes, by : Writers] \cup {None}]
       /\ \A i \in pos + 1 .. end : kv'[table[r][i]] # None /\ kv'[table[r][i]].prefix = Prefix(r, i)
  <2>1. end <= len[r] /\ kv' = Written(r, pos, end, "tail") /\ "tail" \in Writers
    BY <1>5, <1>6, <1>4 DEF Writers
  <2> QED BY <1>6, <1>1, <1>2, <1>3, <2>1, WrittenBlocks
<1>11. /\ \A x \in Req : x # r => \A j \in 1 .. Len(table[x]) : kv'[table[x][j]] = kv[table[x][j]]
       /\ \A j \in 1 .. pos : kv'[table[r][j]] = kv[table[r][j]]
       /\ \A b \in Blocks : ~Pending(b) => kv'[b] = kv[b]
  <2>1. end <= len[r] /\ kv' = Written(r, pos, end, "tail") /\ "tail" \in Writers
    BY <1>5, <1>6, <1>4 DEF Writers
  <2> QED BY <1>6, <1>1, <1>2, <1>3, <2>1, OthersUnwritten
<1>12. scratch' = Prefix(r, end) /\ Prefix(r, end) \in Seq(Nat)
  <2>1. pos \in 0 .. Len(Text[r]) /\ end \in pos .. Len(Text[r]) /\ end \in 0 .. Len(Text[r])
    BY <1>6
  <2>2. \A m \in 0 .. Len(Text[r]) : \A n \in m .. Len(Text[r]) :
            Prefix(r, m) \o SubSeq(Text[r], m + 1, n) = Prefix(r, n)
    BY <1>6, PrefixFacts DEF Inv
  <2>3. Prefix(r, pos) \o SubSeq(Text[r], pos + 1, end) = Prefix(r, end)
    BY <2>1, <2>2, Zenon
  <2>4. Prefix(r, end) \in Seq(Nat)
    BY <1>6, <2>1, PrefixFacts DEF Inv
  <2> QED BY <1>5, <1>6, <2>3, <2>4
<1>13. BlockTypes'
  BY <1>5, <1>7, <1>10, WorkloadStays DEF BlockTypes, Writers
<1>14. RequestTypes'
  <2>1. /\ phase' \in [Req -> {"waiting", "admitted", "running", "preempted", "done"}]
        /\ slot' \in [Req -> Seq(Nat) \cup {None}]
    BY <1>5, <1>7, <1>12 DEF RequestTypes
  <2>2. len[r] + 1 \in Nat
    BY <1>6, <1>4
  <2>3. len' \in [Req -> Nat]
    BY <1>5, <1>7, <2>2 DEF RequestTypes
  <2>4. PromptLen[r] \in Nat
    BY <1>6, Workload DEF Inv
  <2>5. \A x \in Req : /\ PromptLen[x] <= len'[x] /\ len'[x] <= Len(Text[x])
                       /\ phase'[x] \in {"waiting", "admitted", "preempted"} => len'[x] < Len(Text[x])
                       /\ phase'[x] = "running" => PromptLen[x] < len'[x]
    <3> TAKE x \in Req
    <3>1. CASE x = r
      BY <1>6, <1>8, <2>4, <3>1
    <3>2. CASE x # r
      BY <1>7, <1>8, <3>2 DEF RequestTypes
    <3> QED BY <3>1, <3>2
  <2> QED BY <1>5, <1>7, <2>1, <2>3, <2>5, WorkloadStays DEF RequestTypes
<1>15. StepPhases' /\ TryingSound' /\ RowSound'
  BY <1>5, <1>6, <1>7 DEF StepPhases, TryingSound, RowSound
<1>16. \A x \in Admitted : x # r => x \in Req /\ table'[x] = table[x] /\ len'[x] = len[x] /\ start'[x] = start[x]
  BY <1>5, <1>8 DEF Admitted
<1>17. AdmittedShape'
  BY <1>9, <1>16, WorkloadStays DEF Inv, BlockInv, AdmittedShape
<1>18. HitsCached'
  BY <1>5, <1>9, <1>16, WorkloadStays DEF Inv, BlockInv, HitsCached
<1>19. PromptsCached'
  BY <1>5, <1>9, <1>16, WorkloadStays DEF Inv, BlockInv, PromptsCached
<1>20. HeldSound'
  <2> SUFFICES ASSUME NEW x \in Req PROVE HeldBy(x)'
    BY WorkloadStays DEF HeldSound
  <2>1. CASE x # r
    BY <1>5, <1>8, <1>9, <1>11, <2>1, HeldKept
  <2>2. CASE x = r
    <3>1. \A i \in 1 .. Len(table[r]) : /\ i <= pos => kv[table[r][i]] # None /\ kv[table[r][i]].prefix = Prefix(r, i)
                                        /\ i <= start[r] => kv[table[r][i]].by = "chunk"
      BY <1>6 DEF Inv, BlockInv, HeldSound, HeldBy
    <3>2. \A i \in 1 .. end : /\ kv'[table[r][i]] # None /\ kv'[table[r][i]].prefix = Prefix(r, i)
                              /\ i <= start[r] => kv'[table[r][i]].by = "chunk"
      <4> TAKE i \in 1 .. end
      <4>1. CASE i <= pos
        <5>1. kv'[table[r][i]] = kv[table[r][i]] /\ i \in 1 .. Len(table[r])
          BY <1>6, <1>11, <4>1
        <5> QED BY <3>1, <4>1, <5>1
      <4>2. CASE pos < i
        <5>1. i \in pos + 1 .. end /\ ~(i <= start[r])
          BY <1>6, <4>2
        <5> QED BY <1>10, <5>1
      <4> QED BY <1>6, <4>1, <4>2
    <3>3. len'[r] - 1 = end /\ table'[r] = table[r] /\ start'[r] = start[r] /\ slot'[r] = Prefix(r, end)
      <4>1. end + 1 - 1 = end
        BY <1>6
      <4>2. slot'[r] = Prefix(r, end)
        BY <1>8, <1>12
      <4>3. table' = table /\ start' = start /\ len'[r] = end + 1
        BY <1>5, <1>8
      <4>4. len'[r] - 1 = end
        BY <1>6, <4>3
      <4>5. table'[r] = table[r] /\ start'[r] = start[r]
        BY <4>3
      <4> QED BY <4>2, <4>4, <4>5
    <3>4. Len(table'[r]) = len'[r] - 1 /\ start'[r] <= len'[r] - 1 /\ slot'[r] = Prefix(r, len'[r] - 1)
      BY <1>6, <3>3
    <3>5. \A i \in 1 .. Len(table'[r]) :
             /\ kv'[table'[r][i]] # None /\ kv'[table'[r][i]].prefix = Prefix(r, i)
             /\ i <= start'[r] => kv'[table'[r][i]].by = "chunk"
      BY <1>6, <3>2, <3>3
    <3>6. (Prefix(r, len[r] - 1))' = Prefix(r, len'[r] - 1) /\ \A i : Prefix(r, i)' = Prefix(r, i)
      BY WorkloadStays
    <3>7. HeldBy(r)'
      BY <3>4, <3>5, <3>6 DEF HeldBy
    <3> QED BY <2>2, <3>7
  <2> QED BY <2>1, <2>2
<1>21. PendingOwned'
  <2>1. \A x \in Admitted : x # r => Pos(x)' = Pos(x)
    BY <1>9
  <2> QED BY <1>5, <1>7, <1>9, <2>1, WorkloadStays DEF PendingOwned
<1>22. \A b : Pending(b)' => Pending(b)
  BY <1>5, <1>9 DEF Pending
<1>23. CachedSound'
  <2> SUFFICES ASSUME NEW k \in Hashes, NEW b \in ToSet(cached[k])
               PROVE  \/ HoldsChunk(b, k)' /\ ~Pending(b)'
                      \/ /\ b \in sameStep
                         /\ \E x \in Admitted' : \E i \in Pos(x)' + 1 .. Len(table[x]) :
                              b = table[x][i] /\ k = Prefix(x, i) /\ i <= Floor(PromptLen[x])
    BY <1>5, WorkloadStays DEF CachedSound
  <2>1. b \in Blocks
    <3> DEFINE c == cached[k]
    <3>1. c \in Seq(Blocks) /\ b \in ToSet(c)
      BY <1>7 DEF BlockTypes
    <3> HIDE DEF c
    <3> QED BY <3>1, SeqElements
  <2>2. CASE HoldsChunk(b, k) /\ ~Pending(b)
    <3>1. kv'[b] = kv[b]
      BY <1>11, <2>1, <2>2, Zenon
    <3>2. ~Pending(b)'
      BY <1>22, <2>2
    <3> QED BY <2>2, <3>1, <3>2 DEF HoldsChunk
  <2>3. CASE ~(HoldsChunk(b, k) /\ ~Pending(b))
    <3>1. b \in sameStep /\ \E x \in Admitted : \E i \in Pos(x) + 1 .. Len(table[x]) :
                              b = table[x][i] /\ k = Prefix(x, i) /\ i <= Floor(PromptLen[x])
      BY <1>7, <2>3 DEF CachedSound
    <3>2. PICK x \in Admitted : \E i \in Pos(x) + 1 .. Len(table[x]) :
              b = table[x][i] /\ k = Prefix(x, i) /\ i <= Floor(PromptLen[x])
      BY <3>1
    <3>3. PICK i \in Pos(x) + 1 .. Len(table[x]) : b = table[x][i] /\ k = Prefix(x, i) /\ i <= Floor(PromptLen[x])
      BY <3>2
    <3>4. x # r
      <4> SUFFICES ASSUME x = r PROVE FALSE
        OBVIOUS
      <4>1. PromptLen[r] \in Nat /\ Chunk \in Nat
        BY <1>6, Workload DEF Inv
      <4>2. PromptLen[r] < pos + Chunk
        BY <1>5, <1>6, <4>1
      <4>3. Floor(PromptLen[r]) <= pos
        BY <1>6, <4>1, <4>2, Chunks DEF Inv
      <4>4. Floor(PromptLen[r]) \in Int
        BY <1>6, PromptChunks DEF Inv
      <4>5. i \in pos + 1 .. end
        BY <1>6
      <4> QED BY <1>6, <3>3, <4>3, <4>4, <4>5
    <3> QED BY <1>9, <3>1, <3>3, <3>4
  <2> QED BY <2>2, <2>3
<1> QED BY <1>13, <1>14, <1>15, <1>17, <1>18, <1>19, <1>20, <1>21, <1>23 DEF BlockInv

-----------------------------------------------------------------------------
(* Admitting a request *)

\* What Admit does to request r with this hit, taking the blocks of S.
AdmitsWith(r, hit, S) ==
    /\ r = trying.req /\ hit = trying.hit /\ r \in Req /\ hit \in Seq(Blocks) /\ trying # None
    /\ pc = "schedule" /\ row = None /\ phase[r] \in {"waiting", "preempted"}
    /\ S \subseteq FreeBlocks /\ S \subseteq Blocks /\ S \cap ToSet(hit) = {}
    /\ len[r] \in Nat /\ Len(hit) \in Nat /\ Len(hit) < len[r] /\ len[r] < Len(Text[r]) /\ Len(Text[r]) \in Nat
    /\ Len(hit) % Chunk = 0
    /\ \A i \in 1 .. Len(hit) : hit[i] \in ToSet(cached[Prefix(r, i)]) /\ hit[i] \notin sameStep
    /\ table' \in [Req -> Seq(Blocks)] /\ Len(table'[r]) = len[r] /\ \A x \in Req : x # r => table'[x] = table[x]
    /\ \A i \in 1 .. Len(hit) : table'[r][i] = hit[i]
    /\ \A i \in Len(hit) + 1 .. len[r] : table'[r][i] \in S
    /\ \A i, j \in Len(hit) + 1 .. len[r] : table'[r][i] = table'[r][j] => i = j
    /\ cached' \in [Hashes -> Seq(Blocks)]
    /\ \A k \in Hashes : \A b :
         b \in ToSet(cached'[k]) <=>
           \/ b \in ToSet(cached[k]) /\ b \notin S
           \/ \E i \in Len(hit) + 1 .. len[r] : i <= CapLimit(r) /\ k = Prefix(r, i) /\ b = table'[r][i]
    /\ \A b : b \in sameStep' <=>
                \/ b \in sameStep
                \/ \E i \in Len(hit) + 1 .. len[r] : i <= CapLimit(r) /\ b = table'[r][i]
    /\ entries' = Coupled(S)
    /\ phase' = [phase EXCEPT ![r] = "admitted"] /\ start' = [start EXCEPT ![r] = Len(hit)] /\ trying' = None
    /\ pc' = pc /\ ckpt' = ckpt /\ killed' = killed /\ staged' = staged /\ committed' = committed
    /\ kv' = kv /\ len' = len /\ row' = row /\ scratch' = scratch /\ slot' = slot

LEMMA AdmitEffect ==
    ASSUME Inv, Admit, load' = load
    PROVE  \E r, hit, S : AdmitsWith(r, hit, S)
<1>1. trying # None
  BY DEF Admit
<1>2. PICK r : r = trying.req
  OBVIOUS
<1>3. PICK hit : hit = trying.hit
  OBVIOUS
<1>4. PICK q : q = Len(hit)
  OBVIOUS
<1>5. PICK n : n = len[r]
  OBVIOUS
<1>6. PICK S \in SUBSET (FreeBlocks \ ToSet(hit)) :
        /\ Cardinality(S) = n - q
        /\ table' = [table EXCEPT ![r] = hit \o InOrder(S)]
        /\ entries' = Coupled(S)
        /\ cached' = Publish(Evicted(S), r, table'[r], q, n)
        /\ sameStep' = sameStep \cup Published(r, table'[r], q, n)
  BY <1>2, <1>3, <1>4, <1>5, Zenon DEF Admit
<1>7. /\ phase' = [phase EXCEPT ![r] = "admitted"] /\ start' = [start EXCEPT ![r] = q] /\ trying' = None
      /\ pc' = pc /\ ckpt' = ckpt /\ killed' = killed /\ staged' = staged /\ committed' = committed
      /\ kv' = kv /\ len' = len /\ row' = row /\ scratch' = scratch /\ slot' = slot
  BY <1>2, <1>3, <1>4 DEF Admit, model
<1>8. BlockTypes /\ RequestTypes /\ StepPhases /\ TryingSound
  BY DEF Inv, BlockInv
<1>9. /\ r \in Req /\ hit \in Seq(Blocks) /\ phase[r] \in {"waiting", "preempted"} /\ q < n /\ q % Chunk = 0
      /\ \A i \in 1 .. q : hit[i] \in ToSet(cached[Prefix(r, i)]) /\ hit[i] \notin sameStep
  <2>1. \A i : Prefix(trying.req, i) = Prefix(r, i)
    BY <1>2
  <2> QED BY <1>8, <1>1, <1>2, <1>3, <1>4, <1>5, <2>1 DEF TryingSound
<1>10. q \in Nat /\ n \in Nat /\ n < Len(Text[r]) /\ Len(Text[r]) \in Nat
  <2>1. n \in Nat /\ n < Len(Text[r])
    BY <1>8, <1>9, <1>5 DEF RequestTypes
  <2>2. Len(Text[r]) \in Nat
    BY <1>9, Workload DEF Inv
  <2>3. q \in Nat
    BY <1>9, <1>4, LenProperties
  <2> QED BY <2>1, <2>2, <2>3
<1>11. pc = "schedule" /\ row = None
  BY <1>8, <1>1 DEF StepPhases
<1>12. S \subseteq FreeBlocks /\ S \subseteq Blocks /\ S \cap ToSet(hit) = {}
  BY FreeIsUnheld
<1>13. S \in SUBSET Nat /\ IsFiniteSet(S)
  <2>1. Blocks \subseteq Nat /\ IsFiniteSet(Blocks)
    BY Workload DEF Inv
  <2> QED BY <1>12, <2>1, FS_Subset
<1>14. PICK fresh : fresh = InOrder(S)
  OBVIOUS
<1>15. /\ fresh \in Seq(S) /\ Len(fresh) = n - q
       /\ \A i, j \in 1 .. n - q : fresh[i] = fresh[j] => i = j
       /\ \A i \in 1 .. n - q : fresh[i] \in S
  BY <1>6, <1>13, <1>14, InOrderLists
<1>16. PICK t : t = hit \o fresh
  OBVIOUS
<1>17. fresh \in Seq(Blocks)
  BY <1>12, <1>15, SeqMonotonic
<1>18. /\ t \in Seq(Blocks) /\ Len(t) = q + (n - q)
       /\ \A i \in 1 .. q + (n - q) : t[i] = IF i <= q THEN hit[i] ELSE fresh[i - q]
  BY <1>9, <1>15, <1>16, <1>17, <1>4, ConcatProperties
<1>19. Len(t) = n /\ \A i \in 1 .. q : t[i] = hit[i]
  BY <1>10, <1>9, <1>18
<1>20. \A i \in q + 1 .. n : t[i] = fresh[i - q] /\ i - q \in 1 .. n - q
  <2> TAKE i \in q + 1 .. n
  <2>1. i \in 1 .. q + (n - q) /\ ~(i <= q) /\ i - q \in 1 .. n - q
    BY <1>10
  <2>2. t[i] = IF i <= q THEN hit[i] ELSE fresh[i - q]
    BY <1>18, <2>1
  <2> QED BY <2>1, <2>2
<1>21. \A i \in q + 1 .. n : t[i] \in S
  BY <1>15, <1>20
<1>22. \A i, j \in q + 1 .. n : t[i] = t[j] => i = j
  <2> TAKE i, j \in q + 1 .. n
  <2> HAVE t[i] = t[j]
  <2>1. fresh[i - q] = fresh[j - q] /\ i - q \in 1 .. n - q /\ j - q \in 1 .. n - q
    BY <1>20
  <2>2. i - q = j - q
    BY <1>15, <2>1
  <2> QED BY <1>10, <2>2
<1>23. table'[r] = t /\ table' \in [Req -> Seq(Blocks)] /\ \A x \in Req : x # r => table'[x] = table[x]
  BY <1>6, <1>8, <1>9, <1>14, <1>16, <1>18 DEF BlockTypes
<1>24. /\ cached' \in [Hashes -> Seq(Blocks)]
       /\ \A k \in Hashes : \A b :
            b \in ToSet(cached'[k]) <=>
              \/ b \in ToSet(cached[k]) /\ b \notin S
              \/ \E i \in q + 1 .. n : i <= CapLimit(r) /\ k = Prefix(r, i) /\ b = t[i]
  <2>1. PICK c : c = Evicted(S)
    OBVIOUS
  <2>2. c \in [Hashes -> Seq(Blocks)] /\ \A k \in Hashes : ToSet(c[k]) = ToSet(cached[k]) \ S
    BY <2>1, EvictedDrops
  <2>3. n <= Len(t) /\ n <= Len(Text[r])
    BY <1>10, <1>19
  <2>4. cached' = Publish(c, r, t, q, n)
    BY <1>6, <1>23, <2>1
  <2>5. /\ cached' \in [Hashes -> Seq(Blocks)]
        /\ \A k \in Hashes : \A b : b \in ToSet(cached'[k]) <=>
               \/ b \in ToSet(c[k])
               \/ \E i \in q + 1 .. n : i <= CapLimit(r) /\ k = Prefix(r, i) /\ b = t[i]
    <3>1. /\ r \in Req /\ c \in [Hashes -> Seq(Blocks)] /\ t \in Seq(Blocks) /\ q \in Nat /\ n \in Nat
          /\ n <= Len(t) /\ n <= Len(Text[r])
      BY <1>9, <1>10, <1>18, <2>2, <2>3
    <3>2. Adds(Publish(c, r, t, q, n), c, r, t, q, n)
      BY <3>1, PublishAdds
    <3>3. Adds(cached', c, r, t, q, n)
      BY <2>4, <3>2
    <3> QED BY <3>3 DEF Adds
  <2> QED BY <2>2, <2>5
<1>25. \A b : b \in sameStep' <=> b \in sameStep \/ \E i \in q + 1 .. n : i <= CapLimit(r) /\ b = t[i]
  BY <1>6, <1>23 DEF Published
<1>26. AdmitsWith(r, hit, S)
  <2>1. q = Len(hit) /\ n = len[r] /\ table'[r] = t
    BY <1>23, <1>4, <1>5
  <2>2. /\ len[r] \in Nat /\ Len(hit) \in Nat /\ Len(hit) < len[r] /\ len[r] < Len(Text[r]) /\ Len(Text[r]) \in Nat
        /\ Len(hit) % Chunk = 0
        /\ \A i \in 1 .. Len(hit) : hit[i] \in ToSet(cached[Prefix(r, i)]) /\ hit[i] \notin sameStep
    BY <1>9, <1>10, <2>1
  <2>3. /\ table' \in [Req -> Seq(Blocks)] /\ Len(table'[r]) = len[r] /\ \A x \in Req : x # r => table'[x] = table[x]
        /\ \A i \in 1 .. Len(hit) : table'[r][i] = hit[i]
        /\ \A i \in Len(hit) + 1 .. len[r] : table'[r][i] \in S
        /\ \A i, j \in Len(hit) + 1 .. len[r] : table'[r][i] = table'[r][j] => i = j
    BY <1>19, <1>21, <1>22, <1>23, <2>1
  <2>4. /\ cached' \in [Hashes -> Seq(Blocks)]
        /\ \A k \in Hashes : \A b :
             b \in ToSet(cached'[k]) <=>
               \/ b \in ToSet(cached[k]) /\ b \notin S
               \/ \E i \in Len(hit) + 1 .. len[r] : i <= CapLimit(r) /\ k = Prefix(r, i) /\ b = table'[r][i]
    BY <1>24, <2>1
  <2>5. \A b : b \in sameStep' <=>
                \/ b \in sameStep
                \/ \E i \in Len(hit) + 1 .. len[r] : i <= CapLimit(r) /\ b = table'[r][i]
    BY <1>25, <2>1
  <2>6. start' = [start EXCEPT ![r] = Len(hit)] /\ entries' = Coupled(S)
    BY <1>6, <1>7, <2>1
  <2> QED BY <1>7, <1>9, <1>11, <1>12, <1>1, <1>2, <1>3, <2>2, <2>3, <2>4, <2>5, <2>6, Zenon DEF AdmitsWith
<1> QED BY <1>26

\* A block of the hit is written by a whole chunk, for the prefix it is served for.
LEMMA HitIsWritten ==
    ASSUME Inv, NEW r, NEW hit, NEW S, AdmitsWith(r, hit, S)
    PROVE  \A i \in 1 .. Len(hit) : /\ HoldsChunk(hit[i], Prefix(r, i)) /\ ~Pending(hit[i])
                                    /\ hit[i] \in Blocks /\ hit[i] \notin S
<1> TAKE i \in 1 .. Len(hit)
<1>1. /\ r \in Req /\ hit \in Seq(Blocks) /\ Len(hit) \in Nat /\ len[r] \in Nat /\ Len(hit) < len[r]
      /\ len[r] < Len(Text[r]) /\ Len(Text[r]) \in Nat /\ S \cap ToSet(hit) = {}
      /\ hit[i] \in ToSet(cached[Prefix(r, i)]) /\ hit[i] \notin sameStep
  BY DEF AdmitsWith
<1>2. i \in 1 .. Len(Text[r])
  BY <1>1
<1>3. Prefix(r, i) \in Hashes
  BY <1>1, <1>2, PrefixFacts DEF Inv
<1>4. HoldsChunk(hit[i], Prefix(r, i)) /\ ~Pending(hit[i])
  BY <1>1, <1>3 DEF Inv, BlockInv, CachedSound
<1>5. hit[i] \in Blocks /\ hit[i] \in ToSet(hit)
  BY <1>1, SeqElements, ElementOfSeq
<1> QED BY <1>1, <1>4, <1>5

LEMMA AdmitBlocks ==
    ASSUME Inv, Admit, load' = load
    PROVE  BlockInv'
<1>1. PICK r, hit, S : AdmitsWith(r, hit, S)
  BY AdmitEffect
<1>2. PICK q : q = Len(hit)
  OBVIOUS
<1>3. PICK n : n = len[r]
  OBVIOUS
<1>4. PICK t : t = table'[r]
  OBVIOUS
<1>5. /\ r \in Req /\ hit \in Seq(Blocks) /\ pc = "schedule" /\ row = None /\ phase[r] \in {"waiting", "preempted"}
      /\ q \in Nat /\ n \in Nat /\ q < n /\ n < Len(Text[r]) /\ Len(Text[r]) \in Nat /\ q % Chunk = 0
      /\ S \subseteq FreeBlocks /\ S \subseteq Blocks
  BY <1>1, <1>2, <1>3 DEF AdmitsWith
<1>6. /\ table' \in [Req -> Seq(Blocks)] /\ Len(t) = n /\ \A x \in Req : x # r => table'[x] = table[x]
      /\ \A i \in 1 .. q : t[i] = hit[i]
      /\ \A i \in q + 1 .. n : t[i] \in S
      /\ \A i, j \in q + 1 .. n : t[i] = t[j] => i = j
  BY <1>1, <1>2, <1>3, <1>4 DEF AdmitsWith
<1>7. /\ cached' \in [Hashes -> Seq(Blocks)]
      /\ \A k \in Hashes : \A b :
           b \in ToSet(cached'[k]) <=>
             \/ b \in ToSet(cached[k]) /\ b \notin S
             \/ \E i \in q + 1 .. n : i <= CapLimit(r) /\ k = Prefix(r, i) /\ b = t[i]
  BY <1>1, <1>2, <1>3, <1>4 DEF AdmitsWith
<1>8. \A b : b \in sameStep' <=> b \in sameStep \/ \E i \in q + 1 .. n : i <= CapLimit(r) /\ b = t[i]
  BY <1>1, <1>2, <1>3, <1>4 DEF AdmitsWith
<1>9. /\ phase' = [phase EXCEPT ![r] = "admitted"] /\ start' = [start EXCEPT ![r] = q] /\ trying' = None
      /\ pc' = pc /\ killed' = killed /\ kv' = kv /\ len' = len /\ row' = row /\ scratch' = scratch /\ slot' = slot
  BY <1>1, <1>2 DEF AdmitsWith
<1>10. BlockTypes /\ RequestTypes /\ StepPhases /\ PendingOwned /\ CachedSound
  BY DEF Inv, BlockInv
<1>11. /\ phase'[r] = "admitted" /\ start'[r] = q
       /\ \A x \in Req : x # r => phase'[x] = phase[x] /\ start'[x] = start[x]
  BY <1>5, <1>9, <1>10 DEF RequestTypes
<1>12. r \notin Admitted /\ (\A x : x \in Admitted' <=> x \in Admitted \/ x = r) /\ Admitted \subseteq Req
  BY <1>5, <1>11, WorkloadStays DEF Admitted
<1>13. Pos(r)' = q /\ \A x \in Req : Pos(x) = start[x] /\ Pos(x) \in Nat /\ (x # r => Pos(x)' = Pos(x))
  BY <1>5, <1>9, <1>10, <1>11 DEF Pos, RequestTypes
<1>14. \A i \in 1 .. q : /\ HoldsChunk(hit[i], Prefix(r, i)) /\ ~Pending(hit[i])
                         /\ hit[i] \in Blocks /\ hit[i] \notin S
  BY <1>1, <1>2, HitIsWritten
<1>15. \A b \in S : \A x \in Req : \A j \in 1 .. Len(table[x]) : table[x][j] # b
  BY <1>5, FreeIsUnheld
<1>16. \A x \in Req : table[x] \in Seq(Blocks) /\ Len(table[x]) \in Nat
  <2>1. \A x \in Req : table[x] \in Seq(Blocks)
    BY <1>10 DEF BlockTypes
  <2> QED BY <2>1, LenProperties
<1>17. \A i \in q + 1 .. n : i <= CapLimit(r) <=> i <= Floor(PromptLen[r]) /\ r \notin Excluded /\ ~killed
  <2> TAKE i \in q + 1 .. n
  <2>1. i \in Nat \ {0}
    BY <1>5
  <2> QED BY <1>5, <2>1, CapSound
<1>18. BlockTypes'
  <2>1. sameStep' \subseteq Blocks
    BY <1>5, <1>6, <1>8, <1>10 DEF BlockTypes
  <2> QED BY <1>6, <1>7, <1>9, <1>10, <2>1, WorkloadStays DEF BlockTypes, Writers
<1>19. RequestTypes'
  <2>1. /\ phase' \in [Req -> {"waiting", "admitted", "running", "preempted", "done"}]
        /\ start' \in [Req -> Nat]
    BY <1>5, <1>9, <1>10 DEF RequestTypes
  <2>2. \A x \in Req : /\ PromptLen[x] <= len'[x] /\ len'[x] <= Len(Text[x])
                       /\ phase'[x] \in {"waiting", "admitted", "preempted"} => len'[x] < Len(Text[x])
                       /\ phase'[x] = "running" => PromptLen[x] < len'[x]
    <3> TAKE x \in Req
    <3>1. CASE x = r
      BY <1>5, <1>9, <1>10, <1>11, <1>3, <3>1 DEF RequestTypes
    <3>2. CASE x # r
      BY <1>9, <1>10, <1>11, <3>2 DEF RequestTypes
    <3> QED BY <3>1, <3>2
  <2> QED BY <1>9, <1>10, <2>1, <2>2, WorkloadStays DEF RequestTypes
<1>20. StepPhases' /\ TryingSound' /\ RowSound'
  BY <1>5, <1>9, <1>10 DEF StepPhases, TryingSound, RowSound
<1>21. AdmittedShape'
  <2> SUFFICES ASSUME NEW x \in Admitted'
               PROVE  Len(table'[x]) = len'[x] /\ start'[x] < len'[x] /\ start'[x] % Chunk = 0
    BY WorkloadStays DEF AdmittedShape
  <2>1. CASE x = r
    BY <1>5, <1>6, <1>9, <1>11, <1>3, <1>4, <2>1
  <2>2. CASE x # r
    BY <1>6, <1>9, <1>11, <1>12, <2>2 DEF Inv, BlockInv, AdmittedShape
  <2> QED BY <2>1, <2>2
<1>22. HitsCached'
  <2> SUFFICES ASSUME NEW x \in Admitted', NEW i \in 1 .. start'[x]
               PROVE  table'[x][i] \in ToSet(cached'[Prefix(x, i)])
    BY WorkloadStays DEF HitsCached
  <2>1. CASE x = r
    <3>1. i \in 1 .. q /\ i \in 1 .. Len(Text[r]) /\ t[i] = hit[i]
      BY <1>5, <1>6, <1>11, <2>1
    <3>2. Prefix(r, i) \in Hashes
      BY <1>5, <3>1, PrefixFacts DEF Inv
    <3>3. hit[i] \in ToSet(cached[Prefix(r, i)])
      BY <1>1, <1>2, <3>1 DEF AdmitsWith
    <3>4. t[i] \in ToSet(cached'[Prefix(r, i)])
      BY <1>7, <1>14, <3>1, <3>2, <3>3
    <3> QED BY <1>4, <2>1, <3>4
  <2>2. CASE x # r
    <3>1. /\ x \in Admitted /\ x \in Req /\ i \in 1 .. start[x] /\ table'[x] = table[x]
          /\ start[x] \in Nat /\ len[x] \in Nat /\ start[x] < len[x] /\ Len(table[x]) = len[x]
      BY <1>6, <1>10, <1>11, <1>12, <2>2 DEF Inv, BlockInv, AdmittedShape, RequestTypes
    <3>2. len[x] <= Len(Text[x]) /\ Len(Text[x]) \in Nat
      BY <1>10, <3>1, Workload DEF RequestTypes, Inv
    <3>3. i \in 1 .. Len(Text[x]) /\ i \in 1 .. Len(table[x])
      BY <3>1, <3>2
    <3>4. Prefix(x, i) \in Hashes
      BY <3>1, <3>3, PrefixFacts DEF Inv
    <3>5. table[x][i] \in ToSet(cached[Prefix(x, i)])
      BY <3>1 DEF Inv, BlockInv, HitsCached
    <3>6. table[x][i] \notin S
      BY <1>15, <3>1, <3>3
    <3> QED BY <1>7, <3>1, <3>4, <3>5, <3>6
  <2> QED BY <2>1, <2>2
<1>23. PromptsCached'
  <2> SUFFICES ASSUME ~killed, NEW x \in Admitted' \ Excluded, NEW i \in start'[x] + 1 .. len'[x],
                  i <= Floor(PromptLen[x])
               PROVE  table'[x][i] \in ToSet(cached'[Prefix(x, i)])
    BY <1>9, WorkloadStays DEF PromptsCached
  <2>1. CASE x = r
    <3>1. i \in q + 1 .. n /\ i \in 1 .. Len(Text[r])
      BY <1>5, <1>9, <1>11, <1>3, <2>1
    <3>2. i <= CapLimit(r)
      BY <1>17, <2>1, <3>1
    <3>3. Prefix(r, i) \in Hashes
      BY <1>5, <3>1, PrefixFacts DEF Inv
    <3>4. t[i] \in ToSet(cached'[Prefix(r, i)])
      BY <1>7, <3>1, <3>2, <3>3
    <3> QED BY <1>4, <2>1, <3>4
  <2>2. CASE x # r
    <3>1. /\ x \in Admitted \ Excluded /\ x \in Req /\ i \in start[x] + 1 .. len[x] /\ table'[x] = table[x]
          /\ start[x] \in Nat /\ len[x] \in Nat /\ Len(table[x]) = len[x]
      BY <1>6, <1>9, <1>10, <1>11, <1>12, <2>2 DEF Inv, BlockInv, AdmittedShape, RequestTypes
    <3>2. len[x] <= Len(Text[x]) /\ Len(Text[x]) \in Nat
      BY <1>10, <3>1, Workload DEF RequestTypes, Inv
    <3>3. i \in 1 .. Len(Text[x]) /\ i \in 1 .. Len(table[x])
      BY <3>1, <3>2
    <3>4. Prefix(x, i) \in Hashes
      BY <3>1, <3>3, PrefixFacts DEF Inv
    <3>5. table[x][i] \in ToSet(cached[Prefix(x, i)])
      BY <3>1 DEF Inv, BlockInv, PromptsCached
    <3>6. table[x][i] \notin S
      BY <1>15, <3>1, <3>3
    <3> QED BY <1>7, <3>1, <3>4, <3>5, <3>6
  <2> QED BY <2>1, <2>2
<1>24. HeldSound'
  <2> SUFFICES ASSUME NEW x \in Req PROVE HeldBy(x)'
    BY WorkloadStays DEF HeldSound
  <2>1. CASE x # r
    BY <1>6, <1>9, <1>11, <1>13, <2>1, HeldKept
  <2>2. CASE x = r
    <3>1. \A i \in 1 .. q : /\ kv'[t[i]] # None /\ kv'[t[i]].prefix = Prefix(r, i) /\ kv'[t[i]].by = "chunk"
      BY <1>6, <1>9, <1>14 DEF HoldsChunk
    <3>2. \A i \in 1 .. Len(t) : i <= q => i \in 1 .. q
      BY <1>5, <1>6
    <3>3. HeldBy(r)'
      BY <1>11, <1>13, <1>4, <3>1, <3>2, WorkloadStays DEF HeldBy
    <3> QED BY <2>2, <3>3
  <2> QED BY <2>1, <2>2
<1>25. \A x \in Admitted' : \A i \in Pos(x)' + 1 .. Len(table'[x]) :
         \/ /\ x # r /\ x \in Admitted /\ i \in Pos(x) + 1 .. Len(table[x]) /\ i \in 1 .. Len(table[x])
            /\ table'[x][i] = table[x][i]
         \/ x = r /\ i \in q + 1 .. n /\ table'[x][i] = t[i] /\ t[i] \in S
  <2> TAKE x \in Admitted'
  <2> TAKE i \in Pos(x)' + 1 .. Len(table'[x])
  <2>1. CASE x = r
    BY <1>6, <1>13, <1>4, <2>1
  <2>2. CASE x # r
    <3>1. /\ x \in Admitted /\ x \in Req /\ table'[x] = table[x] /\ Pos(x)' = Pos(x)
          /\ Pos(x) \in Nat /\ Len(table[x]) \in Nat
      BY <1>6, <1>12, <1>13, <1>16, <2>2
    <3> QED BY <2>2, <3>1
  <2> QED BY <2>1, <2>2
<1>26. \A x \in Req : \A j \in 1 .. Len(table'[x]) :
         \/ x # r /\ j \in 1 .. Len(table[x]) /\ table'[x][j] = table[x][j] /\ table'[x][j] \notin S
         \/ x = r /\ j \in 1 .. q /\ table'[x][j] = hit[j]
         \/ x = r /\ j \in q + 1 .. n /\ table'[x][j] = t[j]
  <2> TAKE x \in Req
  <2> TAKE j \in 1 .. Len(table'[x])
  <2>1. CASE x = r
    <3>1. j \in 1 .. q \/ j \in q + 1 .. n
      BY <1>5, <1>6, <1>4, <2>1
    <3> QED BY <1>6, <1>4, <2>1, <3>1
  <2>2. CASE x # r
    BY <1>6, <1>15, <2>2
  <2> QED BY <2>1, <2>2
<1>27. PendingOwned'
  <2> SUFFICES ASSUME NEW x \in Admitted', NEW i \in Pos(x)' + 1 .. Len(table'[x]),
                      NEW y \in Req, NEW j \in 1 .. Len(table'[y]), table'[y][j] = table'[x][i]
               PROVE  y = x /\ j = i
    BY WorkloadStays DEF PendingOwned
  <2>1. CASE /\ x # r /\ x \in Admitted /\ i \in Pos(x) + 1 .. Len(table[x]) /\ i \in 1 .. Len(table[x])
             /\ table'[x][i] = table[x][i]
    <3>1. x \in Req /\ Pending(table[x][i])
      BY <1>12, <2>1 DEF Pending
    <3>2. table[x][i] \notin S
      BY <1>15, <2>1, <3>1
    <3>3. ~(y = r /\ j \in 1 .. q /\ table'[y][j] = hit[j])
      BY <1>14, <2>1, <3>1
    <3>4. ~(y = r /\ j \in q + 1 .. n /\ table'[y][j] = t[j])
      BY <1>6, <2>1, <3>2
    <3>5. y # r /\ j \in 1 .. Len(table[y]) /\ table[y][j] = table[x][i]
      BY <1>26, <2>1, <3>3, <3>4
    <3> QED BY <1>10, <2>1, <3>5 DEF PendingOwned
  <2>2. CASE x = r /\ i \in q + 1 .. n /\ table'[x][i] = t[i] /\ t[i] \in S
    <3>1. ~(y # r /\ table'[y][j] \notin S)
      BY <2>2
    <3>2. ~(j \in 1 .. q /\ table'[y][j] = hit[j])
      BY <1>14, <2>2
    <3>3. y = r /\ j \in q + 1 .. n /\ table'[y][j] = t[j]
      BY <1>26, <3>1, <3>2
    <3> QED BY <1>6, <2>2, <3>3
  <2> QED BY <1>25, <2>1, <2>2
<1>28. \A b : Pending(b)' => Pending(b) \/ b \in S
  <2> SUFFICES ASSUME NEW b, NEW x \in Admitted', NEW i \in Pos(x)' + 1 .. Len(table'[x]), table'[x][i] = b
               PROVE  Pending(b) \/ b \in S
    BY DEF Pending
  <2> QED BY <1>25 DEF Pending
<1>29. CachedSound'
  <2> SUFFICES ASSUME NEW k \in Hashes, NEW b \in ToSet(cached'[k])
               PROVE  \/ HoldsChunk(b, k)' /\ ~Pending(b)'
                      \/ /\ b \in sameStep'
                         /\ \E x \in Admitted' : \E i \in Pos(x)' + 1 .. Len(table'[x]) :
                              b = table'[x][i] /\ k = Prefix(x, i) /\ i <= Floor(PromptLen[x])
    BY WorkloadStays DEF CachedSound
  <2>1. CASE b \in ToSet(cached[k]) /\ b \notin S
    <3>1. CASE HoldsChunk(b, k) /\ ~Pending(b)
      BY <1>9, <1>28, <2>1, <3>1 DEF HoldsChunk
    <3>2. CASE ~(HoldsChunk(b, k) /\ ~Pending(b))
      <4>1. b \in sameStep /\ \E x \in Admitted : \E i \in Pos(x) + 1 .. Len(table[x]) :
                              b = table[x][i] /\ k = Prefix(x, i) /\ i <= Floor(PromptLen[x])
        BY <1>10, <2>1, <3>2 DEF CachedSound
      <4>2. PICK x \in Admitted : \E i \in Pos(x) + 1 .. Len(table[x]) :
                              b = table[x][i] /\ k = Prefix(x, i) /\ i <= Floor(PromptLen[x])
        BY <4>1
      <4>3. PICK i \in Pos(x) + 1 .. Len(table[x]) : b = table[x][i] /\ k = Prefix(x, i) /\ i <= Floor(PromptLen[x])
        BY <4>2
      <4>4. x \in Admitted' /\ Pos(x)' = Pos(x) /\ table'[x] = table[x]
        BY <1>6, <1>12, <1>13
      <4> QED BY <1>8, <4>1, <4>3, <4>4
    <3> QED BY <3>1, <3>2
  <2>2. CASE \E i \in q + 1 .. n : i <= CapLimit(r) /\ k = Prefix(r, i) /\ b = t[i]
    <3>1. PICK i \in q + 1 .. n : i <= CapLimit(r) /\ k = Prefix(r, i) /\ b = t[i]
      BY <2>2
    <3>2. i <= Floor(PromptLen[r]) /\ b \in sameStep'
      BY <1>8, <1>17, <3>1
    <3>3. r \in Admitted' /\ i \in Pos(r)' + 1 .. Len(table'[r]) /\ b = table'[r][i]
      BY <1>6, <1>12, <1>13, <1>4, <3>1
    <3> QED BY <3>1, <3>2, <3>3
  <2> QED BY <1>7, <2>1, <2>2
<1> QED BY <1>18, <1>19, <1>20, <1>21, <1>22, <1>23, <1>24, <1>27, <1>29 DEF BlockInv

-----------------------------------------------------------------------------
(* Steps that keep what is stored and the grants *)

LEMMA StoreKept ==
    ASSUME Inv, load' = load, entries' = entries \/ (entries' \in Seq(Serials) /\ ToSet(entries') = ToSet(entries)),
           ckpt' = ckpt, staged' = staged, committed' = committed,
           killed' = killed, cached' = cached, pc' = pc \/ (pc = "model" /\ pc' = "idle"),
           TryingGranted', StartsGranted',
           \A r \in Req : committed[r] # None => phase'[r] \in {"admitted", "running"},
           \A r \in Req : phase'[r] = "admitted" => phase[r] = "admitted"
    PROVE  StoreInv'
<1> USE WorkloadStays
<1>1. StoreInv
  BY DEF Inv
<1>2. entries' \in Seq(Serials) /\ ToSet(entries') = ToSet(entries)
  BY <1>1 DEF StoreInv, StoreTypes
<1>3. StoreTypes'
  BY <1>1, <1>2 DEF StoreInv, StoreTypes
<1>4. GrantsSound'
  BY <1>1 DEF StoreInv, GrantsSound, GrantSound, BelowWindow, Prefix, Floor
<1>5. \A s : Holders(s)' = Holders(s)
  BY DEF Holders
<1>6. CheckpointsSound'
  BY <1>1, <1>5, <1>2 DEF StoreInv, CheckpointsSound
<1>7. GrantsStored' /\ StoreFits' /\ StoredHaveKv'
  BY <1>1, <1>5, <1>2 DEF StoreInv, GrantsStored, StoreFits, StoredHaveKv
<1> QED BY <1>3, <1>4, <1>6, <1>7 DEF StoreInv

LEMMA DiscardStore ==
    ASSUME Inv, Discard, load' = load
    PROVE  StoreInv'
<1>1. /\ entries' = entries /\ ckpt' = ckpt /\ staged' = staged /\ committed' = committed /\ killed' = killed
      /\ cached' = cached /\ pc' = pc /\ phase' = phase /\ start' = start /\ trying' = None
  BY DEF Discard, registry, kvcache
<1>2. StoreInv /\ Admitted' = Admitted
  BY <1>1, WorkloadStays DEF Inv, Admitted
<1>3. TryingGranted' /\ StartsGranted'
  BY <1>1, <1>2 DEF StoreInv, TryingGranted, StartsGranted, GrantedAt
<1> QED BY <1>1, <1>2, <1>3, StoreKept DEF StoreInv, GrantsSound

LEMMA PreemptStore ==
    ASSUME Inv, NEW r \in Req, Preempt(r), load' = load
    PROVE  StoreInv'
<1>1. /\ entries' = entries /\ ckpt' = ckpt /\ staged' = staged /\ committed' = committed /\ killed' = killed
      /\ cached' = cached /\ pc' = pc /\ trying' = None /\ pc = "schedule" /\ Admitted = {}
      /\ phase' = [phase EXCEPT ![r] = "preempted"]
  BY DEF Preempt, registry
<1>2. StoreInv /\ RequestTypes
  BY DEF Inv, BlockInv
<1>3. \A x \in Req : committed[x] = None
  BY <1>1, <1>2 DEF StoreInv, StoreTypes
<1>4. \A x \in Req : phase'[x] = "admitted" => phase[x] = "admitted"
  BY <1>1, <1>2 DEF RequestTypes
<1>5. Admitted' = {}
  BY <1>1, <1>4, WorkloadStays DEF Admitted
<1>6. TryingGranted' /\ StartsGranted'
  BY <1>1, <1>5 DEF TryingGranted, StartsGranted
<1> QED BY <1>1, <1>3, <1>4, <1>6, StoreKept

LEMMA StartRowStore ==
    ASSUME Inv, NEW r \in Req, StartRow(r), load' = load
    PROVE  StoreInv'
<1>1. /\ entries' = entries /\ ckpt' = ckpt /\ staged' = staged /\ committed' = committed /\ killed' = killed
      /\ cached' = cached /\ pc' = pc /\ phase' = phase /\ start' = start /\ trying' = trying
  BY DEF StartRow, registry, kvcache, requests
<1>2. StoreInv /\ Admitted' = Admitted
  BY <1>1, WorkloadStays DEF Inv, Admitted
<1>3. TryingGranted' /\ StartsGranted'
  BY <1>1, <1>2 DEF StoreInv, TryingGranted, StartsGranted, GrantedAt
<1> QED BY <1>1, <1>2, <1>3, StoreKept DEF StoreInv, GrantsSound

LEMMA RunTailStore ==
    ASSUME Inv, RunTail, load' = load
    PROVE  StoreInv'
<1>1. PICK r : r = row.req
  OBVIOUS
<1>2. /\ entries' = entries /\ ckpt' = ckpt /\ staged' = staged /\ committed' = committed /\ killed' = killed
      /\ cached' = cached /\ pc' = pc /\ start' = start /\ trying' = trying
      /\ phase' = [phase EXCEPT ![r] = "running"] /\ row # None
  BY <1>1 DEF RunTail, registry
<1>3. pc = "model" /\ trying = None
  BY <1>2 DEF Inv, BlockInv, StepPhases
<1>4. StoreInv /\ RequestTypes
  BY DEF Inv, BlockInv
<1>5. \A x \in Req : /\ phase'[x] = "admitted" => phase[x] = "admitted"
                     /\ phase[x] \in {"admitted", "running"} => phase'[x] \in {"admitted", "running"}
  BY <1>2, <1>4 DEF RequestTypes
<1>6. Admitted' \subseteq Admitted
  BY <1>5, WorkloadStays DEF Admitted
<1>7. TryingGranted' /\ StartsGranted'
  BY <1>2, <1>3, <1>4, <1>6 DEF StoreInv, TryingGranted, StartsGranted, GrantedAt
<1> QED BY <1>2, <1>4, <1>5, <1>7, StoreKept DEF StoreInv, GrantsSound

LEMMA EndStepStore ==
    ASSUME Inv, EndStep, load' = load
    PROVE  StoreInv'
<1>1. /\ entries' = entries /\ ckpt' = ckpt /\ staged' = staged /\ committed' = committed /\ killed' = killed
      /\ cached' = cached /\ pc = "model" /\ pc' = "idle" /\ phase' = phase /\ trying' = trying
  BY DEF EndStep, registry, kvcache, requests
<1>2. StoreInv /\ trying = None
  BY <1>1 DEF Inv, BlockInv, StepPhases
<1>3. TryingGranted' /\ StartsGranted'
  BY <1>1, <1>2 DEF TryingGranted, StartsGranted
<1> QED BY <1>1, <1>2, <1>3, StoreKept DEF StoreInv, GrantsSound

-----------------------------------------------------------------------------
(* Beginning a step *)

\* Taking the pins of all grants leaves none.
LEMMA UnpinnedAll ==
    ASSUME Inv
    PROVE  /\ Unpinned(ckpt, committed) \in
                [Serials -> [key : Hashes \cup {None}, gdn : Hashes \cup {None}, pins : Nat]]
           /\ \A s \in Serials : /\ Unpinned(ckpt, committed)[s].pins = 0
                                 /\ Unpinned(ckpt, committed)[s].key = ckpt[s].key
                                 /\ Unpinned(ckpt, committed)[s].gdn = ckpt[s].gdn
<1>1. \A s \in Serials : ckpt[s] \in [key : Hashes \cup {None}, gdn : Hashes \cup {None}, pins : Nat]
  BY DEF Inv, StoreInv, StoreTypes
<1>2. \A s \in Serials : ckpt[s].pins - Cardinality(Holders(s)) = 0
  <2>1. \A s \in Serials : ckpt[s].pins = Cardinality(Holders(s)) /\ ckpt[s].pins \in Nat
    BY <1>1 DEF Inv, StoreInv, CheckpointsSound
  <2> QED BY <2>1
<1>3. Unpinned(ckpt, committed) = [s \in Serials |-> [ckpt[s] EXCEPT !.pins = @ - Cardinality(Holders(s))]]
  BY DEF Unpinned, Holders
<1>4. \A s \in Serials : [ckpt[s] EXCEPT !.pins = @ - Cardinality(Holders(s))] = [ckpt[s] EXCEPT !.pins = 0]
  BY <1>2
<1>5. Unpinned(ckpt, committed) = [s \in Serials |-> [ckpt[s] EXCEPT !.pins = 0]]
  BY <1>3, <1>4
<1> QED BY <1>1, <1>5

LEMMA BeginStepStore ==
    ASSUME Inv, BeginStep, load' = load
    PROVE  StoreInv'
<1>1. PICK objects : objects = Unpinned(ckpt, committed)
  OBVIOUS
<1>2. /\ pc = "idle" /\ pc' = "schedule" /\ entries' = EnforceBudget(entries, objects)
      /\ ckpt' = [s \in Serials |-> IF s \in ToSet(entries') THEN objects[s] ELSE NoCkpt]
      /\ committed' = [r \in Req |-> None] /\ staged' = [r \in Req |-> None]
      /\ killed' = killed /\ cached' = cached /\ phase' = phase /\ trying' = trying
  BY <1>1, Zenon DEF BeginStep, kvcache, requests
<1>3. /\ objects \in [Serials -> [key : Hashes \cup {None}, gdn : Hashes \cup {None}, pins : Nat]]
      /\ \A s \in Serials : objects[s].pins = 0 /\ objects[s].key = ckpt[s].key /\ objects[s].gdn = ckpt[s].gdn
  BY <1>1, UnpinnedAll
<1>4. trying' = None /\ Admitted' = {}
  BY <1>2, WorkloadStays DEF Inv, BlockInv, StepPhases, Admitted
<1>5. StoreInv
  BY DEF Inv
<1>6. /\ entries' \in Seq(Serials) /\ ToSet(entries') \subseteq ToSet(entries)
      /\ Cardinality(ToSet(entries')) <= Budget \/ \A s \in ToSet(entries') : objects[s].pins # 0
  <2>1. entries \in Seq(Serials) /\ Budget \in Nat
    BY <1>5, Workload DEF StoreInv, StoreTypes, Inv
  <2> QED BY <1>2, <2>1, BudgetKeepsPinned
<1>7. ToSet(entries') \subseteq Serials
  BY <1>6, SeqElements
<1>8. Cardinality(ToSet(entries')) <= Budget
  <2>1. CASE ToSet(entries') = {}
    BY <2>1, FS_EmptySet, Workload DEF Inv
  <2>2. CASE ToSet(entries') # {}
    BY <1>3, <1>6, <1>7, <2>2
  <2> QED BY <2>1, <2>2
<1>9. NoCkpt = [key |-> None, gdn |-> None, pins |-> 0]
  BY DEF NoCkpt
<1>10. /\ ckpt' \in [Serials -> [key : Hashes \cup {None}, gdn : Hashes \cup {None}, pins : Nat]]
       /\ \A s \in Serials : ckpt'[s].gdn = ckpt'[s].key /\ ckpt'[s].pins = 0
       /\ \A s \in ToSet(entries') : ckpt'[s].key = ckpt[s].key
  <2>1. \A s \in Serials : ckpt[s].gdn = ckpt[s].key
    BY <1>5 DEF StoreInv, CheckpointsSound
  <2> QED BY <1>2, <1>3, <1>7, <1>9, <2>1
<1>11. StoreTypes'
  <2>1. None \in Grants
    BY DEF Grants
  <2> QED BY <1>2, <1>6, <1>10, <2>1, WorkloadStays DEF StoreTypes
<1>12. GrantsSound' /\ TryingGranted' /\ StartsGranted' /\ GrantsStored'
  BY <1>2, <1>4, WorkloadStays DEF GrantsSound, TryingGranted, StartsGranted, GrantsStored
<1>13. CheckpointsSound'
  <2>1. \A s : Holders(s)' = {}
    BY <1>2, WorkloadStays DEF Holders
  <2>2. \A s \in Serials : ckpt'[s].pins = Cardinality(Holders(s)')
    BY <1>10, <2>1, FS_EmptySet
  <2>3. \A s \in ToSet(entries') : ckpt'[s].key \in Hashes
    BY <1>5, <1>6, <1>10 DEF StoreInv, CheckpointsSound
  <2> QED BY <1>10, <2>2, <2>3, WorkloadStays DEF CheckpointsSound
<1>14. StoreFits'
  BY <1>8, WorkloadStays DEF StoreFits
<1>15. StoredHaveKv'
  <2>1. \A s \in ToSet(entries) : cached[ckpt[s].key] # <<>>
    BY <1>5 DEF StoreInv, StoredHaveKv
  <2>2. \A s \in ToSet(entries') : s \in ToSet(entries) /\ ckpt'[s].key = ckpt[s].key
    BY <1>6, <1>10
  <2>3. \A s \in ToSet(entries') : cached'[ckpt'[s].key] # <<>>
    BY <1>2, <2>1, <2>2, Zenon
  <2> QED BY <2>3 DEF StoredHaveKv
<1> QED BY <1>11, <1>12, <1>13, <1>14, <1>15 DEF StoreInv

-----------------------------------------------------------------------------
(* Trimming a hit *)

\* The grant the trim stages is sound and its checkpoint stored.
LEMMA GrantIsSound ==
    ASSUME Inv, NEW r \in Req, r \notin Excluded, NEW g, g = Grant(r, Hit(r), TrimPoint(r))
    PROVE  /\ g \in Grants /\ GrantSound(r, g) /\ g.q = TrimPoint(r)
           /\ g.q > 0 => g # None /\ g.ckpt \in ToSet(entries)
<1>1. PICK h : h = Hit(r)
  OBVIOUS
<1>2. PICK q : q = TrimPoint(r)
  OBVIOUS
<1>3. q \in Nat /\ q <= h /\ q % Chunk = 0 /\ h \in Nat /\ (q > 0 => q \in ResumePoints(r, h))
  BY <1>1, <1>2, TrimPointSound, HitIsCached
<1>4. g = [q |-> q, plan |-> Plan(r, h, q),
           ckpt |-> IF q = 0 THEN None ELSE CHOOSE s \in EntryFor(Prefix(r, q)) : TRUE]
  BY <1>1, <1>2 DEF Grant
<1>5. g.q = q /\ g.plan = Plan(r, h, q)
  BY <1>4
<1>6. q > 0 => /\ g.ckpt \in ToSet(entries) /\ g.ckpt \in Serials /\ ckpt[g.ckpt].key = Prefix(r, q)
  <2> SUFFICES ASSUME q > 0 PROVE g.ckpt \in ToSet(entries) /\ g.ckpt \in Serials /\ ckpt[g.ckpt].key = Prefix(r, q)
    OBVIOUS
  <2>1. EntryFor(Prefix(r, q)) # {}
    BY <1>3 DEF ResumePoints
  <2>2. g.ckpt \in EntryFor(Prefix(r, q))
    BY <1>3, <1>4, <2>1
  <2>3. ToSet(entries) \subseteq Serials
    BY SeqElements DEF Inv, StoreInv, StoreTypes
  <2> QED BY <2>2, <2>3 DEF EntryFor
<1>7. PromptLen[r] \in Nat /\ Chunk \in Nat /\ Chunk # 0
  BY Workload DEF Inv
<1>8. q > 0 => BelowWindow(r, q)
  <2>1. q > 0 /\ Sticky => q <= Floor(PromptLen[r] - Chunk)
    BY <1>3 DEF ResumePoints
  <2>2. Floor(PromptLen[r] - Chunk) \in Int /\ Floor(PromptLen[r] - Chunk) <= PromptLen[r] - Chunk
    BY <1>7, Chunks DEF Inv
  <2> QED BY <1>3, <1>7, <2>1, <2>2 DEF BelowWindow
<1>9. \A p \in g.plan : p \in Nat /\ q < p /\ p <= Floor(PromptLen[r])
  <2> TAKE p \in g.plan
  <2>1. p \in Boundaries(r, h, q)
    BY <1>5 DEF Plan
  <2>2. PICK prompt : prompt = Floor(PromptLen[r])
    OBVIOUS
  <2>3. PICK own : own = IF Sticky THEN prompt - Chunk ELSE prompt
    OBVIOUS
  <2>4. prompt \in Int /\ Floor(h) \in Int
    BY <1>3, <1>7, <2>2, Chunks DEF Inv
  <2>5. own \in Int
    BY <1>7, <2>3, <2>4
  <2>6. /\ p \in {own, Floor(h)} /\ (p = own => p > q) /\ (p # own => p - q >= Chunk) /\ p <= prompt
    BY <2>1, <2>2, <2>3 DEF Boundaries
  <2>7. p \in Int
    BY <2>4, <2>5, <2>6
  <2> QED BY <1>3, <1>7, <2>2, <2>4, <2>6, <2>7
<1>10. g \in Grants
  <2>1. g.ckpt \in Serials \cup {None}
    BY <1>3, <1>4, <1>6
  <2>2. g.plan \in SUBSET Nat
    BY <1>9
  <2>3. g = [q |-> g.q, plan |-> g.plan, ckpt |-> g.ckpt]
    BY <1>4
  <2>4. g.q \in Nat
    BY <1>3, <1>5
  <2> QED BY <2>1, <2>2, <2>3, <2>4 DEF Grants
<1>11. GrantSound(r, g)
  BY <1>3, <1>5, <1>6, <1>8, <1>9 DEF GrantSound
<1>12. q > 0 => g # None
  <2>1. Serials \subseteq Nat
    BY Workload DEF Inv
  <2>2. q > 0 => g \in [q : Nat, plan : SUBSET Nat, ckpt : Nat]
    BY <1>3, <1>4, <1>5, <1>6, <1>9, <2>1
  <2> QED BY <2>2, NoneAssumption
<1> QED BY <1>2, <1>5, <1>6, <1>10, <1>11, <1>12

LEMMA TrimStore ==
    ASSUME Inv, NEW r \in Req, Trim(r), load' = load
    PROVE  StoreInv'
<1>1. PICK g : g = Grant(r, Hit(r), TrimPoint(r))
  OBVIOUS
<1>2. PICK q : q = TrimPoint(r)
  OBVIOUS
<1>3. PICK blocks : blocks = HitBlocks(r, TrimPoint(r))
  OBVIOUS
<1>4. /\ pc = "schedule" /\ phase[r] \in {"waiting", "preempted"}
      /\ pc' = pc /\ ckpt' = ckpt /\ committed' = committed /\ OnlyStore
      /\ killed' = killed \/ killed' = TRUE
      /\ entries' = entries \/ (entries' = <<>> /\ killed')
      /\ \/ /\ staged' = [staged EXCEPT ![r] = None]
            /\ trying' = [req |-> r, hit |-> <<>>]
         \/ /\ r \notin Excluded /\ ~killed' /\ entries' = entries
            /\ \/ staged' = [staged EXCEPT ![r] = g]
               \/ ~(q > 0) /\ staged' = [staged EXCEPT ![r] = None]
            /\ trying' = [req |-> r, hit |-> blocks]
  BY <1>1, <1>2, <1>3, TrimEffect
<1>5. q \in Nat /\ Len(blocks) = q
  BY <1>2, <1>3, TrimPointSound
<1>6. r \notin Excluded => /\ g \in Grants /\ GrantSound(r, g) /\ g.q = q
                           /\ g.q > 0 => g # None /\ g.ckpt \in ToSet(entries)
  BY <1>1, <1>2, GrantIsSound
<1>7. StoreInv /\ (killed => killed') /\ killed \in BOOLEAN
  BY <1>4 DEF Inv, BlockInv, StepPhases
<1>8. /\ phase' = phase /\ start' = start /\ cached' = cached
      /\ Admitted' = Admitted /\ \A x \in Admitted : x # r
  BY <1>4, WorkloadStays DEF OnlyStore, Admitted
<1>9. PICK new \in Grants : /\ staged' = [staged EXCEPT ![r] = new]
                            /\ new # None => GrantSound(r, new)
                            /\ GrantedAt(new) = Len(trying'.hit)
                            /\ GrantedAt(new) # 0 => new # None /\ new.ckpt \in ToSet(entries) /\ entries' = entries
  <2>1. CASE staged' = [staged EXCEPT ![r] = None] /\ trying' = [req |-> r, hit |-> <<>>]
    <3>1. None \in Grants /\ GrantedAt(None) = 0 /\ trying'.hit = <<>> /\ Len(trying'.hit) = 0
      BY <2>1 DEF Grants, GrantedAt
    <3> QED BY <2>1, <3>1, Zenon
  <2>2. CASE /\ r \notin Excluded /\ entries' = entries /\ trying' = [req |-> r, hit |-> blocks]
             /\ staged' = [staged EXCEPT ![r] = None] /\ ~(q > 0)
    <3>1. None \in Grants /\ GrantedAt(None) = 0 /\ Len(trying'.hit) = 0
      BY <1>5, <2>2 DEF Grants, GrantedAt
    <3> QED BY <2>2, <3>1, Zenon
  <2>3. CASE /\ r \notin Excluded /\ entries' = entries /\ trying' = [req |-> r, hit |-> blocks]
             /\ staged' = [staged EXCEPT ![r] = g]
    <3>1. GrantedAt(g) = q
      BY <1>5, <1>6, <2>3 DEF GrantedAt
    <3>2. Len(trying'.hit) = q
      BY <1>5, <2>3
    <3>3. g \in Grants /\ GrantSound(r, g) /\ (q # 0 => g # None /\ g.ckpt \in ToSet(entries))
      BY <1>5, <1>6, <2>3
    <3> QED BY <2>3, <3>1, <3>2, <3>3, Zenon
  <2> QED BY <1>4, <2>1, <2>2, <2>3
<1>10. trying' # None => trying'.req = r
  BY <1>4
<1>11. /\ staged' \in [Req -> Grants] /\ staged'[r] = new /\ \A x \in Req : x # r => staged'[x] = staged[x]
  BY <1>7, <1>9 DEF StoreInv, StoreTypes
<1>12. entries' \in Seq(Serials) /\ ToSet(entries') \subseteq ToSet(entries)
  <2>1. entries \in Seq(Serials) /\ <<>> \in Seq(Serials) /\ ToSet(<<>>) = {}
    BY <1>7 DEF StoreInv, StoreTypes, ToSet
  <2> QED BY <1>4, <2>1
<1>13. StoreTypes'
  BY <1>4, <1>7, <1>11, <1>12, WorkloadStays DEF StoreInv, StoreTypes
<1>14. \A x \in Req : committed[x] = None
  BY <1>4, <1>7 DEF StoreInv, StoreTypes
<1>15. GrantsSound'
  <2>1. \A x \in Req : staged'[x] # None => GrantSound(x, staged'[x])
    BY <1>7, <1>9, <1>11 DEF StoreInv, GrantsSound
  <2>2. \A x \in Req : staged'[x] # None => GrantSound(x, staged[x])'
    BY <1>4, <2>1, WorkloadStays DEF GrantSound, BelowWindow, Prefix, Floor
  <2> QED BY <1>4, <1>14, <2>2, WorkloadStays DEF GrantsSound
<1>16. TryingGranted'
  <2>1. trying'.req = r
    BY <1>4
  <2>2. GrantedAt(staged[trying.req])' = GrantedAt(new)
    BY <1>11, <2>1 DEF GrantedAt
  <2> QED BY <1>9, <1>11, <2>1, <2>2 DEF TryingGranted
<1>17. StartsGranted'
  BY <1>4, <1>7, <1>8, <1>11, WorkloadStays DEF StoreInv, StartsGranted, GrantedAt, Admitted
<1>18. \A s : Holders(s)' = Holders(s)
  BY <1>4, WorkloadStays DEF Holders
<1>19. CheckpointsSound'
  BY <1>4, <1>7, <1>12, <1>18, WorkloadStays DEF StoreInv, CheckpointsSound
<1>20. GrantsStored'
  <2>1. \A x \in Req : phase[x] = "admitted" => x # r
    BY <1>4
  <2> QED BY <1>4, <1>7, <1>8, <1>11, <1>14, <2>1, WorkloadStays DEF StoreInv, GrantsStored
<1>21. StoreFits'
  <2>1. CASE entries' = entries
    BY <1>4, <1>7, <1>18, <2>1, WorkloadStays DEF StoreInv, StoreFits
  <2>2. CASE entries' = <<>>
    <3>1. ToSet(entries') = {} /\ Cardinality({}) = 0 /\ Budget \in Nat
      BY <2>2, FS_EmptySet, Workload DEF Inv, ToSet
    <3> QED BY <3>1, WorkloadStays DEF StoreFits
  <2> QED BY <1>4, <2>1, <2>2
<1>22. StoredHaveKv'
  BY <1>4, <1>7, <1>8, <1>12 DEF StoreInv, StoredHaveKv
<1> QED BY <1>13, <1>15, <1>16, <1>17, <1>19, <1>20, <1>21, <1>22 DEF StoreInv

-----------------------------------------------------------------------------
(* Taking blocks away *)

\* With its last block a hash loses its checkpoint, and no other checkpoint goes.
LEMMA CoupledKeeps ==
    ASSUME Inv, NEW S
    PROVE  /\ Coupled(S) \in Seq(Serials)
           /\ \A s : s \in ToSet(Coupled(S)) <=> s \in ToSet(entries) /\ Evicted(S)[ckpt[s].key] # <<>>
<1> DEFINE gone == {s \in ToSet(entries) : cached[ckpt[s].key] # <<>> /\ Evicted(S)[ckpt[s].key] = <<>>}
<1>1. entries \in Seq(Serials) /\ \A s \in ToSet(entries) : cached[ckpt[s].key] # <<>>
  BY DEF Inv, StoreInv, StoreTypes, StoredHaveKv
<1>2. Coupled(S) = Without(entries, gone)
  BY DEF Coupled
<1>3. \A s : s \in ToSet(entries) \ gone <=> s \in ToSet(entries) /\ Evicted(S)[ckpt[s].key] # <<>>
  BY <1>1
<1> HIDE DEF gone
<1>4. Without(entries, gone) \in Seq(Serials) /\ ToSet(Without(entries, gone)) = ToSet(entries) \ gone
  BY <1>1, WithoutDrops
<1> QED BY <1>2, <1>3, <1>4

\* Blocks are taken that no granted request holds, and no hash loses more than those.
LEMMA TakingStore ==
    ASSUME Inv, load' = load, NEW S, entries' = Coupled(S), pc = "schedule", pc' = pc,
           ckpt' = ckpt, staged' = staged, committed' = committed, killed' = killed, trying' = None,
           cached' \in [Hashes -> Seq(Blocks)],
           \A k \in Hashes : ToSet(Evicted(S)[k]) \subseteq ToSet(cached'[k]),
           StartsGranted',
           \A x \in Req : ~killed /\ phase'[x] = "admitted" /\ staged[x] # None /\ staged[x].q > 0 =>
               staged[x].ckpt \in ToSet(entries) /\ Evicted(S)[Prefix(x, staged[x].q)] # <<>>
    PROVE  StoreInv'
<1>1. StoreInv
  BY DEF Inv
<1>2. /\ entries' \in Seq(Serials)
      /\ \A s : s \in ToSet(entries') <=> s \in ToSet(entries) /\ Evicted(S)[ckpt[s].key] # <<>>
  BY CoupledKeeps
<1>3. \A x \in Req : committed[x] = None
  BY <1>1 DEF StoreInv, StoreTypes
<1>4. StoreTypes'
  BY <1>1, <1>2, WorkloadStays DEF StoreInv, StoreTypes
<1>5. GrantsSound'
  BY <1>1, <1>3, WorkloadStays DEF StoreInv, GrantsSound, GrantSound, BelowWindow, Prefix, Floor
<1>6. TryingGranted'
  BY DEF TryingGranted
<1>7. \A s : Holders(s)' = Holders(s)
  BY WorkloadStays DEF Holders
<1>8. CheckpointsSound'
  BY <1>1, <1>2, <1>7, WorkloadStays DEF StoreInv, CheckpointsSound
<1>9. GrantsStored'
  <2>1. \A x \in Req : staged[x] # None /\ staged[x].q > 0 => ckpt[staged[x].ckpt].key = Prefix(x, staged[x].q)
    BY <1>1 DEF StoreInv, GrantsSound, GrantSound
  <2>2. \A x \in Req : ~killed /\ phase'[x] = "admitted" /\ staged[x] # None /\ staged[x].q > 0 =>
            staged[x].ckpt \in ToSet(entries')
    BY <1>2, <2>1
  <2> QED BY <1>3, <2>2, WorkloadStays DEF GrantsStored
<1>10. StoreFits'
  <2>1. PICK old : old = ToSet(entries)
    OBVIOUS
  <2>2. PICK new : new = ToSet(entries')
    OBVIOUS
  <2>3. new \subseteq old
    BY <1>2, <2>1, <2>2
  <2>4. IsFiniteSet(old)
    BY <1>1, <2>1, SeqElements DEF StoreInv, StoreTypes
  <2>5. Cardinality(new) <= Cardinality(old) /\ Cardinality(new) \in Nat /\ Cardinality(old) \in Nat /\ Budget \in Nat
    BY <2>3, <2>4, FS_Subset, FS_CardinalityType, Workload DEF Inv
  <2>6. Cardinality(old) <= Budget \/ \A s \in old : Holders(s) # {}
    BY <1>1, <2>1 DEF StoreInv, StoreFits
  <2>7. Cardinality(new) <= Budget \/ \A s \in new : Holders(s)' # {}
    BY <1>7, <2>3, <2>5, <2>6
  <2> QED BY <2>2, <2>7, WorkloadStays DEF StoreFits
<1>11. StoredHaveKv'
  <2> SUFFICES ASSUME NEW s \in ToSet(entries') PROVE cached'[ckpt[s].key] # <<>>
    BY DEF StoredHaveKv
  <2>1. PICK k : k = ckpt[s].key
    OBVIOUS
  <2>2. k \in Hashes /\ Evicted(S)[k] # <<>>
    BY <1>1, <1>2, <2>1 DEF StoreInv, CheckpointsSound
  <2>3. PICK c : c = Evicted(S)[k]
    OBVIOUS
  <2>4. c \in Seq(Blocks) /\ c # <<>> /\ ToSet(c) \subseteq ToSet(cached'[k])
    BY <2>2, <2>3, EvictedDrops
  <2>5. ToSet(c) # {}
    BY <2>4, SeqElements
  <2>6. ToSet(<<>>) = {}
    BY DEF ToSet
  <2> QED BY <2>1, <2>4, <2>5, <2>6
<1> QED BY <1>4, <1>5, <1>6, <1>8, <1>9, <1>10, <1>11 DEF StoreInv

LEMMA DecodeStore ==
    ASSUME Inv, NEW r \in Req, Decode(r), load' = load
    PROVE  StoreInv'
<1>1. PICK b \in FreeBlocks :
           entries' = Coupled({b}) /\ cached' = Publish(Evicted({b}), r, table'[r], len[r] - 1, len[r])
  BY Zenon DEF Decode
<1>2. /\ pc = "schedule" /\ pc' = pc /\ trying' = None /\ Admitted = {} /\ phase' = phase /\ phase[r] = "running"
      /\ ckpt' = ckpt /\ staged' = staged /\ committed' = committed /\ killed' = killed /\ trying = None
  BY DEF Decode
<1>3. Admitted' = {} /\ \A x \in Req : phase'[x] # "admitted"
  BY <1>2, WorkloadStays DEF Admitted
<1>4. cached' \in [Hashes -> Seq(Blocks)] /\ \A k \in Hashes : ToSet(Evicted({b})[k]) \subseteq ToSet(cached'[k])
  <2>1. PICK known : known = len[r] - 1
    OBVIOUS
  <2>2. PICK n : n = len[r]
    OBVIOUS
  <2>3. PICK t : t = table'[r]
    OBVIOUS
  <2>4. PICK c : c = Evicted({b})
    OBVIOUS
  <2>5. c \in [Hashes -> Seq(Blocks)]
    BY <2>4, EvictedDrops
  <2>6. /\ n \in Nat /\ known \in Nat /\ n <= Len(Text[r]) /\ t \in Seq(Blocks) /\ n <= Len(t)
    <3>1. BlockTypes /\ RequestTypes /\ HeldSound /\ (BlockTypes' /\ RequestTypes' /\ HeldSound')
      BY DecodeBlocks DEF Inv, BlockInv
    <3>2. PromptLen[r] \in Nat /\ 1 <= PromptLen[r]
      BY Workload DEF Inv
    <3>3. n \in Nat /\ n <= Len(Text[r]) /\ known \in Nat
      BY <2>1, <2>2, <3>1, <3>2 DEF RequestTypes
    <3>4. t \in Seq(Blocks) /\ Len(t) = len'[r] - 1
      BY <1>2, <2>3, <3>1, WorkloadStays DEF BlockTypes, HeldSound, HeldBy
    <3>5. len'[r] = n + 1
      BY <2>2, <3>1 DEF Decode, RequestTypes
    <3> QED BY <3>3, <3>4, <3>5
  <2>7. Adds(Publish(c, r, t, known, n), c, r, t, known, n)
    BY <2>5, <2>6, PublishAdds
  <2>8. cached' = Publish(c, r, t, known, n)
    BY <1>1, <2>1, <2>2, <2>3, <2>4
  <2>9. Adds(cached', c, r, t, known, n)
    BY <2>7, <2>8
  <2> QED BY <2>4, <2>9 DEF Adds
<1>5. StartsGranted'
  BY <1>3 DEF StartsGranted
<1> QED BY <1>1, <1>2, <1>3, <1>4, <1>5, TakingStore

LEMMA AdmitStore ==
    ASSUME Inv, Admit, load' = load
    PROVE  StoreInv'
<1>1. PICK r, hit, S : AdmitsWith(r, hit, S)
  BY AdmitEffect
<1>2. /\ r = trying.req /\ hit = trying.hit /\ r \in Req /\ hit \in Seq(Blocks) /\ trying # None /\ trying' = None
      /\ pc = "schedule" /\ pc' = pc /\ phase[r] \in {"waiting", "preempted"}
      /\ Len(hit) \in Nat /\ Len(hit) < len[r] /\ len[r] < Len(Text[r]) /\ Len(Text[r]) \in Nat /\ len[r] \in Nat
      /\ S \cap ToSet(hit) = {} /\ S \subseteq FreeBlocks /\ entries' = Coupled(S)
      /\ \A i \in 1 .. Len(hit) : hit[i] \in ToSet(cached[Prefix(r, i)])
      /\ phase' = [phase EXCEPT ![r] = "admitted"] /\ start' = [start EXCEPT ![r] = Len(hit)]
      /\ ckpt' = ckpt /\ staged' = staged /\ committed' = committed /\ killed' = killed
  BY <1>1 DEF AdmitsWith
<1>3. /\ cached' \in [Hashes -> Seq(Blocks)]
      /\ \A k \in Hashes : \A b : b \in ToSet(cached[k]) /\ b \notin S => b \in ToSet(cached'[k])
  BY <1>1 DEF AdmitsWith
<1>4. BlockInv /\ StoreInv
  BY DEF Inv
<1>5. \A k \in Hashes : ToSet(Evicted(S)[k]) = ToSet(cached[k]) \ S
  BY EvictedDrops
<1>6. \A k \in Hashes : ToSet(Evicted(S)[k]) \subseteq ToSet(cached'[k])
  BY <1>3, <1>5
<1>7. /\ phase'[r] = "admitted" /\ start'[r] = Len(hit)
      /\ \A x \in Req : x # r => phase'[x] = phase[x] /\ start'[x] = start[x]
  BY <1>2, <1>4 DEF BlockInv, RequestTypes
<1>8. Len(hit) = GrantedAt(staged[r]) /\ (Len(hit) > 0 /\ ~killed => staged[r].ckpt \in ToSet(entries))
  BY <1>2, <1>4 DEF StoreInv, TryingGranted
<1>9. StartsGranted'
  <2>1. \A x \in Req : phase'[x] = "admitted" => start'[x] = GrantedAt(staged[x])
    BY <1>2, <1>4, <1>7, <1>8 DEF StoreInv, StartsGranted, Admitted
  <2>2. \A x \in Admitted' : phase'[x] = "admitted" /\ x \in Req
    BY WorkloadStays DEF Admitted
  <2> QED BY <1>2, <2>1, <2>2 DEF StartsGranted, GrantedAt
<1>10. \A x \in Req : ~killed /\ phase'[x] = "admitted" /\ staged[x] # None /\ staged[x].q > 0 =>
           staged[x].ckpt \in ToSet(entries) /\ Evicted(S)[Prefix(x, staged[x].q)] # <<>>
  <2> TAKE x \in Req
  <2> HAVE ~killed /\ phase'[x] = "admitted" /\ staged[x] # None /\ staged[x].q > 0
  <2>1. PICK q : q = staged[x].q
    OBVIOUS
  <2>2. q \in Nat /\ q > 0 /\ GrantedAt(staged[x]) = q
    <3>1. staged[x] \in Grants /\ staged[x] # None
      BY <1>4 DEF StoreInv, StoreTypes
    <3> QED BY <2>1, <3>1 DEF Grants, GrantedAt
  <2>3. staged[x].ckpt \in ToSet(entries) /\ q \in 1 .. Len(Text[x])
        /\ \E b : b \in ToSet(cached[Prefix(x, q)]) /\ b \notin S
    <3>1. CASE x = r
      <4>1. q = Len(hit) /\ staged[x].ckpt \in ToSet(entries)
        BY <1>8, <2>2, <3>1
      <4>2. q \in 1 .. Len(hit) /\ q \in 1 .. Len(Text[x])
        BY <1>2, <2>2, <3>1, <4>1
      <4>3. hit[q] \in ToSet(cached[Prefix(x, q)]) /\ hit[q] \in ToSet(hit)
        BY <1>2, <3>1, <4>2, SeqElements
      <4> QED BY <1>2, <4>1, <4>2, <4>3
    <3>2. CASE x # r
      <4>1. phase[x] = "admitted" /\ x \in Admitted
        BY <1>7, <3>2 DEF Admitted
      <4>2. staged[x].ckpt \in ToSet(entries)
        BY <1>4, <4>1 DEF StoreInv, GrantsStored
      <4>3. start[x] = q
        BY <1>2, <1>4, <2>2, <4>1 DEF StoreInv, StartsGranted
      <4>4. /\ Len(table[x]) = len[x] /\ start[x] < len[x] /\ len[x] < Len(Text[x]) /\ len[x] \in Nat
            /\ table[x][q] \in ToSet(cached[Prefix(x, q)])
        <5>1. q \in 1 .. start[x]
          BY <2>2, <4>3
        <5> QED BY <1>4, <4>1, <5>1 DEF BlockInv, AdmittedShape, RequestTypes, HitsCached
      <4>5. Len(Text[x]) \in Nat
        BY Workload DEF Inv
      <4>6. q \in 1 .. Len(Text[x]) /\ q \in 1 .. Len(table[x])
        BY <2>2, <4>3, <4>4, <4>5
      <4>7. table[x][q] \notin S
        BY <1>2, <4>6, FreeIsUnheld
      <4> QED BY <4>2, <4>4, <4>6, <4>7
    <3> QED BY <3>1, <3>2
  <2>4. Prefix(x, q) \in Hashes
    BY <2>3, PrefixFacts DEF Inv
  <2>5. ToSet(Evicted(S)[Prefix(x, q)]) # {}
    BY <1>5, <2>3, <2>4
  <2>6. ToSet(<<>>) = {}
    BY DEF ToSet
  <2> QED BY <2>1, <2>3, <2>5, <2>6
<1> QED BY <1>2, <1>3, <1>6, <1>9, <1>10, TakingStore

-----------------------------------------------------------------------------
(* Committing the grants *)

\* Touching reorders the store and nothing else.
LEMMA TouchedKeeps ==
    ASSUME Inv, NEW touched, touched \subseteq ToSet(entries), NEW order \in Seq(touched), ToSet(order) = touched
    PROVE  /\ Without(entries, touched) \o order \in Seq(Serials)
           /\ ToSet(Without(entries, touched) \o order) = ToSet(entries)
<1>1. entries \in Seq(Serials)
  BY DEF Inv, StoreInv, StoreTypes
<1>2. IsFiniteSet(ToSet(entries)) /\ ToSet(entries) \subseteq Serials
  BY <1>1, SeqElements
<1>3. IsFiniteSet(touched) /\ touched \subseteq Serials
  BY <1>2, FS_Subset
<1>4. ToSet(order) = touched
  OBVIOUS
<1>5. order \in Seq(Serials)
  BY <1>3, SeqMonotonic
<1>6. PICK kept : kept = Without(entries, touched)
  OBVIOUS
<1>7. kept \in Seq(Serials) /\ ToSet(kept) = ToSet(entries) \ touched
  BY <1>1, <1>6, WithoutDrops
<1>8. kept \o order \in Seq(Serials) /\ ToSet(kept \o order) = ToSet(kept) \cup ToSet(order)
  BY <1>5, <1>7, JoinedElements
<1>9. (ToSet(entries) \ touched) \cup touched = ToSet(entries)
  OBVIOUS
<1> QED BY <1>4, <1>6, <1>7, <1>8, <1>9

LEMMA CommitStore ==
    ASSUME Inv, Commit, load' = load
    PROVE  StoreInv'
<1>1. /\ pc = "schedule" /\ trying = None /\ pc' = "model"
      /\ committed' = [r \in Req |-> IF Commits(r) THEN staged[r] ELSE None]
      /\ staged' = [r \in Req |-> None]
      /\ ckpt' = [s \in Serials |-> [ckpt[s] EXCEPT !.pins =
                     @ + Cardinality({r \in Req : committed'[r] # None /\ committed'[r].ckpt = s})]]
      /\ killed' = killed /\ cached' = cached /\ phase' = phase /\ start' = start /\ trying' = trying
  BY DEF Commit, kvcache, requests
<1>2. StoreInv
  BY DEF Inv
<1>3. entries' \in Seq(Serials) /\ ToSet(entries') = ToSet(entries)
  <2>1. PICK touched : /\ touched \subseteq ToSet(entries)
                       /\ \E order \in SetToSeqs(touched) : entries' = Without(entries, touched) \o order
    <3> DEFINE granted == {committed'[r].ckpt : r \in {x \in Req : committed'[x] # None}}
               wanted(s) == \E g \in granted \cap Serials : ckpt[s].key = ckpt[g].key
    <3>1. \E order \in SetToSeqs({s \in ToSet(entries) : wanted(s)}) :
             entries' = Without(entries, {s \in ToSet(entries) : wanted(s)}) \o order
      BY Zenon DEF Commit
    <3> HIDE DEF wanted
    <3>2. {s \in ToSet(entries) : wanted(s)} \subseteq ToSet(entries)
      OBVIOUS
    <3> QED BY <3>1, <3>2
  <2>2. PICK order \in SetToSeqs(touched) : entries' = Without(entries, touched) \o order
    BY <2>1
  <2>3. IsFiniteSet(touched)
    BY <1>2, <2>1, SeqElements, FS_Subset DEF StoreInv, StoreTypes
  <2>4. order \in Seq(touched) /\ ToSet(order) = touched
    BY <2>3, OrdersList
  <2> QED BY <2>1, <2>2, <2>4, TouchedKeeps
<1>4. \A x \in Req : committed[x] = None
  BY <1>1, <1>2 DEF StoreInv, StoreTypes
<1>5. \A s : Holders(s) = {}
  BY <1>4 DEF Holders
<1>6. \A s \in Serials : /\ ckpt[s] \in [key : Hashes \cup {None}, gdn : Hashes \cup {None}, pins : Nat]
                         /\ ckpt[s].pins = 0
  BY <1>2, <1>5, FS_EmptySet DEF StoreInv, StoreTypes, CheckpointsSound
<1>7. \A s : Holders(s)' = {r \in Req : committed'[r] # None /\ committed'[r].ckpt = s}
  BY WorkloadStays DEF Holders
<1>8. \A s : Cardinality(Holders(s)') \in Nat
  <2> TAKE s
  <2>1. IsFiniteSet(Req) /\ Holders(s)' \subseteq Req
    BY <1>7, Workload DEF Inv
  <2> QED BY <2>1, FS_Subset, FS_CardinalityType
<1>9. \A s \in Serials : ckpt'[s] = [ckpt[s] EXCEPT !.pins = Cardinality(Holders(s)')]
  <2>1. \A s \in Serials : ckpt'[s] = [ckpt[s] EXCEPT !.pins = @ + Cardinality(Holders(s)')]
    BY <1>1, <1>7
  <2>2. \A s \in Serials : ckpt[s].pins + Cardinality(Holders(s)') = Cardinality(Holders(s)')
    BY <1>6, <1>8
  <2> QED BY <2>1, <2>2
<1>10. /\ ckpt' \in [Serials -> [key : Hashes \cup {None}, gdn : Hashes \cup {None}, pins : Nat]]
       /\ \A s \in Serials : /\ ckpt'[s].key = ckpt[s].key /\ ckpt'[s].gdn = ckpt[s].gdn
                             /\ ckpt'[s].pins = Cardinality(Holders(s)')
  <2>1. ckpt' = [s \in Serials |-> ckpt'[s]]
    BY <1>1
  <2> QED BY <1>6, <1>8, <1>9, <2>1
<1>11. \A x \in Req : committed'[x] # None =>
           /\ committed'[x] = staged[x] /\ staged[x] # None /\ phase[x] = "admitted"
  BY <1>1 DEF Commits
<1>12. StoreTypes'
  <2>1. None \in Grants
    BY DEF Grants
  <2>2. committed' \in [Req -> Grants] /\ staged' \in [Req -> Grants]
    BY <1>1, <1>2, <2>1 DEF StoreInv, StoreTypes
  <2> QED BY <1>1, <1>3, <1>10, <2>2, WorkloadStays DEF StoreTypes
<1>13. GrantsSound'
  <2>1. \A x \in Req : committed'[x] # None => GrantSound(x, committed'[x])
    BY <1>2, <1>11 DEF StoreInv, GrantsSound
  <2>2. \A x \in Req : committed'[x] # None => GrantSound(x, committed[x])'
    BY <1>10, <2>1, WorkloadStays DEF GrantSound, BelowWindow, Prefix, Floor
  <2> QED BY <1>1, <1>11, <2>2, WorkloadStays DEF GrantsSound
<1>14. StartsGranted'
  <2>1. \A x \in Admitted : committed'[x] = staged[x] /\ start[x] = GrantedAt(staged[x])
    BY <1>1, <1>2 DEF StoreInv, StartsGranted, GrantedAt, Commits, Admitted
  <2>2. Admitted' = Admitted
    BY <1>1, WorkloadStays DEF Admitted
  <2> QED BY <1>1, <2>1, <2>2 DEF StartsGranted, GrantedAt
<1>15. CheckpointsSound'
  <2>1. ToSet(entries) \subseteq Serials
    BY <1>2, SeqElements DEF StoreInv, StoreTypes
  <2>2. \A s \in Serials : ckpt'[s].gdn = ckpt'[s].key
    BY <1>2, <1>10 DEF StoreInv, CheckpointsSound
  <2>3. \A s \in ToSet(entries) : ckpt'[s].key \in Hashes
    BY <1>2, <1>10, <2>1 DEF StoreInv, CheckpointsSound
  <2> QED BY <1>3, <1>10, <2>2, <2>3, WorkloadStays DEF CheckpointsSound
<1>16. GrantsStored'
  BY <1>1, <1>2, <1>3, <1>11, WorkloadStays DEF StoreInv, GrantsStored
<1>17. StoreFits'
  <2>1. CASE ToSet(entries) = {}
    BY <1>3, <2>1, FS_EmptySet, Workload, WorkloadStays DEF Inv, StoreFits
  <2>2. CASE ToSet(entries) # {}
    BY <1>1, <1>2, <1>3, <1>5, <2>2, WorkloadStays DEF StoreInv, StoreFits
  <2> QED BY <2>1, <2>2
<1>18. TryingGranted' /\ StoredHaveKv'
  <2>1. ToSet(entries) \subseteq Serials
    BY <1>2, SeqElements DEF StoreInv, StoreTypes
  <2> QED BY <1>1, <1>2, <1>3, <1>10, <2>1 DEF StoreInv, TryingGranted, StoredHaveKv
<1> QED BY <1>12, <1>13, <1>14, <1>15, <1>16, <1>17, <1>18 DEF StoreInv

-----------------------------------------------------------------------------
(* Between steps *)

\* A request that is freed gives back its pin and no other's.
LEMMA FreedPins ==
    ASSUME Inv, NEW r \in Req, NEW s \in Serials,
           NEW H, H = Holders(s) \ {r}, NEW G, G = {x \in Req : Forgotten(r)[x] # None /\ Forgotten(r)[x].ckpt = s}
    PROVE  Cardinality(H) \in Nat /\ ckpt[s].pins - Cardinality(G) = Cardinality(H)
<1>1. PICK old : old = Holders(s)
  OBVIOUS
<1>2. old \subseteq Req /\ IsFiniteSet(Req)
  BY <1>1, Workload DEF Holders, Inv
<1>3. IsFiniteSet(old) /\ Cardinality(old) \in Nat
  BY <1>2, FS_Subset, FS_CardinalityType
<1>4. ckpt[s].pins = Cardinality(old)
  BY <1>1 DEF Inv, StoreInv, CheckpointsSound
<1>5. G = IF r \in old THEN {r} ELSE {}
  BY <1>1 DEF Forgotten, Holders
<1>6. CASE r \in old
  <2>1. Cardinality(H) = Cardinality(old) - 1 /\ IsFiniteSet(H)
    BY <1>1, <1>3, <1>6, FS_RemoveElement
  <2>2. Cardinality(G) = 1
    BY <1>5, <1>6, FS_Singleton
  <2>3. Cardinality(H) \in Nat
    BY <2>1, FS_CardinalityType
  <2> QED BY <1>3, <1>4, <2>1, <2>2, <2>3
<1>7. CASE r \notin old
  <2>1. H = old /\ G = {}
    BY <1>1, <1>5, <1>7
  <2>2. Cardinality(G) = 0
    BY <2>1, FS_EmptySet
  <2>3. \A n \in Nat : n - 0 = n
    OBVIOUS
  <2> QED BY <1>3, <1>4, <2>1, <2>2, <2>3, Zenon
<1> QED BY <1>6, <1>7

LEMMA FreeRequestStore ==
    ASSUME Inv, NEW r \in Req, FreeRequest(r), load' = load
    PROVE  StoreInv'
<1>1. /\ pc = "idle" /\ pc' = pc /\ trying' = trying /\ entries' = entries /\ killed' = killed /\ cached' = cached
      /\ phase' = [phase EXCEPT ![r] = "done"] /\ ckpt' = Unpinned(ckpt, Forgotten(r))
      /\ committed' = [committed EXCEPT ![r] = None] /\ staged' = [staged EXCEPT ![r] = None]
  BY DEF FreeRequest
<1>2. StoreInv /\ trying = None /\ phase \in [Req -> {"waiting", "admitted", "running", "preempted", "done"}]
  BY <1>1 DEF Inv, BlockInv, StepPhases, RequestTypes
<1>3. /\ committed' \in [Req -> Grants] /\ staged' \in [Req -> Grants]
      /\ committed'[r] = None /\ \A x \in Req : x # r => committed'[x] = committed[x] /\ phase'[x] = phase[x]
      /\ \A x \in Req : staged'[x] = None
  <2>1. None \in Grants
    BY DEF Grants
  <2> QED BY <1>1, <1>2, <2>1 DEF StoreInv, StoreTypes
<1>4. \A s : Holders(s)' = Holders(s) \ {r}
  <2> TAKE s
  <2>1. Holders(s)' = {x \in Req : committed'[x] # None /\ committed'[x].ckpt = s}
    BY WorkloadStays DEF Holders
  <2> QED BY <1>3, <2>1 DEF Holders
<1>5. \A s \in Serials : /\ ckpt'[s] = [ckpt[s] EXCEPT !.pins = Cardinality(Holders(s)')]
                         /\ Cardinality(Holders(s)') \in Nat
  <2> TAKE s \in Serials
  <2>1. PICK G : G = {x \in Req : Forgotten(r)[x] # None /\ Forgotten(r)[x].ckpt = s}
    OBVIOUS
  <2>2. PICK H : H = Holders(s) \ {r}
    OBVIOUS
  <2>3. Cardinality(H) \in Nat /\ ckpt[s].pins - Cardinality(G) = Cardinality(H)
    BY <2>1, <2>2, FreedPins
  <2>4. ckpt'[s] = [ckpt[s] EXCEPT !.pins = @ - Cardinality(G)]
    BY <1>1, <2>1 DEF Unpinned
  <2>5. Holders(s)' = H
    BY <1>4, <2>2
  <2> QED BY <2>3, <2>4, <2>5
<1>6. /\ ckpt' \in [Serials -> [key : Hashes \cup {None}, gdn : Hashes \cup {None}, pins : Nat]]
      /\ \A s \in Serials : /\ ckpt'[s].key = ckpt[s].key /\ ckpt'[s].gdn = ckpt[s].gdn
                            /\ ckpt'[s].pins = Cardinality(Holders(s)')
  <2>1. \A s \in Serials : ckpt[s] \in [key : Hashes \cup {None}, gdn : Hashes \cup {None}, pins : Nat]
    BY <1>2 DEF StoreInv, StoreTypes
  <2>2. ckpt' = [s \in Serials |-> ckpt'[s]]
    BY <1>1 DEF Unpinned
  <2> QED BY <1>5, <2>1, <2>2
<1>7. ToSet(entries) \subseteq Serials
  BY <1>2, SeqElements DEF StoreInv, StoreTypes
<1>8. StoreTypes'
  BY <1>1, <1>2, <1>3, <1>6, WorkloadStays DEF StoreInv, StoreTypes
<1>9. GrantsSound'
  <2>1. \A x \in Req : committed'[x] # None =>
            x # r /\ GrantSound(x, committed'[x]) /\ phase'[x] \in {"admitted", "running"}
    BY <1>2, <1>3 DEF StoreInv, GrantsSound
  <2>2. \A x \in Req : committed'[x] # None => GrantSound(x, committed[x])'
    BY <1>6, <2>1, WorkloadStays DEF GrantSound, BelowWindow, Prefix, Floor
  <2> QED BY <1>3, <2>1, <2>2, WorkloadStays DEF GrantsSound
<1>10. CheckpointsSound'
  <2>1. \A s \in Serials : ckpt'[s].gdn = ckpt'[s].key
    BY <1>2, <1>6 DEF StoreInv, CheckpointsSound
  <2>2. \A s \in ToSet(entries) : ckpt'[s].key \in Hashes
    BY <1>2, <1>6, <1>7 DEF StoreInv, CheckpointsSound
  <2> QED BY <1>1, <1>6, <2>1, <2>2, WorkloadStays DEF CheckpointsSound
<1>11. GrantsStored'
  BY <1>1, <1>2, <1>3, WorkloadStays DEF StoreInv, GrantsStored
<1>12. TryingGranted' /\ StartsGranted' /\ StoreFits'
  BY <1>1, <1>2 DEF TryingGranted, StartsGranted, StoreFits
<1>13. StoredHaveKv'
  BY <1>1, <1>2, <1>6, <1>7 DEF StoreInv, StoredHaveKv
<1> QED BY <1>8, <1>9, <1>10, <1>11, <1>12, <1>13 DEF StoreInv

LEMMA ResetStore ==
    ASSUME Inv, ResetPrefixCache, load' = load
    PROVE  StoreInv'
<1>1. /\ pc = "idle" /\ pc' = pc /\ FreeBlocks = Blocks /\ entries' = <<>> /\ trying' = trying
      /\ ckpt' = ckpt /\ killed' = killed /\ staged' = staged /\ committed' = committed /\ phase' = phase
  BY DEF ResetPrefixCache, requests
<1>2. StoreInv /\ BlockInv /\ trying = None /\ Admitted = {}
  BY <1>1 DEF Inv, BlockInv, StepPhases
<1>3. \A x \in Req : committed[x] = None
  <2> SUFFICES ASSUME NEW x \in Req, committed[x] # None PROVE FALSE
    OBVIOUS
  <2>1. phase[x] = "running"
    BY <1>2 DEF StoreInv, GrantsSound, Admitted
  <2>2. /\ PromptLen[x] \in Nat /\ 1 <= PromptLen[x] /\ PromptLen[x] < len[x] /\ len[x] \in Nat
        /\ Len(table[x]) = len[x] - 1 /\ table[x] \in Seq(Blocks)
    BY <1>2, <2>1, Workload DEF Inv, BlockInv, RequestTypes, BlockTypes, HeldSound, HeldBy
  <2>3. 1 \in 1 .. Len(table[x])
    BY <2>2
  <2>4. table[x][1] \in Blocks
    BY <2>2, <2>3, ElementOfSeq
  <2> QED BY <1>1, <2>3, <2>4, FreeIsUnheld
<1>4. ToSet(entries') = {} /\ <<>> \in Seq(Serials)
  BY <1>1 DEF ToSet
<1>5. \A s : Holders(s)' = Holders(s)
  BY <1>1, WorkloadStays DEF Holders
<1>6. StoreTypes'
  BY <1>1, <1>2, <1>4, WorkloadStays DEF StoreInv, StoreTypes
<1>7. GrantsSound'
  BY <1>1, <1>2, <1>3, WorkloadStays DEF StoreInv, GrantsSound, GrantSound, BelowWindow, Prefix, Floor
<1>8. CheckpointsSound'
  BY <1>1, <1>2, <1>4, <1>5, WorkloadStays DEF StoreInv, CheckpointsSound
<1>9. GrantsStored'
  BY <1>1, <1>2, <1>3, WorkloadStays DEF GrantsStored, Admitted
<1>10. TryingGranted' /\ StartsGranted' /\ StoreFits' /\ StoredHaveKv'
  BY <1>1, <1>2, <1>4 DEF TryingGranted, StartsGranted, StoreFits, StoredHaveKv
<1> QED BY <1>6, <1>7, <1>8, <1>9, <1>10 DEF StoreInv

-----------------------------------------------------------------------------
(* Capturing a checkpoint *)

\* While the model runs there is always a checkpoint object to spare, and the new one is nobody's.
LEMMA NewIsFresh ==
    ASSUME Inv, pc = "model"
    PROVE  /\ NewSerial \in Serials /\ NewSerial \notin ToSet(entries)
           /\ \A x \in Req : committed[x] # None => committed[x].ckpt # NewSerial
<1>1. StoreInv
  BY DEF Inv
<1>2. PICK stored : stored = ToSet(entries)
  OBVIOUS
<1>3. PICK holding : holding = {x \in Req : committed[x] # None}
  OBVIOUS
<1>4. PICK granted : granted = {committed[x].ckpt : x \in holding}
  OBVIOUS
<1>5. stored \cup granted = Referenced
  <2>1. \A x \in Req : staged[x] = None
    BY <1>1 DEF StoreInv, StoreTypes
  <2>2. {staged[r].ckpt : r \in {x \in Req : staged[x] # None}} = {}
    BY <2>1
  <2>3. granted = {committed[r].ckpt : r \in {x \in Req : committed[x] # None}}
    BY <1>3, <1>4
  <2> DEFINE of(g) == {g[r].ckpt : r \in {x \in Req : g[x] # None}}
  <2>4. of(staged) = {} /\ of(committed) = granted
    BY <2>2, <2>3
  <2>5. Referenced = stored \cup UNION {of(g) : g \in {staged, committed}}
    BY <1>2, Zenon DEF Referenced
  <2> HIDE DEF of
  <2>6. UNION {of(g) : g \in {staged, committed}} = of(staged) \cup of(committed)
    OBVIOUS
  <2> QED BY <2>4, <2>5, <2>6
<1>6. IsFiniteSet(granted) /\ Cardinality(granted) <= Cardinality(Req) /\ Cardinality(granted) \in Nat
  <2>1. IsFiniteSet(Req) /\ Cardinality(Req) \in Nat /\ holding \in SUBSET Req
    BY <1>3, Workload DEF Inv
  <2>2. IsFiniteSet(holding) /\ Cardinality(holding) <= Cardinality(Req) /\ Cardinality(holding) \in Nat
    BY <2>1, FS_Subset, FS_CardinalityType
  <2>3. PICK f : f = [x \in holding |-> committed[x].ckpt]
    OBVIOUS
  <2>4. f \in [holding -> granted] /\ \A t \in granted : \E x \in holding : f[x] = t
    BY <1>4, <2>3
  <2>5. f \in Surjection(holding, granted)
    BY <2>4 DEF Surjection
  <2>6. IsFiniteSet(granted) /\ Cardinality(granted) <= Cardinality(holding)
    BY <2>2, <2>5, FS_Surjection
  <2>7. Cardinality(granted) \in Nat
    BY <2>6, FS_CardinalityType
  <2> QED BY <2>1, <2>2, <2>6, <2>7
<1>7. IsFiniteSet(stored) /\ Cardinality(stored) \in Nat
  BY <1>1, <1>2, SeqElements, FS_CardinalityType DEF StoreInv, StoreTypes
<1>8. IsFiniteSet(stored \cup granted) /\ Cardinality(stored \cup granted) <= Budget + Cardinality(Req)
  <2>1. Budget \in Nat /\ Cardinality(Req) \in Nat
    BY Workload DEF Inv
  <2>2. CASE Cardinality(stored) <= Budget
    <3>1. /\ IsFiniteSet(stored \cup granted) /\ Cardinality(stored \cap granted) \in Nat
          /\ Cardinality(stored \cup granted) =
               Cardinality(stored) + Cardinality(granted) - Cardinality(stored \cap granted)
      <4>1. IsFiniteSet(stored \cap granted)
        BY <1>7, FS_Subset
      <4> QED BY <1>6, <1>7, <4>1, FS_Union, FS_CardinalityType
    <3> QED BY <1>6, <1>7, <2>1, <2>2, <3>1
  <2>3. CASE \A s \in stored : Holders(s) # {}
    <3>1. \A s \in stored : s \in granted
      BY <1>3, <1>4, <2>3 DEF Holders
    <3>2. stored \cup granted = granted
      BY <3>1
    <3>3. \A a, b, c \in Nat : a <= c => a <= b + c
      OBVIOUS
    <3> QED BY <1>6, <2>1, <3>2, <3>3, Zenon
  <2> QED BY <1>1, <1>2, <2>2, <2>3 DEF StoreInv, StoreFits
<1>9. Serials \ Referenced # {}
  <2> SUFFICES ASSUME Serials \ Referenced = {} PROVE FALSE
    OBVIOUS
  <2>1. Serials \subseteq stored \cup granted
    BY <1>5
  <2>2. Cardinality(Serials) <= Cardinality(stored \cup granted)
    BY <1>8, <2>1, FS_Subset
  <2>3. Cardinality(Serials) = Budget + Cardinality(Req) + 1 /\ Budget \in Nat /\ Cardinality(Req) \in Nat
    BY Workload DEF Inv
  <2>4. \A a, b, c, u \in Nat : ~(a = b + c + 1 /\ a <= u /\ u <= b + c)
    OBVIOUS
  <2>5. Cardinality(stored \cup granted) \in Nat /\ Cardinality(Serials) \in Nat
    BY <1>8, FS_CardinalityType, Workload DEF Inv
  <2> QED BY <1>8, <2>2, <2>3, <2>4, <2>5, Zenon
<1>10. NewSerial \in Serials \ Referenced
  <2>1. PICK fresh : fresh = Serials \ Referenced
    BY Zenon
  <2>2. fresh \in SUBSET Nat /\ IsFiniteSet(fresh) /\ fresh # {}
    BY <1>9, <2>1, Workload, FS_Subset DEF Inv
  <2>3. \E s \in fresh : \A t \in fresh : s <= t
    BY <2>2, Smallest
  <2> QED BY <2>1, <2>3 DEF NewSerial
<1> QED BY <1>2, <1>3, <1>4, <1>5, <1>10

\* A checkpoint captured anew: what was stored for its prefix goes, then what the budget takes.
LEMMA NewStore ==
    ASSUME Inv, load' = load, pc = "model", pc' = pc, staged' = staged, committed' = committed, killed' = killed,
           cached' = cached, phase' = phase, start' = start, trying' = trying,
           NEW k \in Hashes, cached[k] # <<>>, \A s \in EntryFor(k) : ~(ckpt[s].pins > 0),
           ckpt' = [ckpt EXCEPT ![NewSerial] = [key |-> k, gdn |-> k, pins |-> 0]],
           entries' = EnforceBudget(Append(Without(entries, EntryFor(k)), NewSerial), ckpt')
    PROVE  StoreInv'
<1>1. StoreInv
  BY DEF Inv
<1>2. PICK n : n = NewSerial
  OBVIOUS
<1>3. n \in Serials /\ n \notin ToSet(entries) /\ \A x \in Req : committed[x] # None => committed[x].ckpt # n
  BY <1>2, NewIsFresh
<1>4. PICK old : old = EntryFor(k)
  OBVIOUS
<1>5. PICK es : es = Append(Without(entries, old), n)
  OBVIOUS
<1>6. es \in Seq(Serials) /\ ToSet(es) = (ToSet(entries) \ old) \cup {n}
  <2>1. PICK kept : kept = Without(entries, old)
    OBVIOUS
  <2>2. kept \in Seq(Serials) /\ ToSet(kept) = ToSet(entries) \ old
    BY <1>1, <2>1, WithoutDrops DEF StoreInv, StoreTypes
  <2>3. Append(kept, n) \in Seq(Serials) /\ ToSet(Append(kept, n)) = ToSet(kept) \cup {n}
    BY <1>3, <2>2, AppendedElements
  <2> QED BY <1>5, <2>1, <2>2, <2>3
<1>7. PICK objects : objects = ckpt'
  OBVIOUS
<1>8. /\ objects = [ckpt EXCEPT ![n] = [key |-> k, gdn |-> k, pins |-> 0]]
      /\ entries' = EnforceBudget(es, objects)
  BY <1>2, <1>4, <1>5, <1>7
<1>9. /\ objects \in [Serials -> [key : Hashes \cup {None}, gdn : Hashes \cup {None}, pins : Nat]]
      /\ objects[n] = [key |-> k, gdn |-> k, pins |-> 0]
      /\ \A s \in Serials : s # n => objects[s] = ckpt[s]
  BY <1>1, <1>3, <1>8 DEF StoreInv, StoreTypes
<1>10. \A s : Holders(s)' = Holders(s)
  BY WorkloadStays DEF Holders
<1>11. \A s \in Serials : objects[s].gdn = objects[s].key /\ objects[s].pins = Cardinality(Holders(s))
  <2> TAKE s \in Serials
  <2>1. CASE s = n
    <3>1. Holders(n) = {}
      BY <1>3 DEF Holders
    <3> QED BY <1>9, <2>1, <3>1, FS_EmptySet
  <2>2. CASE s # n
    BY <1>1, <1>9, <2>2 DEF StoreInv, CheckpointsSound
  <2> QED BY <2>1, <2>2
<1>12. /\ entries' \in Seq(Serials) /\ ToSet(entries') \subseteq ToSet(es) /\ Budget \in Nat
       /\ \A s \in ToSet(es) : objects[s].pins # 0 => s \in ToSet(entries')
       /\ \/ Cardinality(ToSet(entries')) <= Budget
          \/ \A s \in ToSet(entries') : objects[s].pins # 0
  <2>1. Budget \in Nat
    BY Workload DEF Inv
  <2>2. /\ EnforceBudget(es, objects) \in Seq(Serials)
        /\ ToSet(EnforceBudget(es, objects)) \subseteq ToSet(es)
        /\ \A s \in ToSet(es) : objects[s].pins # 0 => s \in ToSet(EnforceBudget(es, objects))
        /\ \/ Cardinality(ToSet(EnforceBudget(es, objects))) <= Budget
           \/ \A s \in ToSet(EnforceBudget(es, objects)) : objects[s].pins # 0
    BY <1>6, <2>1, BudgetKeepsPinned
  <2> QED BY <1>8, <2>1, <2>2
<1>13. ToSet(entries') \subseteq Serials /\ ToSet(entries) \subseteq Serials
  BY <1>1, <1>12, SeqElements DEF StoreInv, StoreTypes
<1>14. StoreTypes'
  BY <1>1, <1>7, <1>9, <1>12, WorkloadStays DEF StoreInv, StoreTypes
<1>15. GrantsSound'
  <2>1. \A x \in Req : committed[x] # None /\ committed[x].q > 0 =>
            objects[committed[x].ckpt].key = ckpt[committed[x].ckpt].key
    BY <1>1, <1>3, <1>9 DEF StoreInv, GrantsSound, GrantSound
  <2>2. \A x \in Req : committed[x] # None => GrantSound(x, committed[x])
    BY <1>1 DEF StoreInv, GrantsSound
  <2>3. \A x \in Req : committed[x] # None => GrantSound(x, committed[x])'
    <3>1. /\ Excluded' = Excluded /\ Serials' = Serials /\ Chunk' = Chunk /\ Sticky' = Sticky
          /\ PromptLen' = PromptLen /\ Text' = Text
      BY WorkloadStays
    <3>2. ckpt' = objects /\ committed' = committed
      BY <1>7
    <3> QED BY <2>1, <2>2, <3>1, <3>2 DEF GrantSound, BelowWindow, Prefix, Floor
  <2>4. \A x \in Req : staged[x] = None
    BY <1>1 DEF StoreInv, StoreTypes
  <2> QED BY <1>1, <2>3, <2>4, WorkloadStays DEF StoreInv, GrantsSound
<1>16. TryingGranted' /\ StartsGranted'
  <2>1. trying = None /\ Admitted' = Admitted
    BY WorkloadStays DEF Inv, BlockInv, StepPhases, Admitted
  <2> QED BY <1>1, <2>1 DEF StoreInv, TryingGranted, StartsGranted, GrantedAt
<1>17. \A s \in ToSet(entries') : objects[s].key \in Hashes /\ cached[objects[s].key] # <<>>
  <2> TAKE s \in ToSet(entries')
  <2>1. CASE s = n
    BY <1>9, <2>1
  <2>2. CASE s # n
    <3>1. s \in ToSet(entries) /\ objects[s] = ckpt[s]
      BY <1>6, <1>9, <1>12, <1>13, <2>2
    <3> QED BY <1>1, <3>1 DEF StoreInv, CheckpointsSound, StoredHaveKv
  <2> QED BY <2>1, <2>2
<1>18. CheckpointsSound'
  BY <1>7, <1>10, <1>11, <1>17, WorkloadStays DEF CheckpointsSound
<1>19. StoredHaveKv'
  BY <1>7, <1>17 DEF StoredHaveKv
<1>20. \A s \in Serials : objects[s].pins # 0 <=> Holders(s) # {}
  <2> TAKE s \in Serials
  <2>1. IsFiniteSet(Holders(s))
    BY Workload, FS_Subset DEF Inv, Holders
  <2>2. Cardinality(Holders(s)) = 0 <=> Holders(s) = {}
    BY <2>1, FS_EmptySet
  <2> QED BY <1>11, <2>2
<1>21. GrantsStored'
  <2>1. \A x \in Req : ~killed /\ committed[x] # None /\ committed[x].q > 0 => committed[x].ckpt \in ToSet(entries')
    <3> TAKE x \in Req
    <3> HAVE ~killed /\ committed[x] # None /\ committed[x].q > 0
    <3>1. PICK c : c = committed[x].ckpt
      OBVIOUS
    <3>2. c \in ToSet(entries) /\ c \in Serials /\ c # n
      BY <1>1, <1>3, <1>13, <3>1 DEF StoreInv, GrantsStored
    <3>3. objects[c].pins # 0 /\ objects[c] = ckpt[c] /\ ckpt[c].pins \in Nat
      <4>1. x \in Holders(c)
        BY <3>1 DEF Holders
      <4>2. ckpt[c].pins \in Nat
        BY <1>1, <3>2 DEF StoreInv, StoreTypes
      <4> QED BY <1>9, <1>20, <3>2, <4>1, <4>2
    <3>4. c \notin old
      BY <1>4, <3>3
    <3> QED BY <1>6, <1>12, <3>1, <3>2, <3>3, <3>4
  <2>2. \A x \in Req : staged[x] = None
    BY <1>1 DEF StoreInv, StoreTypes
  <2> QED BY <2>1, <2>2, WorkloadStays DEF GrantsStored
<1>22. StoreFits'
  BY <1>10, <1>12, <1>13, <1>20, WorkloadStays DEF StoreFits
<1> QED BY <1>14, <1>15, <1>16, <1>18, <1>19, <1>21, <1>22 DEF StoreInv

LEMMA RunChunkStore ==
    ASSUME Inv, RunChunk, load' = load
    PROVE  StoreInv'
<1>1. row # None
  BY DEF RunChunk
<1>2. PICK r : r = row.req
  OBVIOUS
<1>3. PICK pos : pos = row.pos
  OBVIOUS
<1>4. PICK end : end = pos + Chunk
  OBVIOUS
<1>5. /\ pc' = pc /\ killed' = killed /\ staged' = staged /\ committed' = committed /\ cached' = cached
      /\ phase' = phase /\ start' = start /\ trying' = trying /\ end <= len[r]
      /\ scratch' = scratch \o SubSeq(Text[r], pos + 1, end)
      /\ Capture(r, end, scratch') \/ (entries' = entries /\ ckpt' = ckpt)
  BY <1>2, <1>3, <1>4 DEF RunChunk, requests
<1>6. /\ r \in Admitted /\ r \in Req /\ pos \in Nat /\ pc = "model" /\ trying = None
      /\ len[r] \in Nat /\ start[r] <= pos /\ start[r] \in Nat /\ scratch = Prefix(r, pos)
      /\ len[r] < Len(Text[r]) /\ Len(Text[r]) \in Nat
  BY <1>1, <1>2, <1>3, RunningRow
<1>7. StoreInv
  BY DEF Inv
<1>8. pos < end /\ end \in Nat
  <2>1. Chunk \in Nat /\ Chunk # 0
    BY Workload DEF Inv
  <2> QED BY <1>4, <1>6, <2>1
<1>9. /\ end \in 0 .. Len(Text[r]) /\ end \in 1 .. Len(Text[r])
      /\ pos \in 0 .. Len(Text[r]) /\ end \in pos .. Len(Text[r])
  <2>1. PICK n : n = len[r]
    OBVIOUS
  <2>2. PICK m : m = Len(Text[r])
    OBVIOUS
  <2>3. n \in Nat /\ m \in Nat /\ pos \in Nat /\ end \in Nat /\ pos < end /\ end <= n /\ n < m
    BY <1>5, <1>6, <1>8, <2>1, <2>2
  <2>4. end \in 0 .. m /\ end \in 1 .. m /\ pos \in 0 .. m /\ end \in pos .. m
    BY <2>3
  <2> QED BY <2>2, <2>4
<1>10. Admitted' = Admitted /\ TryingGranted' /\ StartsGranted'
  <2>1. Admitted' = Admitted
    BY <1>5, WorkloadStays DEF Admitted
  <2> QED BY <1>5, <1>6, <1>7, <2>1 DEF StoreInv, TryingGranted, StartsGranted, GrantedAt
<1>11. \A x \in Req : committed[x] # None => phase'[x] \in {"admitted", "running"}
  BY <1>5, <1>7 DEF StoreInv, GrantsSound
<1>12. CASE ckpt' = ckpt /\ (entries' = entries \/ (entries' \in Seq(Serials) /\ ToSet(entries') = ToSet(entries)))
  BY <1>5, <1>10, <1>11, <1>12, StoreKept
<1>13. CASE Capture(r, end, scratch')
  <2>1. PICK k : k = Prefix(r, end)
    OBVIOUS
  <2>2. scratch' = k
    <3>1. Prefix(r, pos) \o SubSeq(Text[r], pos + 1, end) = Prefix(r, end)
      BY <1>6, <1>9, PrefixFacts DEF Inv
    <3> QED BY <1>5, <1>6, <2>1, <3>1
  <2>3. committed[r] # None /\ end \in committed[r].plan /\ Put(k, k)
    BY <1>13, <2>1, <2>2 DEF Capture
  <2>4. k \in Hashes
    BY <1>6, <1>9, <2>1, PrefixFacts DEF Inv
  <2>5. ~killed => cached[k] # <<>>
    <3> SUFFICES ASSUME ~killed PROVE cached[k] # <<>>
      OBVIOUS
    <3>1. r \notin Excluded /\ end <= Floor(PromptLen[r])
      BY <1>6, <1>7, <2>3 DEF StoreInv, GrantsSound, GrantSound
    <3>2. end \in start[r] + 1 .. len[r]
      BY <1>5, <1>6, <1>8
    <3>3. table[r][end] \in ToSet(cached[Prefix(r, end)])
      BY <1>6, <3>1, <3>2 DEF Inv, BlockInv, PromptsCached
    <3>4. ToSet(<<>>) = {}
      BY DEF ToSet
    <3> QED BY <2>1, <3>3, <3>4
  <2>6. CASE killed \/ Budget = 0
    BY <1>12, <2>3, <2>6 DEF Put
  <2>7. CASE ~(killed \/ Budget = 0) /\ \E s \in EntryFor(k) : ckpt[s].pins > 0
    <3>1. entries' = Without(entries, EntryFor(k)) \o SetToSeq(EntryFor(k)) /\ ckpt' = ckpt
      BY <2>3, <2>7, Zenon DEF Put
    <3>2. EntryFor(k) \subseteq ToSet(entries)
      BY DEF EntryFor
    <3>3. IsFiniteSet(EntryFor(k))
      BY <1>7, <3>2, SeqElements, FS_Subset DEF StoreInv, StoreTypes
    <3>4. SetToSeq(EntryFor(k)) \in Seq(EntryFor(k)) /\ ToSet(SetToSeq(EntryFor(k))) = EntryFor(k)
      BY <3>3, OrdersList
    <3>5. entries' \in Seq(Serials) /\ ToSet(entries') = ToSet(entries)
      BY <3>1, <3>2, <3>4, TouchedKeeps
    <3> QED BY <1>12, <3>1, <3>5
  <2>8. CASE ~(killed \/ Budget = 0) /\ ~\E s \in EntryFor(k) : ckpt[s].pins > 0
    <3>1. /\ ckpt' = [ckpt EXCEPT ![NewSerial] = [key |-> k, gdn |-> k, pins |-> 0]]
          /\ entries' = EnforceBudget(Append(Without(entries, EntryFor(k)), NewSerial), ckpt')
      BY <2>3, <2>8, Zenon DEF Put
    <3> QED BY <1>5, <1>6, <2>4, <2>5, <2>8, <3>1, NewStore
  <2> QED BY <2>6, <2>7, <2>8
<1> QED BY <1>5, <1>12, <1>13

-----------------------------------------------------------------------------
(* The invariant, and what it says *)

LEMMA InitInv == Init => Inv
<1> SUFFICES ASSUME Init PROVE Inv
  OBVIOUS
<1>1. /\ load \in Workloads /\ pc = "idle" /\ entries = <<>> /\ ckpt = [s \in Serials |-> NoCkpt] /\ killed = FALSE
      /\ staged = [r \in Req |-> None] /\ committed = [r \in Req |-> None] /\ sameStep = {}
      /\ cached = [k \in Hashes |-> <<>>] /\ kv = [b \in Blocks |-> None] /\ table = [r \in Req |-> <<>>]
      /\ phase = [r \in Req |-> "waiting"] /\ len = PromptLen /\ start = [r \in Req |-> 0] /\ trying = None
      /\ row = None /\ slot = [r \in Req |-> None]
  BY DEF Init
<1>2. Admitted = {}
  BY <1>1 DEF Admitted
<1>3. ToSet(<<>>) = {}
  BY DEF ToSet
<1>4. BlockTypes
  <2>1. <<>> \in Seq(Blocks)
    OBVIOUS
  <2> QED BY <1>1, <2>1 DEF BlockTypes
<1>5. RequestTypes
  <2>1. /\ PromptLen \in [Req -> Nat]
        /\ \A r \in Req : Len(Text[r]) \in Nat /\ PromptLen[r] \in Nat /\ PromptLen[r] < Len(Text[r])
    BY <1>1, Workload
  <2>2. \A r \in Req : /\ phase[r] = "waiting" /\ PromptLen[r] <= len[r]
                       /\ len[r] <= Len(Text[r]) /\ len[r] < Len(Text[r])
    BY <1>1, <2>1
  <2> QED BY <1>1, <2>1, <2>2 DEF RequestTypes
<1>6. StepPhases /\ TryingSound
  BY <1>1, <1>2 DEF StepPhases, TryingSound
<1>7. AdmittedShape /\ HitsCached /\ PromptsCached /\ RowSound /\ PendingOwned
  BY <1>1, <1>2 DEF AdmittedShape, HitsCached, PromptsCached, RowSound, PendingOwned
<1>8. HeldSound
  BY <1>1 DEF HeldSound, HeldBy
<1>9. CachedSound
  BY <1>1, <1>3 DEF CachedSound
<1>10. NoCkpt = [key |-> None, gdn |-> None, pins |-> 0]
  BY DEF NoCkpt
<1>11. StoreTypes
  <2>1. <<>> \in Seq(Serials) /\ None \in Grants
    BY DEF Grants
  <2> QED BY <1>1, <1>10, <2>1 DEF StoreTypes
<1>12. GrantsSound /\ TryingGranted /\ StartsGranted /\ GrantsStored
  BY <1>1, <1>2 DEF GrantsSound, TryingGranted, StartsGranted, GrantsStored
<1>13. CheckpointsSound
  <2>1. \A s : Holders(s) = {}
    BY <1>1 DEF Holders
  <2>2. \A s \in Serials : ckpt[s].gdn = ckpt[s].key /\ ckpt[s].pins = 0
    BY <1>1, <1>10
  <2> QED BY <1>1, <1>3, <2>1, <2>2, FS_EmptySet DEF CheckpointsSound
<1>14. StoreFits /\ StoredHaveKv
  BY <1>1, <1>3 DEF StoreFits, StoredHaveKv
<1> QED BY <1>1, <1>4, <1>5, <1>6, <1>7, <1>8, <1>9, <1>11, <1>12, <1>13, <1>14 DEF Inv, BlockInv, StoreInv

LEMMA StutterInv ==
    ASSUME Inv, UNCHANGED vars
    PROVE  Inv'
<1>1. /\ load' = load /\ pc' = pc /\ entries' = entries /\ ckpt' = ckpt /\ killed' = killed /\ staged' = staged
      /\ committed' = committed /\ sameStep' = sameStep /\ trying' = trying /\ OnlyStore
  BY DEF vars, registry, kvcache, requests, model, OnlyStore
<1>2. Admitted' = Admitted /\ StoreInv
  BY <1>1, WorkloadStays DEF OnlyStore, Admitted, Inv
<1>3. StepPhases' /\ TryingSound'
  BY <1>1, <1>2, WorkloadStays DEF Inv, BlockInv, StepPhases, TryingSound, OnlyStore
<1>4. BlockInv'
  BY <1>1, <1>3, BlocksKept
<1>5. TryingGranted' /\ StartsGranted'
  BY <1>1, <1>2 DEF StoreInv, TryingGranted, StartsGranted, GrantedAt, OnlyStore
<1>6. StoreInv'
  BY <1>1, <1>2, <1>5, StoreKept DEF StoreInv, GrantsSound, OnlyStore
<1> QED BY <1>1, <1>4, <1>6 DEF Inv

LEMMA StepInv ==
    ASSUME Inv, [Next]_vars
    PROVE  Inv'
<1>1. CASE UNCHANGED vars
  BY <1>1, StutterInv
<1>2. CASE Next
  <2>1. Step /\ load' = load
    BY <1>2 DEF Next
  <2>2. CASE BeginStep
    BY <2>1, <2>2, BeginStepBlocks, BeginStepStore DEF Inv
  <2>3. CASE Discard
    BY <2>1, <2>3, DiscardBlocks, DiscardStore DEF Inv
  <2>4. CASE Admit
    BY <2>1, <2>4, AdmitBlocks, AdmitStore DEF Inv
  <2>5. CASE Commit
    BY <2>1, <2>5, CommitBlocks, CommitStore DEF Inv
  <2>6. CASE RunChunk
    BY <2>1, <2>6, RunChunkBlocks, RunChunkStore DEF Inv
  <2>7. CASE RunTail
    BY <2>1, <2>7, RunTailBlocks, RunTailStore DEF Inv
  <2>8. CASE EndStep
    BY <2>1, <2>8, EndStepBlocks, EndStepStore DEF Inv
  <2>9. CASE ResetPrefixCache
    BY <2>1, <2>9, ResetBlocks, ResetStore DEF Inv
  <2>10. ASSUME NEW r \in Req, Trim(r) PROVE Inv'
    BY <2>1, <2>10, TrimBlocks, TrimStore DEF Inv
  <2>11. ASSUME NEW r \in Req, Decode(r) PROVE Inv'
    BY <2>1, <2>11, DecodeBlocks, DecodeStore DEF Inv
  <2>12. ASSUME NEW r \in Req, Preempt(r) PROVE Inv'
    BY <2>1, <2>12, PreemptBlocks, PreemptStore DEF Inv
  <2>13. ASSUME NEW r \in Req, StartRow(r) PROVE Inv'
    BY <2>1, <2>13, StartRowBlocks, StartRowStore DEF Inv
  <2>14. ASSUME NEW r \in Req, FreeRequest(r) PROVE Inv'
    BY <2>1, <2>14, FreeRequestBlocks, FreeRequestStore DEF Inv
  <2> QED BY <2>1, <2>2, <2>3, <2>4, <2>5, <2>6, <2>7, <2>8, <2>9, <2>10, <2>11, <2>12, <2>13, <2>14 DEF Step
<1> QED BY <1>1, <1>2

\* The registry, vLLM's block cache and the model keep the invariant: what they say of a prefix agrees.
THEOREM Invariant == Spec => []Inv
<1>1. Init => Inv
  BY InitInv
<1>2. Inv /\ [Next]_vars => Inv'
  BY StepInv
<1> QED BY <1>1, <1>2, PTL DEF Spec

\* _qwen_prefix_row refuses no row: in the model call of every step, each request the scheduler admitted
\* above 0 has the committed grant of exactly that position, whatever was discarded, preempted or killed.
THEOREM RowsAlwaysAccepted == Spec => []RowsAccepted
<1>1. Inv => RowsAccepted
  <2> SUFFICES ASSUME Inv, pc = "model", NEW r \in Admitted PROVE RowAccepted(r)
    BY DEF RowsAccepted
  <2>1. r \in Req /\ start[r] = GrantedAt(committed[r])
    BY DEF Inv, StoreInv, StartsGranted, Admitted
  <2>2. committed[r] # None => GrantSound(r, committed[r])
    BY <2>1 DEF Inv, StoreInv, GrantsSound
  <2> QED BY <2>1, <2>2 DEF RowAccepted, GrantedAt, GrantSound
<1> QED BY <1>1, Invariant, PTL

\* _enforce_budget, put, drop_checkpoint_for_hash and the reset leave a granted checkpoint in the store
\* until begin_step or _free_request ends the grant; only the kill switch clears it.
THEOREM GrantedStay == Spec => []GrantedStayStored
<1>1. Inv => GrantedStayStored
  BY DEF Inv, StoreInv, GrantsStored, GrantedStayStored
<1> QED BY <1>1, Invariant, PTL

\* The coupled eviction drops a checkpoint with the last block of its prefix: none is stored without K/V.
THEOREM StoredKv == Spec => []StoredHaveKv
<1>1. Inv => StoredHaveKv
  BY DEF Inv, StoreInv
<1> QED BY <1>1, Invariant, PTL

\* A prefill resumed from a checkpoint and shared blocks leaves what a cold prefill leaves: the recurrent
\* state of exactly the request's tokens, and K/V of its own prefix in every block it holds.
THEOREM ExactResume == Spec => []ResumeIsExact
<1>1. Inv => ResumeIsExact
  <2> SUFFICES ASSUME Inv, NEW r \in Req, phase[r] = "running"
               PROVE  /\ slot[r] = Prefix(r, len[r] - 1)
                      /\ \A i \in 1 .. Len(table[r]) :
                            kv[table[r][i]] # None /\ kv[table[r][i]].prefix = Prefix(r, i)
                      /\ \A i \in 1 .. start[r] : kv[table[r][i]].by = "chunk"
    BY DEF ResumeIsExact
  <2>1. HeldBy(r) /\ start[r] \in Nat /\ len[r] \in Nat
    BY DEF Inv, BlockInv, HeldSound, RequestTypes
  <2>2. Len(table[r]) = len[r] - 1 /\ start[r] <= len[r] - 1
    BY <2>1 DEF HeldBy
  <2>3. \A i \in 1 .. start[r] : i \in 1 .. Len(table[r]) /\ i <= start[r]
    BY <2>1, <2>2
  <2> QED BY <2>1, <2>3 DEF HeldBy
<1> QED BY <1>1, Invariant, PTL

-----------------------------------------------------------------------------
(* No block and no checkpoint is listed twice *)

\* The store and each hash list theirs once, and who holds no blocks starts at none.
ListedOnce ==
    /\ IsInjective(entries)
    /\ \A k \in Hashes : IsInjective(cached[k])
    /\ \A r \in Req : phase[r] \notin {"admitted", "running"} => table[r] = <<>> /\ start[r] = 0

LEMMA WithoutInjective ==
    ASSUME NEW T, NEW es \in Seq(T), IsInjective(es), NEW S
    PROVE  IsInjective(Without(es, S))
<1> DEFINE K == {i \in DOMAIN es : es[i] \notin S}
           n == Cardinality(K)
           F == InOrder(K)
           W == Without(es, S)
<1>1. DOMAIN es = 1 .. Len(es) /\ Len(es) \in Nat
  OBVIOUS
<1>2. K \in SUBSET Nat /\ K \subseteq DOMAIN es
  BY <1>1
<1>3. IsFiniteSet(K)
  <2> HIDE DEF K
  <2> QED BY <1>1, <1>2, UpTo, FS_Subset
<1>4. \A i, j \in 1 .. n : F[i] \in DOMAIN es /\ (F[i] = F[j] => i = j)
  <2> HIDE DEF K
  <2> QED BY <1>2, <1>3, InOrderLists
<1>5. W = [i \in 1 .. n |-> es[F[i]]]
  BY DEF Without
<1> HIDE DEF K, n, F, W
<1>6. \A i, j \in 1 .. n : W[i] = W[j] => i = j
  BY <1>4, <1>5 DEF IsInjective
<1>7. DOMAIN W = 1 .. n
  BY <1>5
<1> QED BY <1>6, <1>7 DEF IsInjective, W

LEMMA JoinedInjective ==
    ASSUME NEW T, NEW es \in Seq(T), NEW fs \in Seq(T), IsInjective(es), IsInjective(fs),
           ToSet(es) \cap ToSet(fs) = {}
    PROVE  IsInjective(es \o fs)
<1> DEFINE W == es \o fs
<1>1. /\ W \in Seq(T) /\ Len(W) = Len(es) + Len(fs) /\ Len(es) \in Nat /\ Len(fs) \in Nat
      /\ \A i \in 1 .. Len(es) + Len(fs) : W[i] = IF i <= Len(es) THEN es[i] ELSE fs[i - Len(es)]
  BY ConcatProperties, LenProperties
<1>2. /\ \A i, j \in 1 .. Len(es) : es[i] = es[j] => i = j
      /\ \A i, j \in 1 .. Len(fs) : fs[i] = fs[j] => i = j
  BY SeqElements DEF IsInjective
<1>3. \A i \in 1 .. Len(es) : \A j \in 1 .. Len(fs) : es[i] # fs[j]
  BY SeqElements
<1> HIDE DEF W
<1>4. DOMAIN W = 1 .. Len(es) + Len(fs)
  BY <1>1, SeqElements
<1>5. \A i \in 1 .. Len(es) + Len(fs) :
        \/ i \in 1 .. Len(es) /\ W[i] = es[i]
        \/ i > Len(es) /\ i - Len(es) \in 1 .. Len(fs) /\ W[i] = fs[i - Len(es)]
  BY <1>1
<1>6. ASSUME NEW i \in 1 .. Len(es) + Len(fs), NEW j \in 1 .. Len(es) + Len(fs), W[i] = W[j]
      PROVE  i = j
  <2>1. CASE i \in 1 .. Len(es) /\ W[i] = es[i]
    BY <1>2, <1>3, <1>5, <1>6, <2>1
  <2>2. CASE i > Len(es) /\ i - Len(es) \in 1 .. Len(fs) /\ W[i] = fs[i - Len(es)]
    <3>1. j > Len(es) /\ j - Len(es) \in 1 .. Len(fs) /\ W[j] = fs[j - Len(es)]
      BY <1>3, <1>5, <1>6, <2>2
    <3>2. i - Len(es) = j - Len(es)
      BY <1>2, <1>6, <2>2, <3>1
    <3> QED BY <1>1, <3>2
  <2> QED BY <1>5, <2>1, <2>2
<1> QED BY <1>4, <1>6 DEF IsInjective, W

LEMMA AppendedInjective ==
    ASSUME NEW T, NEW es \in Seq(T), NEW e \in T, IsInjective(es), e \notin ToSet(es)
    PROVE  IsInjective(Append(es, e))
<1> DEFINE fs == <<e>>
<1>1. fs \in Seq(T) /\ ToSet(fs) = {e} /\ IsInjective(fs)
  BY DEF ToSet, IsInjective
<1>2. Append(es, e) = es \o fs
  BY AppendIsConcat
<1> HIDE DEF fs
<1> QED BY <1>1, <1>2, JoinedInjective

\* What is published under a hash was not cached under it: it is a block just taken.
LEMMA PublishInjective ==
    ASSUME Inv, NEW r \in Req, NEW c \in [Hashes -> Seq(Blocks)], \A k \in Hashes : IsInjective(c[k]),
           NEW blocks \in Seq(Blocks), NEW known \in Nat, NEW n \in Nat, n <= Len(blocks), n <= Len(Text[r]),
           \A i \in known + 1 .. n : \A k \in Hashes : blocks[i] \notin ToSet(c[k])
    PROVE  \A k \in Hashes : IsInjective(Publish(c, r, blocks, known, n)[k])
<1> TAKE k \in Hashes
<1> DEFINE new == {i \in known + 1 .. n : i <= CapLimit(r)}
           P == Publish(c, r, blocks, known, n)
<1>1. P = [h \in Hashes |-> IF \E i \in new : Prefix(r, i) = h THEN Append(c[h], blocks[Len(h)]) ELSE c[h]]
  BY Zenon DEF Publish
<1>2. \A i \in new : /\ i \in 1 .. Len(Text[r]) /\ i \in 1 .. Len(blocks)
                     /\ \A h \in Hashes : blocks[i] \notin ToSet(c[h])
  <2>1. Len(blocks) \in Nat /\ Len(Text[r]) \in Nat
    BY Workload, LenProperties DEF Inv
  <2> QED BY <2>1
<1>3. \A i \in new : blocks[i] \in Blocks /\ Len(Prefix(r, i)) = i
  BY <1>2, PrefixFacts, ElementOfSeq DEF Inv
<1> HIDE DEF new, P
<1>4. CASE \A i \in new : Prefix(r, i) # k
  BY <1>1, <1>4 DEF P
<1>5. ASSUME NEW i \in new, Prefix(r, i) = k PROVE IsInjective(P[k])
  <2>1. P[k] = Append(c[k], blocks[i])
    BY <1>1, <1>3, <1>5
  <2>2. c[k] \in Seq(Blocks) /\ blocks[i] \in Blocks /\ IsInjective(c[k]) /\ blocks[i] \notin ToSet(c[k])
    BY <1>2, <1>3
  <2> QED BY <2>1, <2>2, AppendedInjective
<1> QED BY <1>4, <1>5 DEF P

\* Evictions and the budget drop checkpoints; Commit and put reorder them; a captured one is new.
LEMMA EntriesOnce ==
    ASSUME Inv, ListedOnce, Step, load' = load
    PROVE  IsInjective(entries')
<1>1. entries \in Seq(Serials) /\ IsInjective(entries)
  BY DEF Inv, StoreInv, StoreTypes, ListedOnce
<1>2. \A S : IsInjective(Without(entries, S))
  BY <1>1, WithoutInjective
<1>3. \A S : \E X : Coupled(S) = Without(entries, X)
  BY Zenon DEF Coupled
<1>4. \A S : IsInjective(Coupled(S))
  BY <1>2, <1>3
<1>5. \A objects : \A es \in Seq(Serials) : IsInjective(es) => IsInjective(EnforceBudget(es, objects))
  BY WithoutInjective, Zenon DEF EnforceBudget
<1>6. ASSUME NEW touched, touched \subseteq ToSet(entries), NEW order \in Seq(touched), ToSet(order) = touched,
             IsInjective(order)
      PROVE  IsInjective(Without(entries, touched) \o order)
  <2>1. PICK kept : kept = Without(entries, touched)
    OBVIOUS
  <2>2. kept \in Seq(Serials) /\ ToSet(kept) = ToSet(entries) \ touched /\ IsInjective(kept)
    BY <1>1, <1>2, <2>1, WithoutDrops
  <2>3. touched \subseteq Serials
    BY <1>1, <1>6, SeqElements
  <2>4. order \in Seq(Serials)
    BY <1>6, <2>3, SeqMonotonic
  <2>5. ToSet(kept) \cap ToSet(order) = {}
    BY <1>6, <2>2
  <2> QED BY <1>6, <2>1, <2>2, <2>4, <2>5, JoinedInjective
<1>7. ASSUME NEW touched, touched \subseteq ToSet(entries)
      PROVE  IsFiniteSet(touched)
  BY <1>1, <1>7, SeqElements, FS_Subset
<1>8. IsInjective(<<>>)
  BY DEF IsInjective
<1>9. CASE BeginStep
  <2>1. \E objects : entries' = EnforceBudget(entries, objects)
    BY <1>9, Zenon DEF BeginStep
  <2> QED BY <1>1, <1>5, <2>1
<1>10. CASE Discard
  BY <1>1, <1>10 DEF Discard, registry
<1>11. CASE Admit
  <2>1. \E S : entries' = Coupled(S)
    BY <1>11, Zenon DEF Admit
  <2> QED BY <1>4, <2>1
<1>12. CASE Commit
  <2> DEFINE granted == {committed'[r].ckpt : r \in {x \in Req : committed'[x] # None}}
             wanted(s) == \E g \in granted \cap Serials : ckpt[s].key = ckpt[g].key
  <2>1. \E order \in SetToSeqs({s \in ToSet(entries) : wanted(s)}) :
           entries' = Without(entries, {s \in ToSet(entries) : wanted(s)}) \o order
    BY <1>12, Zenon DEF Commit
  <2> HIDE DEF wanted
  <2>2. PICK touched : touched = {s \in ToSet(entries) : wanted(s)}
    BY Zenon
  <2>3. touched \subseteq ToSet(entries)
    BY <2>2
  <2>4. PICK order \in SetToSeqs(touched) : entries' = Without(entries, touched) \o order
    BY <2>1, <2>2
  <2>5. order \in Seq(touched) /\ ToSet(order) = touched /\ IsInjective(order)
    BY <1>7, <2>3, OrdersList
  <2> QED BY <1>6, <2>3, <2>4, <2>5
<1>13. CASE RunChunk
  <2>1. PICK k, state : Put(k, state) \/ entries' = entries
    BY <1>13, Zenon DEF RunChunk, Capture
  <2>2. pc = "model"
    BY <1>13 DEF RunChunk, Inv, BlockInv, StepPhases
  <2>3. PICK old : old = EntryFor(k)
    OBVIOUS
  <2>4. old \subseteq ToSet(entries)
    BY <2>3 DEF EntryFor
  <2>5. \/ entries' = entries
        \/ entries' = Without(entries, old) \o SetToSeq(old)
        \/ entries' = EnforceBudget(Append(Without(entries, old), NewSerial), ckpt')
    BY <2>1, <2>3, Zenon DEF Put
  <2>6. SetToSeq(old) \in Seq(old) /\ ToSet(SetToSeq(old)) = old /\ IsInjective(SetToSeq(old))
    BY <1>7, <2>4, OrdersList
  <2>7. NewSerial \in Serials /\ NewSerial \notin ToSet(entries)
    BY <2>2, NewIsFresh
  <2>8. PICK kept : kept = Without(entries, old)
    OBVIOUS
  <2>9. kept \in Seq(Serials) /\ NewSerial \notin ToSet(kept) /\ IsInjective(kept)
    <3>1. kept \in Seq(Serials) /\ ToSet(kept) = ToSet(entries) \ old
      BY <1>1, <2>8, WithoutDrops
    <3>2. IsInjective(kept)
      BY <1>2, <2>8
    <3> QED BY <2>7, <3>1, <3>2
  <2>10. Append(kept, NewSerial) \in Seq(Serials) /\ IsInjective(Append(kept, NewSerial))
    BY <2>7, <2>9, AppendedElements, AppendedInjective
  <2> QED BY <1>1, <1>5, <1>6, <2>4, <2>5, <2>6, <2>8, <2>10
<1>14. CASE RunTail
  BY <1>1, <1>14 DEF RunTail, registry
<1>15. CASE EndStep
  BY <1>1, <1>15 DEF EndStep, registry
<1>16. CASE ResetPrefixCache
  BY <1>8, <1>16 DEF ResetPrefixCache
<1>17. ASSUME NEW r \in Req, Trim(r) PROVE IsInjective(entries')
  BY <1>1, <1>8, <1>17, TrimEffect
<1>18. ASSUME NEW r \in Req, Decode(r) PROVE IsInjective(entries')
  <2>1. \E S : entries' = Coupled(S)
    BY <1>18, Zenon DEF Decode
  <2> QED BY <1>4, <2>1
<1>19. ASSUME NEW r \in Req, Preempt(r) PROVE IsInjective(entries')
  BY <1>1, <1>19 DEF Preempt, registry
<1>20. ASSUME NEW r \in Req, StartRow(r) PROVE IsInjective(entries')
  BY <1>1, <1>20 DEF StartRow, registry
<1>21. ASSUME NEW r \in Req, FreeRequest(r) PROVE IsInjective(entries')
  BY <1>1, <1>21 DEF FreeRequest
<1> QED BY <1>9, <1>10, <1>11, <1>12, <1>13, <1>14, <1>15, <1>16, <1>17, <1>18, <1>19, <1>20, <1>21 DEF Step

\* A step evicts the blocks it takes before it publishes them.
LEMMA CachedOnce ==
    ASSUME Inv, ListedOnce, Step, load' = load
    PROVE  \A k \in Hashes : IsInjective(cached'[k])
<1>1. \A k \in Hashes : cached[k] \in Seq(Blocks) /\ IsInjective(cached[k])
  BY DEF Inv, BlockInv, BlockTypes, ListedOnce
<1>2. ASSUME NEW S
      PROVE  /\ Evicted(S) \in [Hashes -> Seq(Blocks)] /\ \A k \in Hashes : IsInjective(Evicted(S)[k])
             /\ \A b \in S : \A k \in Hashes : b \notin ToSet(Evicted(S)[k])
  <2>1. \A k \in Hashes : IsInjective(Without(cached[k], S))
    BY <1>1, WithoutInjective
  <2>2. \A k \in Hashes : IsInjective(Evicted(S)[k])
    BY <2>1 DEF Evicted
  <2> QED BY <2>2, EvictedDrops
<1>3. CASE cached' = cached
  BY <1>1, <1>3
<1>4. CASE Admit
  <2>1. PICK r : r = trying.req
    OBVIOUS
  <2>2. PICK hit : hit = trying.hit
    OBVIOUS
  <2>3. PICK q : q = Len(hit)
    OBVIOUS
  <2>4. PICK n : n = len[r]
    OBVIOUS
  <2>5. PICK S \in SUBSET (FreeBlocks \ ToSet(hit)) :
          /\ Cardinality(S) = n - q
          /\ table' = [table EXCEPT ![r] = hit \o InOrder(S)]
          /\ cached' = Publish(Evicted(S), r, table'[r], q, n)
    BY <1>4, <2>1, <2>2, <2>3, <2>4, Zenon DEF Admit
  <2>6. /\ r \in Req /\ hit \in Seq(Blocks) /\ q \in Nat /\ n \in Nat /\ q < n /\ n < Len(Text[r])
        /\ Len(Text[r]) \in Nat /\ table \in [Req -> Seq(Blocks)]
    <3>1. trying # None /\ TryingSound /\ RequestTypes /\ BlockTypes
      BY <1>4 DEF Admit, Inv, BlockInv
    <3>2. r \in Req /\ hit \in Seq(Blocks) /\ q < n /\ phase[r] \in {"waiting", "preempted"}
      BY <2>1, <2>2, <2>3, <2>4, <3>1 DEF TryingSound
    <3>3. n \in Nat /\ n < Len(Text[r])
      BY <2>4, <3>1, <3>2 DEF RequestTypes
    <3>4. q \in Nat
      BY <2>3, <3>2, LenProperties
    <3> QED BY <3>1, <3>2, <3>3, <3>4, Workload DEF Inv, BlockTypes
  <2>7. S \in SUBSET Nat /\ S \subseteq Blocks /\ IsFiniteSet(S)
    BY FreeIsUnheld, Workload, FS_Subset DEF Inv
  <2>8. PICK fresh : fresh = InOrder(S)
    OBVIOUS
  <2>9. fresh \in Seq(S) /\ Len(fresh) = n - q /\ \A i \in 1 .. n - q : fresh[i] \in S
    BY <2>5, <2>7, <2>8, InOrderLists
  <2>10. fresh \in Seq(Blocks)
    BY <2>7, <2>9, SeqMonotonic
  <2>11. PICK t : t = hit \o fresh
    OBVIOUS
  <2>12. /\ t \in Seq(Blocks) /\ Len(t) = q + (n - q)
         /\ \A i \in 1 .. q + (n - q) : t[i] = IF i <= q THEN hit[i] ELSE fresh[i - q]
    BY <2>3, <2>6, <2>9, <2>10, <2>11, ConcatProperties
  <2>13. /\ n <= Len(t) /\ n <= Len(Text[r])
         /\ \A i \in q + 1 .. n : t[i] = fresh[i - q] /\ i - q \in 1 .. n - q
    <3>1. n <= Len(t) /\ n <= Len(Text[r])
      BY <2>6, <2>12
    <3>2. ASSUME NEW i \in q + 1 .. n
          PROVE  t[i] = fresh[i - q] /\ i - q \in 1 .. n - q
      <4>1. i \in 1 .. q + (n - q) /\ ~(i <= q) /\ i - q \in 1 .. n - q
        BY <2>6
      <4>2. t[i] = IF i <= q THEN hit[i] ELSE fresh[i - q]
        BY <2>12, <4>1
      <4> QED BY <4>1, <4>2
    <3> QED BY <3>1, <3>2
  <2>14. \A i \in q + 1 .. n : t[i] \in S
    BY <2>9, <2>13
  <2>15. cached' = Publish(Evicted(S), r, t, q, n)
    BY <2>5, <2>6, <2>8, <2>11
  <2>16. PICK c : c = Evicted(S)
    OBVIOUS
  <2>17. /\ c \in [Hashes -> Seq(Blocks)] /\ \A k \in Hashes : IsInjective(c[k])
         /\ \A i \in q + 1 .. n : \A k \in Hashes : t[i] \notin ToSet(c[k])
    BY <1>2, <2>14, <2>16
  <2>18. \A k \in Hashes : IsInjective(Publish(c, r, t, q, n)[k])
    BY <2>6, <2>12, <2>13, <2>17, PublishInjective
  <2> QED BY <2>15, <2>16, <2>18
<1>5. ASSUME NEW r \in Req, Decode(r) PROVE \A k \in Hashes : IsInjective(cached'[k])
  <2>1. PICK b \in FreeBlocks : /\ table' = [table EXCEPT ![r] = Append(@, b)]
                                /\ cached' = Publish(Evicted({b}), r, table'[r], len[r] - 1, len[r])
    BY <1>5, Zenon DEF Decode
  <2>2. phase[r] = "running" /\ len[r] < Len(Text[r])
    BY <1>5 DEF Decode
  <2>3. PICK n : n = len[r]
    OBVIOUS
  <2>4. /\ n \in Nat /\ n - 1 \in Nat /\ n <= Len(Text[r])
        /\ table[r] \in Seq(Blocks) /\ Len(table[r]) = n - 1 /\ b \in Blocks
    <3>1. BlockTypes /\ RequestTypes /\ HeldSound
      BY DEF Inv, BlockInv
    <3>2. PromptLen[r] \in Nat /\ 1 <= PromptLen[r] /\ Len(Text[r]) \in Nat
      BY Workload DEF Inv
    <3>3. n \in Nat /\ PromptLen[r] < n /\ n < Len(Text[r])
      BY <2>2, <2>3, <3>1 DEF RequestTypes
    <3>4. table[r] \in Seq(Blocks) /\ Len(table[r]) = n - 1
      BY <2>2, <2>3, <3>1 DEF BlockTypes, HeldSound, HeldBy
    <3> QED BY <3>2, <3>3, <3>4, FreeIsUnheld
  <2>5. PICK t : t = Append(table[r], b)
    OBVIOUS
  <2>6. t \in Seq(Blocks) /\ Len(t) = n - 1 + 1 /\ t[n - 1 + 1] = b
    BY <2>4, <2>5, AppendProperties
  <2>7. n <= Len(t) /\ \A i \in n - 1 + 1 .. n : t[i] = b
    BY <2>4, <2>6
  <2>8. table'[r] = t
    BY <2>1, <2>5 DEF Inv, BlockInv, BlockTypes
  <2>9. PICK c : c = Evicted({b})
    OBVIOUS
  <2>10. /\ c \in [Hashes -> Seq(Blocks)] /\ \A k \in Hashes : IsInjective(c[k])
         /\ \A i \in n - 1 + 1 .. n : \A k \in Hashes : t[i] \notin ToSet(c[k])
    <3>1. c \in [Hashes -> Seq(Blocks)] /\ \A k \in Hashes : IsInjective(c[k]) /\ b \notin ToSet(c[k])
      BY <1>2, <2>9
    <3> QED BY <2>7, <3>1
  <2>11. \A k \in Hashes : IsInjective(Publish(c, r, t, n - 1, n)[k])
    BY <2>4, <2>6, <2>7, <2>10, PublishInjective
  <2> QED BY <2>1, <2>3, <2>8, <2>9, <2>11
<1>6. CASE ResetPrefixCache
  <2>1. IsInjective(<<>>)
    BY DEF IsInjective
  <2> QED BY <1>6, <2>1 DEF ResetPrefixCache
<1>7. \/ cached' = cached \/ Admit \/ ResetPrefixCache
      \/ \E r \in Req : Decode(r)
  BY Zenon DEF Step, BeginStep, Discard, Commit, RunChunk, RunTail, EndStep, Trim, Preempt, StartRow, FreeRequest,
         kvcache, registry, requests, model
<1> QED BY <1>3, <1>4, <1>5, <1>6, <1>7

\* Preempting and freeing a request takes its blocks and its start together.
LEMMA TablesEmptied ==
    ASSUME Inv, ListedOnce, Step, load' = load
    PROVE  \A r \in Req : phase'[r] \notin {"admitted", "running"} => table'[r] = <<>> /\ start'[r] = 0
<1>1. BlockTypes /\ RequestTypes
  BY DEF Inv, BlockInv
<1>2. CASE phase' = phase /\ table' = table /\ start' = start
  BY <1>2 DEF ListedOnce
<1>3. CASE Admit
  <2>1. PICK r, hit, S : AdmitsWith(r, hit, S)
    BY <1>3, AdmitEffect
  <2>2. /\ phase' = [phase EXCEPT ![r] = "admitted"] /\ start' = [start EXCEPT ![r] = Len(hit)] /\ r \in Req
        /\ \A x \in Req : x # r => table'[x] = table[x]
    BY <2>1 DEF AdmitsWith
  <2> QED BY <1>1, <2>2 DEF ListedOnce, RequestTypes
<1>4. CASE RunTail
  <2>1. phase' = [phase EXCEPT ![row.req] = "running"] /\ table' = table /\ start' = start
    BY <1>4 DEF RunTail
  <2> QED BY <1>1, <2>1 DEF ListedOnce, RequestTypes
<1>5. ASSUME NEW r \in Req, Decode(r)
      PROVE  /\ phase' = phase /\ start' = start /\ phase[r] = "running"
             /\ \A x \in Req : x # r => table'[x] = table[x]
  <2>1. PICK b : table' = [table EXCEPT ![r] = Append(@, b)]
    BY <1>5, Zenon DEF Decode
  <2> QED BY <1>1, <1>5, <2>1 DEF Decode, BlockTypes
<1>6. ASSUME NEW r \in Req, Preempt(r) \/ FreeRequest(r)
      PROVE  /\ \A x \in Req : x # r => phase'[x] = phase[x] /\ table'[x] = table[x] /\ start'[x] = start[x]
             /\ table'[r] = <<>> /\ start'[r] = 0
  BY <1>1, <1>6 DEF Preempt, FreeRequest, BlockTypes, RequestTypes
<1>7. \/ phase' = phase /\ table' = table /\ start' = start
      \/ Admit \/ RunTail
      \/ \E r \in Req : Decode(r) \/ Preempt(r) \/ FreeRequest(r)
  BY Zenon DEF Step, BeginStep, Discard, Commit, RunChunk, EndStep, ResetPrefixCache, Trim, StartRow,
         kvcache, registry, requests, model
<1> QED BY <1>2, <1>3, <1>4, <1>5, <1>6, <1>7 DEF ListedOnce

\* No two places of a table are one block: a block yet to be written is owned, and what a written one
\* holds tells its place.
LEMMA TablesInjective ==
    ASSUME Inv, ListedOnce, NEW r \in Req
    PROVE  IsInjective(table[r])
<1>1. HeldBy(r) /\ RequestTypes /\ table[r] \in Seq(Blocks)
  BY DEF Inv, BlockInv, HeldSound, BlockTypes
<1>2. DOMAIN table[r] = 1 .. Len(table[r]) /\ Len(table[r]) \in Nat
  BY <1>1, SeqElements
<1>3. CASE phase[r] \notin {"admitted", "running"}
  <2>1. IsInjective(<<>>)
    BY DEF IsInjective
  <2> QED BY <1>3, <2>1 DEF ListedOnce
<1>4. CASE phase[r] \in {"admitted", "running"}
  <2>1. Len(table[r]) <= Len(Text[r]) /\ Len(Text[r]) \in Nat
    <3>1. len[r] \in Nat /\ len[r] <= Len(Text[r])
      BY <1>1 DEF RequestTypes
    <3>2. Len(table[r]) = len[r] \/ Len(table[r]) = len[r] - 1
      BY <1>1, <1>4 DEF HeldBy, Inv, BlockInv, AdmittedShape, Admitted
    <3>3. Len(Text[r]) \in Nat
      BY Workload DEF Inv
    <3> QED BY <3>1, <3>2, <3>3
  <2> DEFINE Read(i) == phase[r] = "running" \/ i <= Pos(r)
  <2>2. \A i \in 1 .. Len(table[r]) : Read(i) => kv[table[r][i]].prefix = Prefix(r, i)
    BY <1>1, <1>4 DEF HeldBy
  <2>3. \A i \in 1 .. Len(table[r]) : Len(Prefix(r, i)) = i
    BY <1>2, <2>1, PrefixFacts DEF Inv
  <2>4. \A i \in 1 .. Len(table[r]) :
          ~Read(i) => \A j \in 1 .. Len(table[r]) : table[r][j] = table[r][i] => j = i
    <3> SUFFICES ASSUME NEW i \in 1 .. Len(table[r]), ~Read(i)
                 PROVE  \A j \in 1 .. Len(table[r]) : table[r][j] = table[r][i] => j = i
      OBVIOUS
    <3>1. r \in Admitted
      BY <1>4 DEF Admitted
    <3>2. Pos(r) \in Nat
      BY <1>1, <3>1 DEF Inv, BlockInv, RowSound, RequestTypes, Pos
    <3>3. i \in Pos(r) + 1 .. Len(table[r])
      BY <1>2, <3>2
    <3> QED BY <3>1, <3>3 DEF Inv, BlockInv, PendingOwned
  <2> HIDE DEF Read
  <2>5. ASSUME NEW i \in 1 .. Len(table[r]), NEW j \in 1 .. Len(table[r]), table[r][i] = table[r][j]
        PROVE  i = j
    <3>1. CASE Read(i) /\ Read(j)
      <4>1. Prefix(r, i) = Prefix(r, j)
        BY <2>2, <2>5, <3>1
      <4> QED BY <2>3, <4>1
    <3>2. CASE ~Read(i) \/ ~Read(j)
      BY <2>4, <2>5, <3>2
    <3> QED BY <3>1, <3>2
  <2> QED BY <1>2, <2>5 DEF IsInjective
<1> QED BY <1>3, <1>4

LEMMA TypesHold == Inv /\ ListedOnce => TypeOK
<1> SUFFICES ASSUME Inv, ListedOnce PROVE TypeOK
  OBVIOUS
<1>1. BlockTypes /\ RequestTypes /\ StepPhases /\ StoreTypes
  BY DEF Inv, BlockInv, StoreInv
<1>2. ToSet(entries) \subseteq Serials /\ IsInjective(entries)
  BY <1>1, SeqElements DEF StoreTypes, ListedOnce
<1>3. \A k \in Hashes : ToSet(cached[k]) \subseteq Blocks /\ IsInjective(cached[k])
  BY <1>1, SeqElements DEF BlockTypes, ListedOnce
<1>4. \A r \in Req : ToSet(table[r]) \subseteq Blocks /\ IsInjective(table[r])
  BY <1>1, SeqElements, TablesInjective DEF BlockTypes
<1>5. \A b \in Blocks : kv[b] = None \/ (kv[b].prefix \in Hashes /\ kv[b].by \in Writers)
  BY <1>1 DEF BlockTypes
<1>6. ASSUME NEW r \in Req
      PROVE  /\ phase[r] \in {"waiting", "admitted", "running", "preempted", "done"}
             /\ len[r] \in PromptLen[r] .. Len(Text[r]) /\ start[r] \in 0 .. Len(Text[r])
  <2>1. /\ PromptLen[r] \in Nat /\ Len(Text[r]) \in Nat /\ len[r] \in Nat /\ start[r] \in Nat
        /\ PromptLen[r] <= len[r] /\ len[r] <= Len(Text[r])
        /\ phase[r] \in {"waiting", "admitted", "running", "preempted", "done"}
    BY <1>1, Workload DEF Inv, RequestTypes
  <2>2. CASE phase[r] = "admitted"
    <3>1. start[r] < len[r]
      BY <2>2 DEF Inv, BlockInv, AdmittedShape, Admitted
    <3> QED BY <2>1, <3>1
  <2>3. CASE phase[r] = "running"
    <3>1. start[r] <= len[r] - 1
      BY <2>3 DEF Inv, BlockInv, HeldSound, HeldBy
    <3> QED BY <2>1, <3>1
  <2>4. CASE phase[r] \notin {"admitted", "running"}
    <3>1. start[r] = 0
      BY <2>4 DEF ListedOnce
    <3> QED BY <2>1, <3>1
  <2> QED BY <2>2, <2>3, <2>4
<1>7. \A s \in Serials : ckpt[s].key \in Hashes \cup {None} /\ ckpt[s].pins \in Nat
  BY <1>1 DEF StoreTypes
<1>8. \A r \in Req : staged[r] \in Grants /\ committed[r] \in Grants
  BY <1>1 DEF StoreTypes
<1>9. pc \in {"idle", "schedule", "model"} /\ killed \in BOOLEAN /\ sameStep \subseteq Blocks
  BY <1>1 DEF StepPhases, BlockTypes
<1> QED BY <1>2, <1>3, <1>4, <1>5, <1>6, <1>7, <1>8, <1>9 DEF TypeOK

\* Every variable has its shape, no block is twice in a request or under a hash, and no checkpoint twice in
\* the store: eviction, touching and put never leave a second entry, and a block is taken from nobody.
THEOREM TypeCorrect == Spec => []TypeOK
<1>1. Init => ListedOnce
  <2> SUFFICES ASSUME Init PROVE ListedOnce
    OBVIOUS
  <2>1. /\ entries = <<>> /\ cached = [k \in Hashes |-> <<>>] /\ table = [r \in Req |-> <<>>]
        /\ start = [r \in Req |-> 0]
    BY DEF Init
  <2>2. IsInjective(<<>>)
    BY DEF IsInjective
  <2> QED BY <2>1, <2>2 DEF ListedOnce
<1>2. Inv /\ ListedOnce /\ [Next]_vars => ListedOnce'
  <2> SUFFICES ASSUME Inv, ListedOnce, [Next]_vars PROVE ListedOnce'
    OBVIOUS
  <2>1. CASE UNCHANGED vars
    <3>1. load' = load /\ entries' = entries /\ cached' = cached /\ phase' = phase /\ table' = table /\ start' = start
      BY <2>1 DEF vars, registry, kvcache, requests
    <3> QED BY <3>1, WorkloadStays DEF ListedOnce
  <2>2. CASE Next
    <3>1. Step /\ load' = load
      BY <2>2 DEF Next
    <3>2. Req' = Req /\ Hashes' = Hashes
      BY <3>1, WorkloadStays
    <3> QED BY <3>1, <3>2, EntriesOnce, CachedOnce, TablesEmptied DEF ListedOnce
  <2> QED BY <2>1, <2>2
<1> QED BY <1>1, <1>2, Invariant, TypesHold, PTL DEF Spec

=============================================================================
