--------------------------- MODULE RoundFencesProofs ---------------------------
(***************************************************************************)
(* Proofs about RoundFences for every number of users, rows and rounds and *)
(* every setting of the flags: whoever reads a carry reads the committed   *)
(* state, a replay finds nothing under way and is never refused, a verify  *)
(* finds its own inputs, and early drafts are still those of the sessions. *)
(***************************************************************************)
EXTENDS RoundFences, SequenceTheorems, WellFoundedInduction, TLAPS

\* The traces of a list.
Elements(q) == {q[i] : i \in DOMAIN q}

\* The commit traces decided and not yet run: enqueued or deferred.
Due == Elements(queue) \cup Elements(blk.deferred)

-----------------------------------------------------------------------------
(* The inductive invariant *)

\* A verified block is in its commits; a failed one has lost what it deferred and stays
\* failed, and the step that failed it, other than in a flush, was the last.
BlockInRound ==
    /\ blk.phase = "verified" <=> pc = "commit"
    /\ pc = "staged" => blk.phase = "idle"
    /\ blk.phase = "failed" => blk.deferred = <<>> /\ ("flush" \in fault \/ pc = "dead")
    /\ ret.poisoned => blk.phase = "failed"

\* Between its rounds a block has every decision and is either fenced or owed its fence; in
\* its commits it lacks the decisions of the pending segments.
DecisionsInRound ==
    /\ blk.phase = "verified" => /\ ~blk.first /\ ~ret.ready
                                 /\ blk.pending = {s \in Seg : ret.decisions[s] = None}
    /\ blk.phase = "idle" /\ ~blk.first =>
         Decided(ret.decisions) /\ (ret.ready \/ (RoundFenced /\ ret.owed))

\* A block that was fenced, or never replayed, has nothing on the device queue.
FencedIsRun ==
    /\ ret.ready /\ ~ret.poisoned => queue = <<>>
    /\ blk.first => queue = <<>> /\ blk.deferred = <<>>

\* Commits are deferred only where the setting says so and not beyond the drafts of their step.
DeferredInStep ==
    /\ blk.armed \/ blk.deferring \/ blk.deferred # <<>> => AfterPairs
    /\ draft.early => EarlyDraft
    /\ blk.deferred # <<>> =>
         /\ pc \in {"commit", "draft", "window", "fence", "read", "drafted", "end", "dead"}
         /\ pc \notin {"commit", "dead"} => draft.early

\* A round serves live users whose bridges have not failed.
RoundServesLive ==
    /\ draft.failed \subseteq live
    /\ pc \in {"verify", "staged", "sequential", "commit"} => draft.failed = {}
    /\ pc \in {"verify", "staged", "sequential"} => entries \subseteq live
    /\ pc = "commit" => blk.pending \subseteq live

\* Where user s stands, given the traces due, its carry, what was read of it and its position:
\* the carry holds the committed tokens, or the trace that will make it so is due, rows on top
\* of what the last verify read.
Follows(s, due, c, r, p) ==
    /\ \A t \in due : t[1] = s => r + t[2] = p
    /\ (\A t \in due : t[1] # s) => c = p

\* So stands every user whose bridge has not failed.
CarriesFollow ==
    pc # "dead" => \A s \in live \ draft.failed : Follows(s, Due, carry[s], recs[s], pos[s])

\* A segment still to be committed was verified from its committed state and has no trace due.
PendingVerified ==
    pc = "commit" => \A s \in blk.pending : recs[s] = pos[s] /\ \A t \in Due : t[1] # s

\* Drafts made early are kept, with what they were made from, to the end of their step.
DraftsKept ==
    draft.cache # None =>
        /\ EarlyDraft /\ pc \in {"end", "take", "between", "dead"}
        /\ pc \in {"end", "take"} => draft.key = DraftKey

\* The buffers hold what a usable snapshot says.
StagedAsNoted == Usable(snap) => buf = snap.values

Inv ==
    /\ TypeOK /\ BlockInRound /\ DecisionsInRound /\ FencedIsRun /\ DeferredInStep /\ RoundServesLive
    /\ CarriesFollow /\ PendingVerified /\ DraftsKept /\ StagedAsNoted /\ StagedIsCurrent

-----------------------------------------------------------------------------
(* Commit traces and what running them leaves *)

\* A nonempty set of natural numbers has a least element.
LEMMA LeastElement ==
    ASSUME NEW T \in SUBSET Nat, T # {}
    PROVE  \E x \in T : \A y \in T : x <= y
<1> DEFINE R == OpToRel(<, Nat)
<1>1. IsWellFoundedOn(R, Nat)
  BY NatLessThanWellFounded DEF OpToRel
<1>2. \A x, y \in Nat : x < y => <<x, y>> \in R
  BY DEF OpToRel
<1> HIDE DEF R
<1>3. PICK x \in T : \A y \in T : ~ (<<y, x>> \in R)
  BY <1>1, WFMin
<1>4. \A y \in T : ~(y < x)
  BY <1>2, <1>3
<1> QED BY <1>4

\* Traces put behind one another.
LEMMA Joined ==
    ASSUME NEW q \in Traces, NEW d \in Traces
    PROVE  q \o d \in Traces /\ Elements(q \o d) = Elements(q) \cup Elements(d)
<1> DEFINE S == Seg \X (1..Rows)
           e == q \o d
<1>1. /\ e \in Seq(S) /\ Len(e) = Len(q) + Len(d)
      /\ \A i \in 1..Len(q) : e[i] = q[i]
      /\ \A i \in 1..Len(d) : e[i + Len(q)] = d[i]
  <2>1. q \in Seq(S) /\ d \in Seq(S)
    BY DEF Traces
  <2> HIDE DEF S
  <2>2. /\ q \o d \in Seq(S) /\ Len(q \o d) = Len(q) + Len(d)
        /\ \A i \in 1..(Len(q) + Len(d)) : (q \o d)[i] = IF i <= Len(q) THEN q[i] ELSE d[i - Len(q)]
    BY <2>1, ConcatProperties
  <2>3. Len(q) \in Nat /\ Len(d) \in Nat
    BY <2>1, LenProperties
  <2> HIDE DEF e
  <2>4. e = q \o d
    BY DEF e
  <2>5. ASSUME NEW i \in 1..Len(d) PROVE e[i + Len(q)] = d[i]
    <3>1. i + Len(q) \in 1..(Len(q) + Len(d)) /\ ~(i + Len(q) <= Len(q)) /\ (i + Len(q)) - Len(q) = i
      BY <2>3
    <3> QED BY <2>2, <2>4, <3>1
  <2>6. ASSUME NEW i \in 1..Len(q) PROVE e[i] = q[i]
    BY <2>2, <2>3, <2>4
  <2> QED BY <2>2, <2>4, <2>5, <2>6
<1>2. /\ DOMAIN q = 1..Len(q) /\ DOMAIN d = 1..Len(d) /\ DOMAIN e = 1..Len(e)
      /\ Len(q) \in Nat /\ Len(d) \in Nat
  BY <1>1, LenProperties DEF Traces
<1> HIDE DEF e
<1>3. ASSUME NEW i \in DOMAIN e PROVE e[i] \in Elements(q) \cup Elements(d)
  <2>1. CASE i <= Len(q)
    <3>1. i \in DOMAIN q /\ e[i] = q[i]
      BY <1>1, <1>2, <2>1
    <3> QED BY <3>1 DEF Elements
  <2>2. CASE ~(i <= Len(q))
    <3>0. i \in 1..(Len(q) + Len(d))
      BY <1>1, <1>2
    <3>1. i - Len(q) \in 1..Len(d) /\ (i - Len(q)) + Len(q) = i
      <4>1. Len(q) \in Nat /\ Len(d) \in Nat
        BY <1>2
      <4> QED BY <2>2, <3>0, <4>1
    <3>2. e[i] = d[i - Len(q)]
      BY <1>1, <3>1
    <3> QED BY <1>2, <3>1, <3>2 DEF Elements
  <2> QED BY <2>1, <2>2
<1>4. ASSUME NEW i \in DOMAIN q PROVE q[i] \in Elements(e)
  <2>1. i \in DOMAIN e /\ e[i] = q[i]
    BY <1>1, <1>2
  <2> QED BY <2>1 DEF Elements
<1>5. ASSUME NEW i \in DOMAIN d PROVE d[i] \in Elements(e)
  <2>0. Len(q) \in Nat /\ Len(d) \in Nat /\ i \in 1..Len(d)
    BY <1>2
  <2>1. i + Len(q) \in 1..(Len(q) + Len(d))
    BY <2>0
  <2>2. i + Len(q) \in DOMAIN e /\ e[i + Len(q)] = d[i]
    BY <1>1, <1>2, <2>0, <2>1
  <2> QED BY <2>2 DEF Elements
<1>6. Elements(e) = Elements(q) \cup Elements(d)
  BY <1>3, <1>4, <1>5 DEF Elements
<1> QED BY <1>1, <1>6 DEF e, Traces

\* The head of the queue is what the device runs next, the tail what is left.
LEMMA HeadOfQueue ==
    ASSUME NEW q \in Traces, q # <<>>
    PROVE  /\ Tail(q) \in Traces /\ <<Head(q)>> \in Traces
           /\ Elements(q) = Elements(<<Head(q)>>) \cup Elements(Tail(q))
<1> DEFINE S == Seg \X (1..Rows)
           d == Tail(q)
           h == <<Head(q)>>
<1>1. q \in Seq(S)
  BY DEF Traces
<1>2. Len(q) \in Nat /\ DOMAIN q = 1..Len(q) /\ \A i \in 1..Len(q) : q[i] \in S
  <2> HIDE DEF S
  <2> QED BY <1>1, LenProperties, ElementOfSeq
<1>3. Len(q) # 0
  <2> HIDE DEF S
  <2> QED BY <1>1, EmptySeq
<1>4. Head(q) = q[1] /\ d \in Seq(S) /\ Len(d) = Len(q) - 1 /\ \A i \in 1..Len(d) : d[i] = q[i + 1]
  <2> HIDE DEF S
  <2> QED BY <1>1, HeadTailProperties
<1>5. DOMAIN d = 1..Len(d)
  BY <1>4, LenProperties
<1>6. h \in Seq(S) /\ Elements(h) = {q[1]}
  <2>1. q[1] \in S
    BY <1>2, <1>3
  <2> HIDE DEF S
  <2>2. <<q[1]>> \in Seq(S) /\ DOMAIN <<q[1]>> = {1} /\ <<q[1]>>[1] = q[1]
    BY <2>1
  <2> QED BY <1>4, <2>2 DEF Elements
<1> HIDE DEF d, h
<1>7. ASSUME NEW i \in DOMAIN q, i # 1 PROVE q[i] \in Elements(d)
  <2>1. i - 1 \in DOMAIN d /\ d[i - 1] = q[i]
    BY <1>2, <1>4, <1>5, <1>7
  <2> QED BY <2>1 DEF Elements
<1>8. ASSUME NEW i \in DOMAIN d PROVE d[i] \in Elements(q)
  <2>1. i + 1 \in DOMAIN q /\ d[i] = q[i + 1]
    BY <1>2, <1>4, <1>5
  <2> QED BY <2>1 DEF Elements
<1>9. q[1] \in Elements(q)
  BY <1>2, <1>3 DEF Elements
<1>10. Elements(q) = {q[1]} \cup Elements(d)
  BY <1>7, <1>8, <1>9 DEF Elements
<1> QED BY <1>4, <1>6, <1>10 DEF Traces, d, h

\* Nothing is an empty list, and a user's trace a list of one.
LEMMA Lists ==
    /\ <<>> \in Traces /\ Elements(<<>>) = {}
    /\ \A s \in Seg, n \in 1..Rows : <<<<s, n>>>> \in Traces /\ Elements(<<<<s, n>>>>) = {<<s, n>>}
<1>1. <<>> \in Traces /\ Elements(<<>>) = {}
  BY DEF Traces, Elements
<1>2. ASSUME NEW s \in Seg, NEW n \in 1..Rows
      PROVE  <<<<s, n>>>> \in Traces /\ Elements(<<<<s, n>>>>) = {<<s, n>>}
  <2> DEFINE t == <<s, n>>
  <2>1. t \in Seg \X (1..Rows)
    OBVIOUS
  <2> HIDE DEF t
  <2>2. <<t>> \in Seq(Seg \X (1..Rows)) /\ DOMAIN <<t>> = {1} /\ <<t>>[1] = t
    BY <2>1
  <2> QED BY <2>2 DEF Traces, Elements, t
<1> QED BY <1>1, <1>2

\* A carry is written by a trace of its own user, from the records, or not at all.
LEMMA RunAllWrites ==
    ASSUME NEW q \in Traces, NEW c \in [Seg -> Nat], NEW s \in Seg
    PROVE  \/ (\A t \in Elements(q) : t[1] # s) /\ RunAll(q, c)[s] = c[s]
           \/ \E t \in Elements(q) : t[1] = s /\ RunAll(q, c)[s] = recs[s] + t[2]
<1>1. CASE ~(\E i \in DOMAIN q : q[i][1] = s)
  BY <1>1 DEF RunAll, Elements
<1>2. CASE \E i \in DOMAIN q : q[i][1] = s
  <2> DEFINE Is(last) == q[last][1] = s /\ \A j \in DOMAIN q : q[j][1] = s => j <= last
             last == CHOOSE i \in DOMAIN q : Is(i)
  <2>1. Len(q) \in Nat /\ DOMAIN q = 1..Len(q)
    BY LenProperties DEF Traces
  <2>2. \E i \in DOMAIN q : Is(i)
    <3> DEFINE T == {n \in Nat : Len(q) - n \in DOMAIN q /\ q[Len(q) - n][1] = s}
    <3>1. PICK k \in DOMAIN q : q[k][1] = s
      BY <1>2
    <3>2. Len(q) - k \in Nat /\ Len(q) - (Len(q) - k) = k
      BY <2>1
    <3>3. T # {}
      BY <3>1, <3>2
    <3>4. PICK x \in T : \A y \in T : x <= y
      <4> HIDE DEF T
      <4>1. T \subseteq Nat
        BY DEF T
      <4> QED BY <3>3, <4>1, LeastElement
    <3>5. ASSUME NEW j \in DOMAIN q, q[j][1] = s PROVE j <= Len(q) - x
      <4>1. Len(q) - j \in Nat /\ Len(q) - (Len(q) - j) = j
        BY <2>1
      <4>2. x <= Len(q) - j
        BY <3>4, <3>5, <4>1
      <4> QED BY <2>1, <3>4, <4>2
    <3> QED BY <3>4, <3>5
  <2>3. last \in DOMAIN q /\ Is(last)
    <3> HIDE DEF Is
    <3> QED BY <2>2
  <2>4. RunAll(q, c)[s] = recs[s] + q[last][2]
    BY <1>2 DEF RunAll
  <2> HIDE DEF last
  <2> QED BY <2>3, <2>4 DEF Elements
<1> QED BY <1>1, <1>2

\* The carries remain counts of rows.
LEMMA RunAllTyped ==
    ASSUME recs \in [Seg -> Nat], NEW q \in Traces, NEW c \in [Seg -> Nat]
    PROVE  RunAll(q, c) \in [Seg -> Nat]
<1>1. ASSUME NEW s \in Seg PROVE RunAll(q, c)[s] \in Nat
  <2>1. ASSUME NEW t \in Elements(q) PROVE t[2] \in Nat
    <3>1. PICK i \in DOMAIN q : t = q[i]
      BY DEF Elements
    <3>2. q[i] \in Seg \X (1..Rows)
      BY LenProperties, ElementOfSeq DEF Traces
    <3> QED BY <3>1, <3>2, BoundAssumption
  <2> QED BY <2>1, RunAllWrites
<1> QED BY <1>1 DEF RunAll

\* Running some of the due traces leaves a carry right.
LEMMA RunningFollows ==
    ASSUME NEW q \in Traces, NEW c \in [Seg -> Nat], NEW s \in Seg, NEW rest, NEW p,
           Follows(s, Elements(q) \cup rest, c[s], recs[s], p)
    PROVE  Follows(s, rest, RunAll(q, c)[s], recs[s], p)
BY RunAllWrites DEF Follows

\* With nothing left it holds the committed rows.
LEMMA AllRun ==
    ASSUME NEW q \in Traces, NEW c \in [Seg -> Nat], NEW s \in Seg, NEW p,
           Follows(s, Elements(q), c[s], recs[s], p)
    PROVE  RunAll(q, c)[s] = p
BY RunAllWrites DEF Follows

-----------------------------------------------------------------------------
(* What a step may leave alone *)

\* A carry stays right if neither the traces nor the positions of those still served move.
LEMMA CarriesKept ==
    ASSUME CarriesFollow, pc # "dead", Due' = Due, carry' = carry, recs' = recs,
           live' \subseteq live, \A s \in live' : pos'[s] = pos[s],
           live' \cap draft.failed \subseteq draft'.failed
    PROVE  CarriesFollow'
BY DEF CarriesFollow

\* The early draft is a record whose cache and key are functions of some users, or absent.
LEMMA DraftTyped ==
    ASSUME TypeOK
    PROVE  /\ draft.early \in BOOLEAN /\ draft.failure \in BOOLEAN /\ draft.failed \in SUBSET Seg
           /\ draft.token \in {None, "current", "stale"}
           /\ \E D, U \in SUBSET Seg : draft \in EarlyDrafts(D, U)
BY DEF TypeOK, EarlyDrafts

-----------------------------------------------------------------------------
(* Between the rounds *)

\* Traces put behind the queue, or run at once with it, leave every carry as right as before.
LEMMA EnqueueKeeps ==
    ASSUME TypeOK, NEW d \in Traces,
           Enqueue(d) \/ (carry' = RunAll(queue \o d, carry) /\ queue' = <<>>)
    PROVE  /\ queue' \in Traces /\ carry' \in [Seg -> Nat]
           /\ Elements(queue') \subseteq Elements(queue) \cup Elements(d)
           /\ \A s \in Seg : \A rest, p :
                Follows(s, Elements(queue) \cup Elements(d) \cup rest, carry[s], recs[s], p)
                  => Follows(s, Elements(queue') \cup rest, carry'[s], recs[s], p)
<1>1. queue \in Traces /\ carry \in [Seg -> Nat] /\ recs \in [Seg -> Nat]
  BY DEF TypeOK
<1>2. queue \o d \in Traces /\ Elements(queue \o d) = Elements(queue) \cup Elements(d)
  BY <1>1, Joined
<1>3. CASE queue' = queue \o d /\ carry' = carry
  BY <1>1, <1>2, <1>3
<1>4. CASE carry' = RunAll(queue \o d, carry) /\ queue' = <<>>
  <2>1. queue' \in Traces /\ Elements(queue') = {}
    BY <1>4, Lists
  <2>2. carry' \in [Seg -> Nat]
    BY <1>1, <1>2, <1>4, RunAllTyped
  <2>3. ASSUME NEW s \in Seg, NEW rest, NEW p,
               Follows(s, Elements(queue) \cup Elements(d) \cup rest, carry[s], recs[s], p)
        PROVE  Follows(s, Elements(queue') \cup rest, carry'[s], recs[s], p)
    <3>1. Follows(s, Elements(queue \o d) \cup rest, carry[s], recs[s], p)
      BY <1>2, <2>3
    <3>2. Follows(s, rest, RunAll(queue \o d, carry)[s], recs[s], p)
      BY <1>1, <1>2, <3>1, RunningFollows
    <3>3. Elements(queue') \cup rest = rest
      BY <2>1
    <3> QED BY <1>4, <3>2, <3>3
  <2> QED BY <2>1, <2>2, <2>3
<1> QED BY <1>3, <1>4 DEF Enqueue

\* The block's record after a flush.
LEMMA DisarmedFields ==
    ASSUME blk \in Block
    PROVE  /\ Disarmed \in Block /\ Disarmed.phase = blk.phase /\ Disarmed.pending = blk.pending
           /\ Disarmed.first = blk.first /\ Disarmed.deferred = <<>>
           /\ Disarmed.armed = FALSE /\ Disarmed.deferring = FALSE
BY Lists DEF Disarmed, Block

\* flush_commits: what was deferred is enqueued, no carry loses its trace, and a block that was
\* ready owes a fence again.
FlushEffect ==
    /\ blk' = Disarmed /\ fault' = fault
    /\ queue' \in Traces /\ carry' \in [Seg -> Nat] /\ ret' \in Retained
    /\ blk.deferred = <<>> => queue' = queue /\ carry' = carry /\ ret' = ret /\ draft' = draft
    /\ ret'.decisions = ret.decisions /\ ret'.poisoned = ret.poisoned
    /\ blk.deferred # <<>> => ~ret'.ready /\ (Decided(ret.decisions) => ret'.owed)
    /\ draft'.early = draft.early /\ draft'.failed = draft.failed /\ draft'.failure = draft.failure
    /\ draft'.cache = draft.cache /\ draft'.key = draft.key
    /\ \A D, U \in SUBSET Seg : draft \in EarlyDrafts(D, U) => draft' \in EarlyDrafts(D, U)
    /\ Due' \subseteq Due
    /\ \A s \in Seg : \A p : Follows(s, Due, carry[s], recs[s], p) => Follows(s, Due', carry'[s], recs[s], p)

\* So it does, whatever was deferred.
LEMMA FlushDoes ==
    ASSUME Inv, FlushDone
    PROVE  FlushEffect
<1>1. /\ blk \in Block /\ ret \in Retained /\ queue \in Traces /\ carry \in [Seg -> Nat] /\ TypeOK
      /\ blk.deferred \in Traces
  BY DEF Inv, TypeOK, Block
<1>2. blk' = Disarmed /\ fault' = fault /\ blk'.deferred = <<>> /\ Elements(blk'.deferred) = {}
  BY <1>1, DisarmedFields, Lists DEF FlushDone
<1>3. PICK D, U \in SUBSET Seg : draft \in EarlyDrafts(D, U)
  BY <1>1, DraftTyped
<1>4. CASE blk.deferred = <<>>
  <2>1. queue' = queue /\ carry' = carry /\ ret' = ret /\ draft' = draft
    BY <1>4 DEF FlushDone
  <2>2. Due' = Due
    BY <1>2, <1>4, <2>1 DEF Due
  <2> QED BY <1>1, <1>2, <1>4, <2>1, <2>2 DEF FlushEffect
<1>5. CASE blk.deferred # <<>>
  <2>1. ~Dropped
    BY <1>5 DEF Inv, BlockInRound, Dropped
  <2>2. /\ Enqueue(blk.deferred) /\ ret' = NoteDeferred(ret)
        /\ draft' = [draft EXCEPT !.token = SerialMoved(@)]
    BY <1>5, <2>1 DEF FlushDone
  <2>3. /\ queue' \in Traces /\ carry' \in [Seg -> Nat]
        /\ Elements(queue') \subseteq Due
        /\ \A s \in Seg : \A p :
             Follows(s, Due, carry[s], recs[s], p) => Follows(s, Elements(queue'), carry'[s], recs[s], p)
    <3>1. \A s \in Seg : \A p :
             Follows(s, Due \cup {}, carry[s], recs[s], p) => Follows(s, Elements(queue') \cup {}, carry'[s], recs[s], p)
      BY <1>1, <2>2, EnqueueKeeps DEF Due
    <3>2. Due \cup {} = Due /\ Elements(queue') \cup {} = Elements(queue')
      OBVIOUS
    <3> QED BY <1>1, <2>2, <3>1, <3>2, EnqueueKeeps DEF Due
  <2>4. Due' = Elements(queue')
    BY <1>2 DEF Due
  <2>5. /\ ret' \in Retained /\ ret'.decisions = ret.decisions /\ ret'.poisoned = ret.poisoned
        /\ ~ret'.ready /\ (Decided(ret.decisions) => ret'.owed)
    <3>1. Decided(ret.decisions) \in BOOLEAN
      BY DEF Decided
    <3> QED BY <1>1, <2>2, <3>1 DEF NoteDeferred, Retained
  <2>6. /\ draft'.early = draft.early /\ draft'.failed = draft.failed /\ draft'.failure = draft.failure
        /\ draft'.cache = draft.cache /\ draft'.key = draft.key
    BY <1>3, <2>2 DEF EarlyDrafts
  <2>7. ASSUME NEW E \in SUBSET Seg, NEW V \in SUBSET Seg, draft \in EarlyDrafts(E, V)
        PROVE  draft' \in EarlyDrafts(E, V)
    <3>1. SerialMoved(draft.token) \in {None, "current", "stale"}
      BY <2>7 DEF EarlyDrafts, SerialMoved
    <3> QED BY <2>2, <2>7, <3>1 DEF EarlyDrafts
  <2> QED BY <1>2, <1>5, <2>3, <2>4, <2>5, <2>6, <2>7 DEF FlushEffect
<1> QED BY <1>4, <1>5

\* A flush that raises: the block has failed, whatever its carries hold.
LEMMA FlushFails ==
    ASSUME Inv, FlushFailed
    PROVE  /\ blk' \in Block /\ blk'.phase = "failed" /\ blk'.first = blk.first
           /\ blk'.deferred = <<>> /\ ~blk'.armed /\ ~blk'.deferring
           /\ ret' \in Retained /\ ret'.poisoned /\ ret'.decisions = ret.decisions
           /\ blk.phase # "failed" /\ ~blk.first
           /\ queue' \in Traces /\ carry' \in [Seg -> Nat]
           /\ fault' = fault \cup {"flush"} /\ fault' \subseteq Faults
<1>1. /\ blk \in Block /\ ret \in Retained /\ queue \in Traces /\ carry \in [Seg -> Nat] /\ TypeOK
      /\ blk.deferred \in Traces /\ fault \subseteq Faults
  BY DEF Inv, TypeOK, Block
<1>2. PICK n \in 0..(Len(blk.deferred) - 1) : Enqueue(SubSeq(blk.deferred, 1, n))
  BY DEF FlushFailed
<1>3. SubSeq(blk.deferred, 1, n) \in Traces
  <2>1. Len(blk.deferred) \in Nat /\ n <= Len(blk.deferred) /\ n \in Int /\ 1 \in Int /\ 1 >= 1
    BY <1>1, LenProperties DEF Traces
  <2> HIDE DEF Traces
  <2>2. \A i \in 1..n : blk.deferred[i] \in Seg \X (1..Rows)
    <3> SUFFICES ASSUME NEW i \in 1..n PROVE blk.deferred[i] \in Seg \X (1..Rows)
      OBVIOUS
    <3>1. i \in 1..Len(blk.deferred)
      BY <2>1
    <3> QED BY <1>1, <3>1, ElementOfSeq DEF Traces
  <2> QED BY <1>1, <2>1, <2>2, SubSeqProperties DEF Traces
<1>4. queue' \in Traces /\ carry' \in [Seg -> Nat]
  BY <1>1, <1>2, <1>3, EnqueueKeeps
<1>5. blk.deferred # <<>> /\ blk.phase # "failed" /\ ~blk.first
  BY DEF FlushFailed, Dropped, Inv, FencedIsRun
<1>6. /\ blk' \in Block /\ blk'.phase = "failed" /\ blk'.first = blk.first
      /\ blk'.deferred = <<>> /\ ~blk'.armed /\ ~blk'.deferring
  <2>1. blk' = [Disarmed EXCEPT !.phase = "failed"]
    BY DEF FlushFailed
  <2> QED BY <1>1, <2>1, DisarmedFields DEF Block
<1>7. ret' \in Retained /\ ret'.poisoned /\ ret'.decisions = ret.decisions
  BY <1>1 DEF FlushFailed, Retained
<1>8. fault' = fault \cup {"flush"} /\ fault' \subseteq Faults
  BY <1>1 DEF FlushFailed, Fails
<1> QED BY <1>4, <1>5, <1>6, <1>7, <1>8

\* An abort moves nothing of the block.
LEMMA AbortKeeps ==
    ASSUME Inv, NEW s \in Seg, Abort(s), UNCHANGED profile
    PROVE  Inv'
<1>1. TypeOK'
  BY DEF Inv, TypeOK, Abort, device
<1>2. BlockInRound' /\ DecisionsInRound' /\ FencedIsRun'
  BY DEF Inv, BlockInRound, DecisionsInRound, Decided, RoundFenced, FencedIsRun, Abort, device
<1>3. DeferredInStep' /\ RoundServesLive'
  BY DEF Inv, DeferredInStep, AfterPairs, EarlyDraft, RoundServesLive, Abort, device
<1>4. CarriesFollow' /\ PendingVerified'
  BY DEF Inv, CarriesFollow, Due, PendingVerified, Abort, device
<1>5. DraftsKept'
  BY DEF Inv, DraftsKept, EarlyDraft, DraftKey, Abort, device
<1>6. StagedAsNoted' /\ StagedIsCurrent'
  BY DEF Inv, StagedAsNoted, Usable, StagedIsCurrent, Inputs, Abort, device
<1> QED BY <1>1, <1>2, <1>3, <1>4, <1>5, <1>6 DEF Inv

\* A step that schedules nothing bumps the write epoch.
LEMMA BookkeepingKeeps ==
    ASSUME Inv, BookkeepingStep, UNCHANGED profile
    PROVE  Inv'
<1>1. TypeOK'
  BY DEF Inv, TypeOK, BookkeepingStep, Bump, requests, device
<1>2. BlockInRound' /\ DecisionsInRound' /\ FencedIsRun'
  BY DEF Inv, BlockInRound, DecisionsInRound, Decided, RoundFenced, FencedIsRun, BookkeepingStep, Bump, requests, device
<1>3. DeferredInStep' /\ RoundServesLive'
  BY DEF Inv, DeferredInStep, AfterPairs, EarlyDraft, RoundServesLive, BookkeepingStep, Bump, requests, device
<1>4. CarriesFollow' /\ PendingVerified'
  BY DEF Inv, CarriesFollow, Due, PendingVerified, BookkeepingStep, Bump, requests, device
<1>5. DraftsKept'
  BY DEF Inv, DraftsKept, EarlyDraft, DraftKey, BookkeepingStep, Bump, requests, device
<1>6. StagedAsNoted' /\ StagedIsCurrent'
  BY DEF Inv, StagedAsNoted, Usable, StagedIsCurrent, Inputs, BookkeepingStep, Bump, requests, device
<1> QED BY <1>1, <1>2, <1>3, <1>4, <1>5, <1>6 DEF Inv

\* A detached segment is served no more, and its failure forgotten.
LEMMA DetachKeeps ==
    ASSUME Inv, NEW s \in Seg, Detach(s), UNCHANGED profile
    PROVE  Inv'
<1>0. PICK D, U \in SUBSET Seg : draft \in EarlyDrafts(D, U)
  BY DraftTyped DEF Inv
<1>1. draft' \in EarlyDrafts(D, U) /\ draft'.failed = draft.failed \ {s}
  BY <1>0 DEF Detach, EarlyDrafts
<1>2. TypeOK'
  <2>1. \E E, V \in SUBSET Seg : draft' \in EarlyDrafts(E, V)
    BY <1>1
  <2>2. /\ ticket' \in [Seg -> Ticket] /\ handed' \in [Seg -> Ticket]
        /\ pos' \in [Seg -> Nat] /\ pages' \in [Seg -> {0, 1}]
    BY DEF Inv, TypeOK, Detach, Ticket
  <2>3. snap' \in [current : BOOLEAN, values : [Seg -> Values]] \cup {None}
    BY DEF Inv, TypeOK, Detach, Bump
  <2> QED BY <2>1, <2>2, <2>3 DEF Inv, TypeOK, Detach, device
<1>3. BlockInRound' /\ DecisionsInRound' /\ FencedIsRun'
  BY DEF Inv, BlockInRound, DecisionsInRound, Decided, RoundFenced, FencedIsRun, Detach, device
<1>4. DeferredInStep' /\ RoundServesLive'
  BY DEF Inv, DeferredInStep, AfterPairs, EarlyDraft, RoundServesLive, Detach, device
<1>5. CarriesFollow'
  <2>1. Due' = Due /\ carry' = carry /\ recs' = recs /\ pc # "dead" /\ live' = live \ {s}
    BY DEF Detach, device, Due
  <2>2. \A u \in live' : pos'[u] = pos[u]
    BY <2>1 DEF Detach, Inv, TypeOK
  <2>3. live' \cap draft.failed \subseteq draft'.failed
    BY <1>1, <2>1
  <2> QED BY <2>1, <2>2, <2>3, CarriesKept DEF Inv
<1>6. PendingVerified' /\ DraftsKept'
  BY DEF Inv, PendingVerified, Due, DraftsKept, EarlyDraft, DraftKey, Detach, device
<1>7. StagedAsNoted' /\ StagedIsCurrent'
  BY DEF Inv, TypeOK, StagedAsNoted, Usable, Bump, StagedIsCurrent, Inputs, Detach
<1> QED BY <1>2, <1>3, <1>4, <1>5, <1>6, <1>7 DEF Inv

\* The commit trace at the head of the queue runs at any point of the host's round.
LEMMA DeviceKeeps ==
    ASSUME Inv, DeviceRuns, UNCHANGED profile
    PROVE  Inv'
<1>1. queue \in Traces /\ carry \in [Seg -> Nat] /\ recs \in [Seg -> Nat] /\ queue # <<>>
  BY DEF Inv, TypeOK, DeviceRuns
<1>2. /\ queue' = Tail(queue) /\ carry' = RunAll(<<Head(queue)>>, carry) /\ recs' = recs
      /\ blk' = blk /\ pos' = pos /\ live' = live /\ draft' = draft /\ pc' = pc
  BY DEF DeviceRuns, requests
<1>3. /\ queue' \in Traces /\ <<Head(queue)>> \in Traces
      /\ Elements(queue) = Elements(<<Head(queue)>>) \cup Elements(queue')
  BY <1>1, <1>2, HeadOfQueue
<1>4. carry' \in [Seg -> Nat]
  BY <1>1, <1>2, <1>3, RunAllTyped
<1>5. Due = Elements(<<Head(queue)>>) \cup Due'
  BY <1>2, <1>3 DEF Due
<1>6. TypeOK'
  BY <1>2, <1>3, <1>4 DEF Inv, TypeOK, DeviceRuns, requests
<1>7. BlockInRound' /\ DecisionsInRound' /\ FencedIsRun'
  BY <1>1 DEF Inv, BlockInRound, DecisionsInRound, Decided, RoundFenced, FencedIsRun, DeviceRuns
<1>8. DeferredInStep' /\ RoundServesLive'
  BY DEF Inv, DeferredInStep, AfterPairs, EarlyDraft, RoundServesLive, DeviceRuns, requests
<1>9. CarriesFollow'
  <2> SUFFICES ASSUME pc # "dead", NEW s \in live \ draft.failed
               PROVE  Follows(s, Due', carry'[s], recs[s], pos[s])
    BY <1>2 DEF CarriesFollow
  <2>1. s \in Seg /\ Follows(s, Elements(<<Head(queue)>>) \cup Due', carry[s], recs[s], pos[s])
    BY <1>5 DEF Inv, TypeOK, CarriesFollow
  <2> QED BY <1>1, <1>2, <1>3, <2>1, RunningFollows
<1>10. PendingVerified'
  BY <1>2, <1>5 DEF Inv, PendingVerified
<1>11. DraftsKept'
  BY DEF Inv, DraftsKept, EarlyDraft, DraftKey, DeviceRuns, requests
<1>12. StagedAsNoted' /\ StagedIsCurrent'
  BY DEF Inv, StagedAsNoted, Usable, StagedIsCurrent, Inputs, DeviceRuns, requests
<1> QED BY <1>6, <1>7, <1>8, <1>9, <1>10, <1>11, <1>12 DEF Inv

\* A step begins: nothing is deferred any more, and drafts nobody took are dropped.
LEMMA StepBeginsKeeps ==
    ASSUME Inv, StepBegins, UNCHANGED profile
    PROVE  Inv'
<1>0. PICK D, U \in SUBSET Seg : draft \in EarlyDrafts(D, U)
  BY DraftTyped DEF Inv
<1>1. pc = "between" /\ pc' = "step" /\ blk.deferred = <<>> /\ blk \in Block
  BY DEF Inv, TypeOK, DeferredInStep, StepBegins
<1>2. queue' = queue /\ carry' = carry /\ ret' = ret /\ fault' = fault
  BY <1>1 DEF StepBegins
<1>3. /\ blk' \in Block /\ blk'.phase = blk.phase /\ blk'.pending = blk.pending
      /\ blk'.first = blk.first /\ blk'.deferred = <<>>
      /\ blk'.armed => blk.armed
      /\ blk'.deferring => blk.deferring
  BY <1>1, DisarmedFields DEF StepBegins
<1>4. /\ draft' \in EarlyDrafts(D, U) /\ draft'.failed = draft.failed /\ draft'.early = draft.early
      /\ draft'.cache = None
  <2>1. CASE EarlyDraft
    <3>1. draft' = ReconciledDraft
      BY <1>1, <2>1 DEF StepBegins
    <3> QED BY <1>0, <3>1 DEF ReconciledDraft, EarlyDrafts
  <2>2. CASE ~EarlyDraft
    BY <1>0, <2>2 DEF StepBegins, Inv, DraftsKept
  <2> QED BY <2>1, <2>2
<1>5. UNCHANGED <<requests, entries, recs, snap, buf, rounds>>
  BY DEF StepBegins
<1>6. TypeOK'
  <2>1. \E E, V \in SUBSET Seg : draft' \in EarlyDrafts(E, V)
    BY <1>4
  <2> QED BY <1>1, <1>2, <1>3, <1>5, <2>1 DEF Inv, TypeOK, requests
<1>7. BlockInRound' /\ DecisionsInRound' /\ FencedIsRun'
  BY <1>1, <1>2, <1>3 DEF Inv, BlockInRound, DecisionsInRound, Decided, RoundFenced, FencedIsRun
<1>8. DeferredInStep' /\ RoundServesLive'
  BY <1>1, <1>3, <1>4, <1>5 DEF Inv, DeferredInStep, AfterPairs, EarlyDraft, RoundServesLive, requests
<1>9. CarriesFollow'
  <2>1. Due' = Due
    BY <1>1, <1>2, <1>3 DEF Due
  <2> QED BY <1>1, <1>2, <1>4, <1>5, <2>1, CarriesKept DEF Inv, requests
<1>10. PendingVerified' /\ DraftsKept'
  BY <1>1, <1>4 DEF PendingVerified, DraftsKept
<1>11. StagedAsNoted' /\ StagedIsCurrent'
  BY <1>1, <1>5 DEF Inv, StagedAsNoted, Usable, StagedIsCurrent
<1> QED BY <1>6, <1>7, <1>8, <1>9, <1>10, <1>11 DEF Inv

\* Somebody's prefill drains the queue; a request it admits starts with an empty carry.
LEMMA PrefillKeeps ==
    ASSUME Inv, PrefillStep, UNCHANGED profile
    PROVE  Inv'
<1>1. /\ pc = "step" /\ pc' = "take" /\ blk.deferred = <<>> /\ queue' = <<>>
      /\ blk' = blk /\ ret' = ret /\ recs' = recs /\ draft' = draft /\ fault' = fault
      /\ gone' = gone /\ fin' = fin /\ pages' = pages /\ ticket' = ticket /\ handed' = handed
      /\ entries' = entries /\ rounds' = rounds /\ snap' = Bump(snap)
  BY DEF Inv, DeferredInStep, PrefillStep
<1>2. queue \in Traces /\ carry \in [Seg -> Nat] /\ recs \in [Seg -> Nat] /\ live \subseteq Seg
  BY DEF Inv, TypeOK
<1>3. /\ RunAll(queue, carry) \in [Seg -> Nat] /\ queue' \in Traces
      /\ \A s \in live \ draft.failed : RunAll(queue, carry)[s] = pos[s]
  <2>1. ASSUME NEW s \in live \ draft.failed PROVE RunAll(queue, carry)[s] = pos[s]
    <3>1. Due = Elements(queue)
      BY <1>1, Lists DEF Due
    <3>2. Follows(s, Elements(queue), carry[s], recs[s], pos[s]) /\ s \in Seg
      BY <1>1, <1>2, <3>1 DEF Inv, CarriesFollow
    <3> QED BY <1>2, <3>2, AllRun
  <2> QED BY <1>1, <1>2, <2>1, RunAllTyped, Lists
<1>4. /\ live \subseteq live' /\ live' \subseteq Seg /\ pos' \in [Seg -> Nat] /\ carry' \in [Seg -> Nat]
      /\ \A s \in live' \ draft.failed : carry'[s] = pos'[s]
  <2>1. CASE live' = live /\ pos' = pos /\ carry' = RunAll(queue, carry)
    BY <1>2, <1>3, <2>1 DEF Inv, TypeOK
  <2>2. CASE \E s \in Seg \ live : /\ live' = live \cup {s} /\ pos' = [pos EXCEPT ![s] = 0]
                                   /\ carry' = [RunAll(queue, carry) EXCEPT ![s] = 0]
    BY <1>2, <1>3, <2>2 DEF Inv, TypeOK
  <2> QED BY <2>1, <2>2 DEF PrefillStep
<1>5. buf' \in [Seg -> Values] /\ snap' \in [current : BOOLEAN, values : [Seg -> Values]] \cup {None}
  <2>1. Junk \in Values
    BY DEF Values
  <2>2. buf' \in [Seg -> Values]
    BY <2>1 DEF Inv, TypeOK, PrefillStep
  <2> QED BY <1>1, <2>2 DEF Inv, TypeOK, Bump
<1>6. TypeOK'
  BY <1>1, <1>3, <1>4, <1>5 DEF Inv, TypeOK
<1>7. BlockInRound' /\ DecisionsInRound' /\ FencedIsRun'
  BY <1>1 DEF Inv, BlockInRound, DecisionsInRound, Decided, RoundFenced, FencedIsRun
<1>8. DeferredInStep' /\ RoundServesLive'
  BY <1>1, <1>4 DEF Inv, DeferredInStep, AfterPairs, EarlyDraft, RoundServesLive
<1>9. CarriesFollow'
  <2>1. Due' = {}
    BY <1>1, Lists DEF Due
  <2> QED BY <1>1, <1>4, <2>1 DEF CarriesFollow, Follows
<1>10. PendingVerified' /\ StagedIsCurrent'
  BY <1>1 DEF PendingVerified, StagedIsCurrent
<1>11. DraftsKept' /\ StagedAsNoted'
  BY <1>1 DEF Inv, TypeOK, DraftsKept, StagedAsNoted, Usable, Bump
<1> QED BY <1>6, <1>7, <1>8, <1>9, <1>10, <1>11 DEF Inv

\* A decode step takes its users and arms the block.
LEMMA DecodeKeeps ==
    ASSUME Inv, DecodeStep, UNCHANGED profile
    PROVE  Inv'
<1>0. blk \in Block /\ profile \in Profiles /\ draft' = draft /\ profile' = profile
  BY DEF Inv, TypeOK, DecodeStep
<1>1. /\ blk'.phase = blk.phase /\ blk'.pending = blk.pending /\ blk'.first = blk.first
      /\ blk'.armed = (blk.armed \/ AfterPairs) /\ blk'.deferring = blk.deferring
      /\ blk'.deferred = blk.deferred
  BY <1>0 DEF DecodeStep, Block
<1>2. blk' \in Block
  <2>1. (blk.armed \/ AfterPairs) \in BOOLEAN
    OBVIOUS
  <2>2. blk' = [blk EXCEPT !.armed = blk.armed \/ AfterPairs]
    BY <1>0 DEF DecodeStep, Block
  <2> QED BY <1>0, <2>1, <2>2 DEF Block
<1>3. TypeOK'
  <2>1. pages' \in [Seg -> {0, 1}] /\ handed' \in [Seg -> Ticket]
    BY DEF DecodeStep, Inv, TypeOK, Ticket
  <2>2. rounds' \in 0..MaxRounds
    BY BoundAssumption DEF DecodeStep, Inv, TypeOK
  <2>3. entries' \subseteq Seg /\ pc' \in {"dead", "verify", "sequential"}
    BY DEF DecodeStep, Inv, TypeOK
  <2> QED BY <1>0, <1>2, <2>1, <2>2, <2>3 DEF DecodeStep, Inv, TypeOK, device
<1>4. BlockInRound' /\ DecisionsInRound' /\ FencedIsRun'
  BY <1>1 DEF Inv, BlockInRound, DecisionsInRound, Decided, RoundFenced, FencedIsRun, DecodeStep, device
<1>5. DeferredInStep'
  <2>1. pc = "step" /\ blk.deferred = <<>>
    BY DEF DecodeStep, Inv, DeferredInStep
  <2> QED BY <1>0, <1>1, <2>1 DEF Inv, DeferredInStep, AfterPairs, EarlyDraft
<1>6. RoundServesLive'
  BY DEF Inv, RoundServesLive, DecodeStep
<1>7. CarriesFollow'
  <2>1. Due' = Due /\ carry' = carry /\ recs' = recs /\ pc # "dead" /\ live' = live /\ pos' = pos
    BY <1>1 DEF DecodeStep, device, Due
  <2> QED BY <1>0, <2>1, CarriesKept DEF Inv
<1>8. PendingVerified' /\ DraftsKept'
  BY <1>0 DEF Inv, PendingVerified, DraftsKept, DecodeStep
<1>9. StagedAsNoted' /\ StagedIsCurrent'
  BY DEF Inv, StagedAsNoted, Usable, StagedIsCurrent, DecodeStep
<1> QED BY <1>3, <1>4, <1>5, <1>6, <1>7, <1>8, <1>9 DEF Inv

-----------------------------------------------------------------------------
(* The round: one user's own engine, or the block *)

\* What Committed leaves of one user's request.
LEMMA CommittedMoves ==
    ASSUME TypeOK, NEW s \in live, NEW prefix \in 0..Rows, Committed(s, prefix)
    PROVE  /\ pos' \in [Seg -> Nat] /\ pos'[s] = pos[s] + prefix
           /\ \A u \in Seg : u # s => pos'[u] = pos[u]
           /\ ticket' \in [Seg -> Ticket] /\ live' = live /\ pages' = pages /\ handed' = handed
           /\ gone' \subseteq live' /\ fin' \subseteq gone'
<1>1. prefix \in Nat /\ s \in Seg /\ pos \in [Seg -> Nat] /\ ticket \in [Seg -> Ticket]
  BY BoundAssumption DEF TypeOK
<1>2. pos' \in [Seg -> Nat] /\ pos'[s] = pos[s] + prefix /\ \A u \in Seg : u # s => pos'[u] = pos[u]
  BY <1>1 DEF Committed
<1>3. ticket' \in [Seg -> Ticket]
  BY <1>1 DEF Committed, Ticket
<1>4. gone' \subseteq live' /\ fin' \subseteq gone' /\ live' = live /\ pages' = pages /\ handed' = handed
  BY DEF Committed, TypeOK
<1> QED BY <1>2, <1>3, <1>4

\* The drafts of the step begin with nothing cached.
LEMMA DraftBeginsTyped ==
    ASSUME NEW D \in SUBSET Seg, NEW U \in SUBSET Seg, draft \in EarlyDrafts(D, U), profile \in Profiles
    PROVE  /\ DraftBegins \in EarlyDrafts(D, U) /\ DraftBegins.early = EarlyDraft
           /\ DraftBegins.failed = draft.failed /\ DraftBegins.cache = draft.cache
<1>1. EarlyDraft \in BOOLEAN
  BY FlagAssumption DEF EarlyDraft
<1> QED BY <1>1 DEF DraftBegins, EarlyDrafts

\* A user served by its own engine reads and writes its carry behind everything enqueued.
LEMMA SequentialKeeps ==
    ASSUME Inv, NEW s \in Seg, SequentialUser(s), UNCHANGED profile
    PROVE  Inv'
<1>0. PICK D, U \in SUBSET Seg : draft \in EarlyDrafts(D, U)
  BY DraftTyped DEF Inv
<1>1. PICK prefix \in 0..Rows : /\ Committed(s, prefix)
                                /\ carry' = [RunAll(queue, carry) EXCEPT ![s] = @ + prefix]
  BY DEF SequentialUser
<1>2. /\ pc = "sequential" /\ s \in entries /\ queue' = <<>> /\ entries' = entries \ {s}
      /\ blk' = blk /\ ret' = ret /\ recs' = recs /\ snap' = snap /\ buf' = buf /\ rounds' = rounds
      /\ fault' = fault /\ blk.deferred = <<>> /\ s \in live /\ draft.failed = {} /\ entries \subseteq live
  BY DEF SequentialUser, Inv, RoundServesLive, DeferredInStep
<1>3. /\ queue \in Traces /\ carry \in [Seg -> Nat] /\ recs \in [Seg -> Nat] /\ live \subseteq Seg
      /\ profile \in Profiles /\ prefix \in Nat /\ TypeOK
  BY BoundAssumption DEF Inv, TypeOK
<1>4. /\ pos' \in [Seg -> Nat] /\ pos'[s] = pos[s] + prefix
      /\ \A u \in Seg : u # s => pos'[u] = pos[u]
      /\ ticket' \in [Seg -> Ticket] /\ live' = live /\ pages' = pages /\ handed' = handed
      /\ gone' \subseteq live' /\ fin' \subseteq gone'
  BY <1>1, <1>2, <1>3, CommittedMoves
<1>5. /\ RunAll(queue, carry) \in [Seg -> Nat] /\ queue' \in Traces
      /\ \A u \in live : RunAll(queue, carry)[u] = pos[u]
  <2>1. ASSUME NEW u \in live PROVE RunAll(queue, carry)[u] = pos[u]
    <3>1. Due = Elements(queue)
      BY <1>2, Lists DEF Due
    <3>2. Follows(u, Elements(queue), carry[u], recs[u], pos[u]) /\ u \in Seg
      BY <1>2, <1>3, <3>1 DEF Inv, CarriesFollow
    <3> QED BY <1>3, <3>2, AllRun
  <2> QED BY <1>2, <1>3, <2>1, RunAllTyped, Lists
<1>6. carry' \in [Seg -> Nat] /\ \A u \in live : carry'[u] = pos'[u]
  BY <1>1, <1>3, <1>4, <1>5
<1>7. /\ draft' \in EarlyDrafts(D, U) /\ draft'.failed = draft.failed /\ draft'.cache = draft.cache
      /\ draft'.early = draft.early \/ draft'.early = EarlyDraft
      /\ pc' \in {"draft", "take", "sequential"}
  BY <1>0, <1>2, <1>3, DraftBeginsTyped DEF SequentialUser, AfterRound
<1>8. TypeOK'
  <2>1. \E E, V \in SUBSET Seg : draft' \in EarlyDrafts(E, V)
    BY <1>7
  <2> QED BY <1>2, <1>3, <1>4, <1>5, <1>6, <1>7, <2>1 DEF TypeOK
<1>9. BlockInRound' /\ DecisionsInRound' /\ FencedIsRun'
  BY <1>2, <1>7 DEF Inv, BlockInRound, DecisionsInRound, Decided, RoundFenced, FencedIsRun
<1>10. DeferredInStep' /\ RoundServesLive'
  BY <1>2, <1>4, <1>7 DEF Inv, DeferredInStep, AfterPairs, EarlyDraft, RoundServesLive
<1>11. CarriesFollow'
  <2>1. Due' = {}
    BY <1>2, Lists DEF Due
  <2> QED BY <1>4, <1>6, <2>1 DEF CarriesFollow, Follows
<1>12. PendingVerified' /\ DraftsKept' /\ StagedIsCurrent'
  BY <1>2, <1>7 DEF Inv, PendingVerified, DraftsKept, StagedIsCurrent
<1>13. StagedAsNoted'
  BY <1>2 DEF Inv, StagedAsNoted, Usable
<1> QED BY <1>8, <1>9, <1>10, <1>11, <1>12, <1>13 DEF Inv

\* The rows, positions and pages of some users are values of the verify's buffers.
LEMMA InputsTyped ==
    ASSUME TypeOK, NEW users \in SUBSET Seg
    PROVE  Inputs(users) \in [Seg -> Values]
<1>1. ASSUME NEW s \in Seg PROVE <<pos[s], pages[s]>> \in Values /\ Idle \in Values
  BY DEF TypeOK, Values
<1> QED BY <1>1 DEF Inputs

\* Staging only the values that differ from a usable snapshot stages them all.
LEMMA StagesAll ==
    ASSUME Inv, NEW values \in [Seg -> Values]
    PROVE  Staged(snap, values) = values
<1>1. CASE Usable(snap)
  <2>1. buf = snap.values
    BY <1>1 DEF Inv, StagedAsNoted
  <2>2. Staged(snap, values) = [g \in Seg |-> IF buf[g] # values[g] THEN values[g] ELSE buf[g]]
    BY <1>1, <2>1 DEF Staged
  <2>3. Staged(snap, values) = [g \in Seg |-> values[g]]
    BY <2>2
  <2> QED BY <2>3
<1>2. CASE ~Usable(snap)
  BY <1>2 DEF Staged
<1> QED BY <1>1, <1>2

\* The block stages its inputs: nothing is deferred any more.
LEMMA VerifyStagesKeeps ==
    ASSUME Inv, VerifyStages, UNCHANGED profile
    PROVE  Inv'
<1>1. /\ pc = "verify" /\ blk' = blk /\ queue' = queue /\ carry' = carry /\ ret' = ret /\ draft' = draft
      /\ fault' = fault /\ recs' = recs /\ entries' = entries /\ rounds' = rounds /\ UNCHANGED requests
  BY DEF Inv, DeferredInStep, VerifyStages
<1>2. entries \in SUBSET Seg /\ TypeOK
  BY DEF Inv, TypeOK
<1>3. \/ pc' = "staged" /\ blk.phase = "idle" /\ buf' = Inputs(entries) /\ snap' = None
      \/ pc' = "dead" /\ buf' = buf /\ snap' = snap /\ blk.phase # "idle"
  <2>1. Inputs(entries) \in [Seg -> Values]
    BY <1>2, InputsTyped
  <2>2. Staged(snap, Inputs(entries)) = Inputs(entries)
    BY <2>1, StagesAll
  <2> QED BY <2>2 DEF VerifyStages
<1>4. buf' \in [Seg -> Values]
  BY <1>2, <1>3, InputsTyped DEF TypeOK
<1>5. TypeOK'
  BY <1>1, <1>2, <1>3, <1>4 DEF TypeOK, requests
<1>6. BlockInRound' /\ DecisionsInRound' /\ FencedIsRun'
  BY <1>1, <1>3 DEF Inv, BlockInRound, DecisionsInRound, Decided, RoundFenced, FencedIsRun
<1>7. DeferredInStep' /\ RoundServesLive'
  BY <1>1, <1>3 DEF Inv, DeferredInStep, AfterPairs, EarlyDraft, RoundServesLive, requests
<1>8. CarriesFollow'
  <2>1. Due' = Due
    BY <1>1 DEF Due
  <2> QED BY <1>1, <2>1, CarriesKept DEF Inv, requests
<1>9. PendingVerified' /\ DraftsKept'
  BY <1>1, <1>3 DEF Inv, PendingVerified, DraftsKept
<1>10. StagedIsCurrent'
  BY <1>1, <1>3 DEF StagedIsCurrent, Inputs, requests
<1>11. StagedAsNoted'
  BY <1>3 DEF Inv, StagedAsNoted, Usable
<1> QED BY <1>5, <1>6, <1>7, <1>8, <1>9, <1>10, <1>11 DEF Inv

\* A copy of the staging raises and ends the worker.
LEMMA StagingFailsKeeps ==
    ASSUME Inv, StagingFails, UNCHANGED profile
    PROVE  Inv'
<1>1. blk \in Block /\ entries \in SUBSET Seg /\ TypeOK
  BY DEF Inv, TypeOK
<1>2. /\ pc = "verify" /\ pc' = "dead" /\ snap' = None /\ entries' = entries /\ UNCHANGED requests
      /\ ret' = ret /\ queue' = queue /\ carry' = carry /\ recs' = recs /\ draft' = draft /\ rounds' = rounds
      /\ fault' \subseteq Faults
  BY DEF StagingFails, Fails, device, Inv, TypeOK
<1>3. /\ blk' \in Block /\ blk'.phase = "failed" /\ blk'.first = blk.first /\ blk'.deferred = <<>>
      /\ ~blk'.armed /\ ~blk'.deferring
  <2>1. blk' = [Disarmed EXCEPT !.phase = "failed"]
    BY DEF StagingFails
  <2> QED BY <1>1, <2>1, DisarmedFields DEF Block
<1>4. buf' \in [Seg -> Values]
  <2>1. Inputs(entries) \in [Seg -> Values]
    BY <1>1, InputsTyped
  <2> QED BY <1>1, <2>1 DEF StagingFails, TypeOK
<1>5. TypeOK'
  BY <1>1, <1>2, <1>3, <1>4 DEF TypeOK, requests
<1>6. BlockInRound' /\ DecisionsInRound' /\ FencedIsRun'
  BY <1>2, <1>3 DEF Inv, BlockInRound, DecisionsInRound, FencedIsRun
<1>7. DeferredInStep' /\ RoundServesLive'
  BY <1>2, <1>3 DEF Inv, DeferredInStep, EarlyDraft, RoundServesLive, requests
<1>8. CarriesFollow' /\ PendingVerified' /\ StagedIsCurrent' /\ StagedAsNoted'
  BY <1>2 DEF CarriesFollow, PendingVerified, StagedIsCurrent, StagedAsNoted, Usable
<1>9. DraftsKept'
  BY <1>2 DEF Inv, DraftsKept
<1> QED BY <1>5, <1>6, <1>7, <1>8, <1>9 DEF Inv

\* The host waits for an owed fence before the replay: the queue has run.
LEMMA FencedAtReplayKeeps ==
    ASSUME Inv, FencedAtReplay, UNCHANGED profile
    PROVE  Inv'
<1>1. /\ pc = "staged" /\ pc' = pc /\ carry' = RunAll(queue, carry) /\ queue' = <<>> /\ blk.deferred = <<>>
      /\ blk' = blk /\ recs' = recs /\ draft' = draft /\ UNCHANGED requests
      /\ UNCHANGED <<entries, snap, buf, rounds, fault>> /\ Decided(ret.decisions) /\ ~ret.poisoned
  BY DEF FencedAtReplay, FenceIsOwed, Drain, Inv, DeferredInStep
<1>2. /\ queue \in Traces /\ carry \in [Seg -> Nat] /\ recs \in [Seg -> Nat] /\ live \subseteq Seg
      /\ ret \in Retained
  BY DEF Inv, TypeOK
<1>3. /\ ret' \in Retained /\ ret'.ready /\ ret'.decisions = ret.decisions /\ ret'.poisoned = ret.poisoned
  BY <1>2 DEF FencedAtReplay, Retained
<1>4. carry' \in [Seg -> Nat] /\ queue' \in Traces /\ Due' = {} /\ Due = Elements(queue)
  BY <1>1, <1>2, RunAllTyped, Lists DEF Due
<1>5. TypeOK'
  BY <1>1, <1>3, <1>4 DEF Inv, TypeOK, requests
<1>6. BlockInRound' /\ DecisionsInRound' /\ FencedIsRun'
  BY <1>1, <1>3 DEF Inv, BlockInRound, DecisionsInRound, Decided, FencedIsRun
<1>7. DeferredInStep' /\ RoundServesLive'
  BY <1>1 DEF Inv, DeferredInStep, AfterPairs, EarlyDraft, RoundServesLive, requests
<1>8. CarriesFollow'
  <2> SUFFICES ASSUME NEW s \in live \ draft.failed PROVE carry'[s] = pos[s]
    BY <1>1, <1>4 DEF CarriesFollow, Follows, requests
  <2>1. Follows(s, Elements(queue), carry[s], recs[s], pos[s]) /\ s \in Seg
    BY <1>1, <1>2, <1>4 DEF Inv, CarriesFollow
  <2> QED BY <1>1, <1>2, <2>1, AllRun
<1>9. PendingVerified' /\ DraftsKept'
  BY <1>1 DEF Inv, PendingVerified, DraftsKept
<1>10. StagedIsCurrent' /\ StagedAsNoted'
  BY <1>1 DEF Inv, StagedIsCurrent, Inputs, StagedAsNoted, Usable, requests
<1> QED BY <1>5, <1>6, <1>7, <1>8, <1>9, <1>10 DEF Inv

\* The verify trace reads every carry: those of its users hold their committed rows.
LEMMA ReplayKeeps ==
    ASSUME Inv, Replay, UNCHANGED profile
    PROVE  Inv'
<1>1. /\ pc = "staged" /\ pc' = "commit" /\ carry' = RunAll(queue, carry) /\ queue' = <<>>
      /\ recs' = carry' /\ draft' = draft /\ UNCHANGED requests /\ UNCHANGED <<entries, snap, buf, rounds, fault>>
      /\ blk.phase = "idle" /\ ~ret.poisoned /\ blk.deferred = <<>> /\ draft.failed = {} /\ entries \subseteq live
  BY DEF Replay, Drain, Inv, BlockInRound, DeferredInStep, RoundServesLive
<1>2. /\ queue \in Traces /\ carry \in [Seg -> Nat] /\ recs \in [Seg -> Nat] /\ live \subseteq Seg
      /\ ret \in Retained /\ blk \in Block /\ entries \in SUBSET Seg /\ profile \in Profiles
  BY DEF Inv, TypeOK
<1>3. /\ blk' \in Block /\ blk'.phase = "verified" /\ blk'.first = FALSE /\ blk'.pending = entries
      /\ blk'.deferring = blk.armed /\ blk'.armed = FALSE /\ blk'.deferred = <<>>
  BY <1>2, Lists DEF Replay, Block
<1>4. /\ ret' \in Retained /\ ~ret'.ready /\ ret'.poisoned = ret.poisoned
      /\ ret'.decisions = [s \in Seg |-> IF s \in entries THEN None ELSE 0]
  <2> DEFINE decisions == [s \in Seg |-> IF s \in entries THEN None ELSE 0]
  <2>1. decisions \in [Seg -> (0..Rows) \cup {None}]
    BY BoundAssumption
  <2>2. ret' = [ret EXCEPT !.decisions = decisions, !.ready = FALSE, !.owed = FALSE]
    BY <1>2 DEF Replay, RetainedCommit
  <2> HIDE DEF decisions
  <2>3. ret' \in Retained /\ ~ret'.ready /\ ret'.poisoned = ret.poisoned /\ ret'.decisions = decisions
    BY <1>2, <2>1, <2>2 DEF Retained
  <2> QED BY <2>3 DEF decisions
<1>5. carry' \in [Seg -> Nat] /\ queue' \in Traces /\ Due' = {} /\ Due = Elements(queue)
  BY <1>1, <1>2, <1>3, RunAllTyped, Lists DEF Due
<1>6. ASSUME NEW s \in live PROVE carry'[s] = pos[s]
  <2>1. Follows(s, Elements(queue), carry[s], recs[s], pos[s]) /\ s \in Seg
    BY <1>1, <1>2, <1>5 DEF Inv, CarriesFollow
  <2> QED BY <1>1, <1>2, <2>1, AllRun
<1>7. TypeOK'
  BY <1>1, <1>3, <1>4, <1>5 DEF Inv, TypeOK, requests
<1>8. BlockInRound' /\ FencedIsRun'
  BY <1>1, <1>3, <1>4 DEF Inv, BlockInRound, FencedIsRun
<1>9. DecisionsInRound'
  <2>1. None # 0
    BY SegAssumption
  <2> QED BY <1>2, <1>3, <1>4, <2>1 DEF DecisionsInRound
<1>10. DeferredInStep' /\ RoundServesLive'
  BY <1>1, <1>3 DEF Inv, DeferredInStep, AfterPairs, EarlyDraft, RoundServesLive, requests
<1>11. CarriesFollow'
  BY <1>1, <1>5, <1>6 DEF CarriesFollow, Follows, requests
<1>12. PendingVerified'
  BY <1>1, <1>3, <1>5, <1>6 DEF PendingVerified, requests
<1>13. DraftsKept' /\ StagedIsCurrent' /\ StagedAsNoted'
  BY <1>1 DEF Inv, DraftsKept, StagedIsCurrent, StagedAsNoted, Usable
<1> QED BY <1>7, <1>8, <1>9, <1>10, <1>11, <1>12, <1>13 DEF Inv

\* A commit that raises ends the worker.
LEMMA CommitFailsKeeps ==
    ASSUME Inv, NEW s \in Seg, CommitFails(s), UNCHANGED profile
    PROVE  Inv'
<1>1. blk \in Block /\ ret \in Retained /\ TypeOK
  BY DEF Inv, TypeOK
<1>2. /\ pc = "commit" /\ pc' = "dead" /\ snap' = snap /\ buf' = buf /\ entries' = entries /\ UNCHANGED requests
      /\ queue' = queue /\ carry' = carry /\ recs' = recs /\ draft' = draft /\ rounds' = rounds
      /\ fault' \subseteq Faults /\ ~blk.first
  BY DEF CommitFails, Fails, device, Inv, TypeOK, BlockInRound, DecisionsInRound
<1>3. /\ blk' \in Block /\ blk'.phase = "failed" /\ blk'.first = blk.first /\ blk'.deferred = <<>>
      /\ ~blk'.armed /\ ~blk'.deferring
  <2>1. blk' = [Disarmed EXCEPT !.phase = "failed"]
    BY DEF CommitFails
  <2> QED BY <1>1, <2>1, DisarmedFields DEF Block
<1>4. ret' \in Retained /\ ret'.poisoned
  BY <1>1 DEF CommitFails, Retained
<1>5. TypeOK'
  BY <1>1, <1>2, <1>3, <1>4 DEF TypeOK, requests
<1>6. BlockInRound' /\ DecisionsInRound' /\ FencedIsRun'
  BY <1>2, <1>3, <1>4 DEF BlockInRound, DecisionsInRound, FencedIsRun
<1>7. DeferredInStep' /\ RoundServesLive'
  BY <1>2, <1>3 DEF Inv, DeferredInStep, EarlyDraft, RoundServesLive, requests
<1>8. CarriesFollow' /\ PendingVerified' /\ StagedIsCurrent'
  BY <1>2 DEF CarriesFollow, PendingVerified, StagedIsCurrent
<1>9. DraftsKept' /\ StagedAsNoted'
  BY <1>2 DEF Inv, DraftsKept, StagedAsNoted, Usable
<1> QED BY <1>5, <1>6, <1>7, <1>8, <1>9 DEF Inv

\* A user's commit publishes its rows by one trace, at once, behind the queue or deferred; the
\* last commit of the round completes the decisions.
LEMMA CommitKeeps ==
    ASSUME Inv, NEW s \in Seg, CommitUser(s), UNCHANGED profile
    PROVE  Inv'
<1> DEFINE last == blk.pending = {s}
<1>0. PICK D, U \in SUBSET Seg : draft \in EarlyDrafts(D, U)
  BY DraftTyped DEF Inv
<1>1. /\ pc = "commit" /\ s \in blk.pending /\ blk.phase = "verified" /\ ~blk.first /\ ~ret.ready /\ ~ret.poisoned
      /\ blk.pending = {u \in Seg : ret.decisions[u] = None} /\ draft.failed = {} /\ blk.pending \subseteq live
      /\ \A u \in blk.pending : recs[u] = pos[u] /\ \A t \in Due : t[1] # u
      /\ draft.cache = None
  BY DEF CommitUser, Inv, BlockInRound, DecisionsInRound, RoundServesLive, PendingVerified, DraftsKept
<1>2. /\ queue \in Traces /\ carry \in [Seg -> Nat] /\ recs \in [Seg -> Nat] /\ live \subseteq Seg
      /\ profile \in Profiles /\ TypeOK /\ blk \in Block /\ blk.deferred \in Traces /\ ret \in Retained
      /\ ret.decisions \in [Seg -> (0..Rows) \cup {None}] /\ pos \in [Seg -> Nat]
  BY DEF Inv, TypeOK, Block, Retained
<1>3. AfterPairs => EarlyDraft /\ RoundFenced
  BY <1>2, FlagAssumption DEF AfterPairs, EarlyDraft, RoundFenced
<1>4. PICK prefix \in 0..Rows :
        /\ Committed(s, prefix)
        /\ ret' = RetainedCommit(ret, [ret.decisions EXCEPT ![s] = prefix], last)
        /\ LET traces == IF prefix = 0 THEN <<>> ELSE <<<<s, prefix>>>> IN
           IF blk.deferring
           THEN /\ blk' = [blk EXCEPT !.pending = @ \ {s}, !.deferred = @ \o traces,
                                      !.phase = IF last THEN "idle" ELSE @]
                /\ UNCHANGED <<queue, carry>>
           ELSE /\ blk' = [blk EXCEPT !.pending = @ \ {s}, !.phase = IF last THEN "idle" ELSE @]
                /\ IF last /\ ~RoundFenced
                   THEN carry' = RunAll(queue \o traces, carry) /\ queue' = <<>>
                   ELSE Enqueue(traces)
  BY Zenon DEF CommitUser
<1> DEFINE traces == IF prefix = 0 THEN <<>> ELSE <<<<s, prefix>>>>
           new == IF prefix = 0 THEN {} ELSE {<<s, prefix>>}
           decisions == [ret.decisions EXCEPT ![s] = prefix]
           phase == IF last THEN "idle" ELSE "verified"
<1>5. traces \in Traces /\ Elements(traces) = new /\ prefix \in Nat /\ prefix # None
  <2>1. prefix \in Nat /\ prefix # None /\ (prefix # 0 => prefix \in 1..Rows)
    BY BoundAssumption, SegAssumption
  <2>2. CASE prefix = 0
    BY <2>1, <2>2, Lists
  <2>3. CASE prefix # 0
    <3>1. traces = <<<<s, prefix>>>> /\ new = {<<s, prefix>>} /\ prefix \in 1..Rows
      BY <2>1, <2>3
    <3> HIDE DEF traces, new
    <3> QED BY <2>1, <3>1, Lists, Zenon
  <2> QED BY <2>2, <2>3
<1>6. /\ pos' \in [Seg -> Nat] /\ pos'[s] = pos[s] + prefix
      /\ \A u \in Seg : u # s => pos'[u] = pos[u]
      /\ ticket' \in [Seg -> Ticket] /\ live' = live /\ pages' = pages /\ handed' = handed
      /\ gone' \subseteq live' /\ fin' \subseteq gone'
  BY <1>1, <1>2, <1>4, CommittedMoves
<1>7. /\ entries' = entries /\ recs' = recs /\ snap' = snap /\ buf' = buf /\ rounds' = rounds /\ fault' = fault
      /\ pc' = (IF last THEN AfterRound ELSE pc) /\ draft' = (IF last THEN DraftBegins ELSE draft)
  BY DEF CommitUser
\* the decisions
<1>8. /\ decisions \in [Seg -> (0..Rows) \cup {None}]
      /\ blk.pending \ {s} = {u \in Seg : decisions[u] = None}
      /\ Decided(decisions) <=> last
  <2>1. decisions \in [Seg -> (0..Rows) \cup {None}]
    BY <1>2
  <2>2. decisions[s] = prefix /\ \A u \in Seg : u # s => decisions[u] = ret.decisions[u]
    BY <1>2
  <2> HIDE DEF decisions
  <2>3. blk.pending \ {s} = {u \in Seg : decisions[u] = None}
    BY <1>1, <1>5, <2>2
  <2>4. Decided(decisions) <=> blk.pending \ {s} = {}
    BY <2>3 DEF Decided
  <2> QED BY <1>1, <2>1, <2>3, <2>4
<1>9. /\ ret' \in Retained /\ ret'.decisions = decisions /\ ret'.poisoned = ret.poisoned
      /\ ret'.ready = (last /\ ~RoundFenced) /\ ret'.owed = (last /\ RoundFenced)
  <2>1. ret' = RetainedCommit(ret, decisions, last)
    BY <1>4
  <2> HIDE DEF decisions, last
  <2>2. last \in BOOLEAN /\ RoundFenced \in BOOLEAN
    BY <1>2, FlagAssumption DEF last, RoundFenced
  <2>3. ret' = [ret EXCEPT !.decisions = decisions, !.ready = last /\ ~RoundFenced, !.owed = last /\ RoundFenced]
    BY <1>2, <1>8, <2>1, <2>2 DEF RetainedCommit
  <2> QED BY <1>2, <1>8, <2>2, <2>3 DEF Retained
<1>10. phase \in {"idle", "verified", "failed"} /\ (phase = "idle" <=> last) /\ phase # "failed"
  OBVIOUS
\* the traces
<1>11. /\ blk' \in Block /\ blk'.phase = phase /\ blk'.pending = blk.pending \ {s} /\ blk'.first = blk.first
       /\ blk'.armed = blk.armed /\ blk'.deferring = blk.deferring
       /\ queue' \in Traces /\ carry' \in [Seg -> Nat]
       /\ Due' \subseteq Due \cup new
       /\ blk'.deferred # <<>> => AfterPairs
       /\ ret'.ready => queue' = <<>>
       /\ \A u \in Seg : \A p : Follows(u, Due \cup new, carry[u], recs[u], p)
                                   => Follows(u, Due', carry'[u], recs[u], p)
  <2>1. CASE blk.deferring
    <3> DEFINE deferred == blk.deferred \o traces
    <3>1. deferred \in Traces /\ Elements(deferred) = Elements(blk.deferred) \cup new
      BY <1>2, <1>5, Joined
    <3>2. queue' = queue /\ carry' = carry
          /\ blk' = [blk EXCEPT !.pending = blk.pending \ {s}, !.deferred = deferred, !.phase = phase]
      BY <1>1, <1>2, <1>4, <2>1 DEF Block
    <3> HIDE DEF deferred, phase
    <3>3. /\ blk' \in Block /\ blk'.phase = phase /\ blk'.pending = blk.pending \ {s} /\ blk'.first = blk.first
          /\ blk'.armed = blk.armed /\ blk'.deferring = blk.deferring /\ blk'.deferred = deferred
      BY <1>2, <1>10, <3>1, <3>2 DEF Block
    <3>4. Due' = Due \cup new
      BY <3>1, <3>2, <3>3 DEF Due
    <3>5. AfterPairs /\ ~ret'.ready
      BY <1>3, <1>9, <2>1 DEF Inv, DeferredInStep
    <3> HIDE DEF new, traces
    <3> QED BY <1>2, <3>2, <3>3, <3>4, <3>5
  <2>2. CASE ~blk.deferring
    <3>1. /\ blk' = [blk EXCEPT !.pending = blk.pending \ {s}, !.phase = phase]
          /\ Enqueue(traces) \/ (carry' = RunAll(queue \o traces, carry) /\ queue' = <<>>)
          /\ last /\ ~RoundFenced => queue' = <<>>
      BY <1>1, <1>2, <1>4, <2>2 DEF Block
    <3> HIDE DEF phase, traces
    <3>2. /\ blk' \in Block /\ blk'.phase = phase /\ blk'.pending = blk.pending \ {s} /\ blk'.first = blk.first
          /\ blk'.armed = blk.armed /\ blk'.deferring = blk.deferring /\ blk'.deferred = blk.deferred
      BY <1>2, <1>10, <3>1 DEF Block
    <3>3. /\ queue' \in Traces /\ carry' \in [Seg -> Nat]
          /\ Elements(queue') \subseteq Elements(queue) \cup new
          /\ \A u \in Seg : \A rest, p :
               Follows(u, Elements(queue) \cup new \cup rest, carry[u], recs[u], p)
                 => Follows(u, Elements(queue') \cup rest, carry'[u], recs[u], p)
      BY <1>2, <1>5, <3>1, EnqueueKeeps
    <3>4. /\ Due' = Elements(queue') \cup Elements(blk.deferred)
          /\ Due \cup new = Elements(queue) \cup new \cup Elements(blk.deferred)
      BY <3>2 DEF Due
    <3>5. blk'.deferred # <<>> => AfterPairs
      BY <3>2 DEF Inv, DeferredInStep
    <3> HIDE DEF new, last
    <3>6. \A u \in Seg : \A p : Follows(u, Due \cup new, carry[u], recs[u], p)
                                   => Follows(u, Due', carry'[u], recs[u], p)
      BY <3>3, <3>4
    <3>7. Due' \subseteq Due \cup new
      BY <3>3, <3>4
    <3> QED BY <1>9, <3>1, <3>2, <3>3, <3>5, <3>6, <3>7
  <2> QED BY <2>1, <2>2
<1>12. /\ draft' \in EarlyDrafts(D, U) /\ draft'.failed = {} /\ draft'.cache = None
       /\ last => draft'.early = EarlyDraft
       /\ draft'.early => EarlyDraft
  BY <1>0, <1>1, <1>2, <1>7, DraftBeginsTyped DEF Inv, DeferredInStep
<1>13. last => pc' \in {"draft", "take"} /\ (EarlyDraft => pc' = "draft")
  BY <1>7 DEF AfterRound
<1>14. ~last => pc' = "commit"
  BY <1>1, <1>7
<1> HIDE DEF last, new, decisions, traces
<1>15. TypeOK'
  <2>1. \E E, V \in SUBSET Seg : draft' \in EarlyDrafts(E, V)
    BY <1>12
  <2>2. pc' \in {"draft", "take", "commit"}
    BY <1>13, <1>14
  <2> QED BY <1>2, <1>6, <1>7, <1>9, <1>11, <2>1, <2>2 DEF TypeOK
<1>16. BlockInRound' /\ FencedIsRun'
  BY <1>1, <1>9, <1>10, <1>11, <1>13, <1>14 DEF BlockInRound, FencedIsRun
<1>17. DecisionsInRound'
  <2>1. profile' = profile
    OBVIOUS
  <2> QED BY <1>1, <1>8, <1>9, <1>10, <1>11, <2>1 DEF DecisionsInRound, RoundFenced
<1>18. DeferredInStep'
  BY <1>3, <1>11, <1>12, <1>13, <1>14 DEF Inv, DeferredInStep, AfterPairs, EarlyDraft
<1>19. RoundServesLive'
  BY <1>1, <1>6, <1>11, <1>12, <1>13, <1>14 DEF RoundServesLive
<1>20. CarriesFollow'
  <2> SUFFICES ASSUME NEW u \in live PROVE Follows(u, Due \cup new, carry[u], recs[u], pos'[u])
    <3>1. ASSUME NEW u \in live, Follows(u, Due \cup new, carry[u], recs[u], pos'[u])
          PROVE  Follows(u, Due', carry'[u], recs'[u], pos'[u])
      BY <1>2, <1>7, <1>11, <3>1
    <3> QED BY <1>6, <3>1 DEF CarriesFollow
  <2>1. u \in Seg /\ Follows(u, Due, carry[u], recs[u], pos[u])
    BY <1>1, <1>2 DEF Inv, CarriesFollow
  <2>2. CASE u # s
    BY <1>6, <2>1, <2>2 DEF Follows, new
  <2>3. CASE u = s
    <3>1. carry[s] = pos[s] /\ recs[s] = pos[s] /\ \A t \in Due : t[1] # s
      BY <1>1, <2>1, <2>3 DEF Follows
    <3>2. pos[s] \in Nat /\ pos'[s] = pos[s] + prefix
      BY <1>2, <1>6
    <3>3. CASE prefix = 0
      <4>1. pos'[s] = pos[s] /\ Due \cup new = Due
        BY <3>2, <3>3 DEF new
      <4> QED BY <2>1, <2>3, <4>1
    <3>4. CASE prefix # 0
      <4>1. <<s, prefix>> \in new /\ \A t \in new : t[1] = s /\ t[2] = prefix
        BY <3>4 DEF new
      <4>2. ~(\A t \in new : t[1] # s)
        BY <4>1
      <4>3. \A t \in Due \cup new : t[1] = s => recs[s] + t[2] = pos'[s]
        BY <3>1, <3>2, <4>1
      <4>4. \E t \in Due \cup new : t[1] = s
        BY <4>2
      <4> QED BY <2>3, <4>3, <4>4 DEF Follows
    <3> QED BY <3>3, <3>4
  <2> QED BY <2>2, <2>3
<1>21. PendingVerified'
  <2> SUFFICES ASSUME NEW u \in blk.pending \ {s} PROVE recs'[u] = pos'[u] /\ \A t \in Due' : t[1] # u
    BY <1>11 DEF PendingVerified
  <2>1. u \in Seg /\ \A t \in new : t[1] = s
    BY <1>1, <1>2 DEF new
  <2> QED BY <1>1, <1>6, <1>7, <1>11, <2>1
<1>22. DraftsKept' /\ StagedIsCurrent' /\ StagedAsNoted'
  BY <1>7, <1>12, <1>13, <1>14 DEF Inv, DraftsKept, StagedIsCurrent, StagedAsNoted, Usable
<1> QED BY <1>15, <1>16, <1>17, <1>18, <1>19, <1>20, <1>21, <1>22 DEF Inv

-----------------------------------------------------------------------------
(* The drafts, inside the step or when vLLM takes them *)

\* The tickets of the coming round are prepared.
LEMMA DraftKeeps ==
    ASSUME Inv, Draft, UNCHANGED profile
    PROVE  Inv'
<1>1. ticket' \in [Seg -> Ticket] /\ pc' \in {"drafted", "window", "fence"} /\ pc = "draft"
  <2>1. PICK wide \in Widths :
          LET prepared == {s \in Drafters : ticket[s] = None \/ s \in Stale(wide)} IN
          /\ ticket' = [s \in Seg |-> IF s \in prepared THEN [at |-> pos[s], wide |-> wide]
                                      ELSE IF s \in Stale(wide) THEN None ELSE ticket[s]]
          /\ pc' = IF prepared = {} THEN "drafted"
                   ELSE IF wide /\ (Prestage \/ RoundFenced) THEN "window" ELSE "fence"
    BY DEF Draft
  <2>2. wide \in BOOLEAN
    BY DEF Widths
  <2>3. ASSUME NEW s \in Seg PROVE /\ [at |-> pos[s], wide |-> wide] \in Ticket
                                   /\ None \in Ticket /\ ticket[s] \in Ticket
    BY <2>2 DEF Inv, TypeOK, Ticket
  <2> QED BY <2>1, <2>3 DEF Draft
<1>2. TypeOK'
  BY <1>1 DEF Inv, TypeOK, Draft, device
<1>3. BlockInRound' /\ DecisionsInRound' /\ FencedIsRun'
  BY <1>1 DEF Inv, BlockInRound, DecisionsInRound, Decided, RoundFenced, FencedIsRun, Draft, device
<1>4. DeferredInStep' /\ RoundServesLive'
  BY <1>1 DEF Inv, DeferredInStep, AfterPairs, EarlyDraft, RoundServesLive, Draft, device
<1>5. CarriesFollow' /\ PendingVerified'
  BY <1>1 DEF Inv, CarriesFollow, Due, PendingVerified, Draft, device
<1>6. DraftsKept' /\ StagedIsCurrent' /\ StagedAsNoted'
  BY <1>1 DEF Inv, DraftsKept, StagedIsCurrent, StagedAsNoted, Usable, Draft
<1> QED BY <1>2, <1>3, <1>4, <1>5, <1>6 DEF Inv

\* A proposal that raises is kept for the end of the step, or ends the worker.
LEMMA DraftFailsKeeps ==
    ASSUME Inv, DraftFails, UNCHANGED profile
    PROVE  Inv'
<1>0. PICK D, U \in SUBSET Seg : draft \in EarlyDrafts(D, U)
  BY DraftTyped DEF Inv
<1>1. /\ pc = "draft" /\ UNCHANGED <<live, gone, fin, pos, pages, handed, entries, blk, ret, device, snap, buf, rounds>>
      /\ draft.cache = None /\ fault' \subseteq Faults /\ fault \subseteq fault'
  BY DEF DraftFails, Fails, Inv, TypeOK, DraftsKept
<1>2. ticket' \in [Seg -> Ticket]
  BY DEF DraftFails, Inv, TypeOK, Ticket
<1>3. /\ draft' \in EarlyDrafts(D, U) /\ draft'.failed = draft.failed /\ draft'.cache = draft.cache
      /\ draft'.early = draft.early /\ (pc' = "dead" \/ (pc' = "end" /\ draft.early))
  <2>1. CASE draft.early
    <3>1. draft' = [draft EXCEPT !.failure = TRUE] /\ pc' = "end"
      BY <2>1 DEF DraftFails
    <3> QED BY <1>0, <2>1, <3>1 DEF EarlyDrafts
  <2>2. CASE ~draft.early
    BY <1>0, <2>2 DEF DraftFails
  <2> QED BY <2>1, <2>2
<1>4. TypeOK'
  <2>1. \E E, V \in SUBSET Seg : draft' \in EarlyDrafts(E, V)
    BY <1>3
  <2> QED BY <1>1, <1>2, <1>3, <2>1 DEF Inv, TypeOK, device
<1>5. BlockInRound' /\ DecisionsInRound' /\ FencedIsRun'
  BY <1>1, <1>3 DEF Inv, BlockInRound, DecisionsInRound, Decided, RoundFenced, FencedIsRun, device
<1>6. DeferredInStep' /\ RoundServesLive'
  BY <1>1, <1>3 DEF Inv, DeferredInStep, AfterPairs, EarlyDraft, RoundServesLive
<1>7. CarriesFollow'
  <2>1. Due' = Due
    BY <1>1 DEF Due, device
  <2> QED BY <1>1, <1>3, <2>1, CarriesKept DEF Inv, device
<1>8. PendingVerified' /\ DraftsKept' /\ StagedIsCurrent'
  BY <1>1, <1>3 DEF PendingVerified, DraftsKept, StagedIsCurrent
<1>9. StagedAsNoted'
  BY <1>1 DEF Inv, StagedAsNoted, Usable
<1> QED BY <1>4, <1>5, <1>6, <1>7, <1>8, <1>9 DEF Inv

\* A draft refused is the core's end.
LEMMA DraftRefusedKeeps ==
    ASSUME Inv, DraftRefused, UNCHANGED profile
    PROVE  Inv'
<1>1. TypeOK'
  BY DEF Inv, TypeOK, DraftRefused, requests, device
<1>2. BlockInRound' /\ DecisionsInRound' /\ FencedIsRun'
  BY DEF Inv, BlockInRound, DecisionsInRound, Decided, RoundFenced, FencedIsRun, DraftRefused, requests, device
<1>3. DeferredInStep' /\ RoundServesLive'
  BY DEF Inv, DeferredInStep, AfterPairs, EarlyDraft, RoundServesLive, DraftRefused, requests, device
<1>4. CarriesFollow' /\ PendingVerified'
  BY DEF Inv, CarriesFollow, Due, PendingVerified, DraftRefused, requests, device
<1>5. DraftsKept'
  BY DEF Inv, DraftsKept, EarlyDraft, DraftKey, DraftRefused, requests, device
<1>6. StagedAsNoted' /\ StagedIsCurrent'
  BY DEF Inv, StagedAsNoted, Usable, StagedIsCurrent, Inputs, DraftRefused, requests, device
<1> QED BY <1>1, <1>2, <1>3, <1>4, <1>5, <1>6 DEF Inv

\* The window takes the fence's token and may note what it has staged.
LEMMA WindowKeeps ==
    ASSUME Inv, Window \/ WindowFails, UNCHANGED profile
    PROVE  Inv'
<1>0. PICK D, U \in SUBSET Seg : draft \in EarlyDrafts(D, U)
  BY DraftTyped DEF Inv
<1>1. /\ pc = "window" /\ pc' = "fence" /\ UNCHANGED <<requests, entries, blk, ret, device, rounds>>
      /\ fault' \subseteq Faults /\ fault \subseteq fault' /\ draft' = [draft EXCEPT !.token = Token]
  BY DEF Window, WindowFails, Fails, Inv, TypeOK
<1>2. /\ draft' \in EarlyDrafts(D, U) /\ draft'.failed = draft.failed /\ draft'.cache = draft.cache
      /\ draft'.early = draft.early
  <2>1. Token \in {None, "current", "stale"}
    BY DEF Token
  <2> QED BY <1>0, <1>1, <2>1 DEF EarlyDrafts
<1>3. /\ buf' \in [Seg -> Values] /\ snap' \in [current : BOOLEAN, values : [Seg -> Values]] \cup {None}
      /\ StagedAsNoted'
  <2> DEFINE values == Inputs(Drafters)
  <2>1. values \in [Seg -> Values] /\ buf \in [Seg -> Values]
    <3>1. Drafters \in SUBSET Seg /\ TypeOK
      BY DEF Inv, TypeOK, Drafters
    <3> QED BY <3>1, InputsTyped DEF TypeOK
  <2> HIDE DEF values
  <2>2. CASE buf' = values /\ snap' = [current |-> TRUE, values |-> values]
    BY <2>1, <2>2 DEF StagedAsNoted
  <2>3. CASE buf' = buf /\ snap' = snap
    BY <2>3 DEF Inv, TypeOK, StagedAsNoted, Usable
  <2>4. CASE snap' = None /\ \E some \in SUBSET Seg : buf' = [s \in Seg |-> IF s \in some THEN values[s] ELSE buf[s]]
    BY <2>1, <2>4 DEF StagedAsNoted, Usable
  <2> QED BY <2>2, <2>3, <2>4 DEF Window, WindowFails, values
<1>4. TypeOK'
  <2>1. \E E, V \in SUBSET Seg : draft' \in EarlyDrafts(E, V)
    BY <1>2
  <2> QED BY <1>1, <1>3, <2>1 DEF Inv, TypeOK, device, requests
<1>5. BlockInRound' /\ DecisionsInRound' /\ FencedIsRun'
  BY <1>1 DEF Inv, BlockInRound, DecisionsInRound, Decided, RoundFenced, FencedIsRun, device
<1>6. DeferredInStep' /\ RoundServesLive'
  BY <1>1, <1>2 DEF Inv, DeferredInStep, AfterPairs, EarlyDraft, RoundServesLive, requests
<1>7. CarriesFollow'
  <2>1. Due' = Due
    BY <1>1 DEF Due, device
  <2> QED BY <1>1, <1>2, <2>1, CarriesKept DEF Inv, device, requests
<1>8. PendingVerified' /\ DraftsKept' /\ StagedIsCurrent'
  BY <1>1, <1>2 DEF Inv, PendingVerified, DraftsKept, StagedIsCurrent
<1> QED BY <1>3, <1>4, <1>5, <1>6, <1>7, <1>8 DEF Inv

\* The round's fence: everything enqueued has run, and an owed fence is paid.
LEMMA FenceKeeps ==
    ASSUME Inv, Fence, UNCHANGED profile
    PROVE  Inv'
<1>0. PICK D, U \in SUBSET Seg : draft \in EarlyDrafts(D, U)
  BY DraftTyped DEF Inv
<1>1. /\ pc = "fence" /\ pc' = "read" /\ carry' = RunAll(queue, carry) /\ queue' = <<>>
      /\ ret' = NoteRoundFence(ret, draft.token) /\ draft' = [draft EXCEPT !.token = None]
      /\ UNCHANGED <<requests, entries, blk, recs, snap, buf, rounds, fault>>
  BY DEF Fence, Drain
<1>2. queue \in Traces /\ carry \in [Seg -> Nat] /\ recs \in [Seg -> Nat] /\ live \subseteq Seg /\ ret \in Retained
  BY DEF Inv, TypeOK
<1>3. /\ draft' \in EarlyDrafts(D, U) /\ draft'.failed = draft.failed /\ draft'.cache = draft.cache
      /\ draft'.early = draft.early
  BY <1>0, <1>1 DEF EarlyDrafts
<1>4. /\ ret' \in Retained /\ ret'.decisions = ret.decisions /\ ret'.poisoned = ret.poisoned
      /\ ret.ready => ret'.ready
      /\ ret.owed => ret'.owed \/ ret'.ready
  BY <1>1, <1>2 DEF NoteRoundFence, Retained
<1>5. /\ carry' \in [Seg -> Nat] /\ queue' \in Traces
      /\ Due = Elements(queue) \cup Elements(blk.deferred) /\ Due' = Elements(blk.deferred)
  <2>1. Elements(queue') = {} /\ queue' \in Traces
    BY <1>1, Lists
  <2> QED BY <1>1, <1>2, <2>1, RunAllTyped DEF Due
<1>6. TypeOK'
  <2>1. \E E, V \in SUBSET Seg : draft' \in EarlyDrafts(E, V)
    BY <1>3
  <2> QED BY <1>1, <1>4, <1>5, <2>1 DEF Inv, TypeOK, requests
<1>7. BlockInRound' /\ DecisionsInRound' /\ FencedIsRun'
  BY <1>1, <1>4 DEF Inv, BlockInRound, DecisionsInRound, Decided, RoundFenced, FencedIsRun
<1>8. DeferredInStep' /\ RoundServesLive'
  BY <1>1, <1>3 DEF Inv, DeferredInStep, AfterPairs, EarlyDraft, RoundServesLive, requests
<1>9. CarriesFollow'
  <2> SUFFICES ASSUME NEW s \in live \ draft.failed PROVE Follows(s, Due', carry'[s], recs[s], pos[s])
    BY <1>1, <1>3 DEF CarriesFollow, requests
  <2>1. Follows(s, Elements(queue) \cup Due', carry[s], recs[s], pos[s]) /\ s \in Seg
    BY <1>1, <1>2, <1>5 DEF Inv, CarriesFollow
  <2> QED BY <1>1, <1>2, <2>1, RunningFollows
<1>10. PendingVerified' /\ DraftsKept' /\ StagedIsCurrent'
  BY <1>1, <1>3 DEF Inv, PendingVerified, DraftsKept, StagedIsCurrent
<1>11. StagedAsNoted'
  BY <1>1 DEF Inv, StagedAsNoted, Usable
<1> QED BY <1>6, <1>7, <1>8, <1>9, <1>10, <1>11 DEF Inv

\* The deferred commits go in behind the drafts, or the step ends with them.
LEMMA FlushedKeeps ==
    ASSUME Inv, pc \in {"read", "end"}, pc' \in {"drafted", "take"}, pc = "end" => pc' = "take", pc = "read" => pc' = "drafted",
           FlushDone, UNCHANGED <<requests, entries, recs, snap, buf, rounds>>, UNCHANGED profile
    PROVE  Inv'
<1>0. PICK D, U \in SUBSET Seg : draft \in EarlyDrafts(D, U)
  BY DraftTyped DEF Inv
<1>1. FlushEffect
  BY FlushDoes
<1>2. blk \in Block /\ profile \in Profiles /\ live \subseteq Seg
  BY DEF Inv, TypeOK
<1>3. AfterPairs => RoundFenced
  BY <1>2, FlagAssumption DEF AfterPairs, RoundFenced
<1>4. /\ blk' \in Block /\ blk'.phase = blk.phase /\ blk'.pending = blk.pending
      /\ blk'.first = blk.first /\ blk'.deferred = <<>> /\ ~blk'.armed /\ ~blk'.deferring
  BY <1>1, <1>2, DisarmedFields DEF FlushEffect
<1>5. draft' \in EarlyDrafts(D, U)
  BY <1>0, <1>1 DEF FlushEffect
<1>6. TypeOK'
  <2>1. \E E, V \in SUBSET Seg : draft' \in EarlyDrafts(E, V)
    BY <1>5
  <2> QED BY <1>1, <1>4, <2>1 DEF Inv, TypeOK, FlushEffect, requests
<1>7. BlockInRound' /\ DecisionsInRound' /\ FencedIsRun'
  BY <1>1, <1>3, <1>4 DEF Inv, BlockInRound, DecisionsInRound, Decided, RoundFenced, FencedIsRun, DeferredInStep,
     AfterPairs, FlushEffect
<1>8. DeferredInStep' /\ RoundServesLive'
  BY <1>1, <1>4 DEF Inv, DeferredInStep, EarlyDraft, RoundServesLive, FlushEffect, requests
<1>9. CarriesFollow'
  <2> SUFFICES ASSUME NEW s \in live \ draft.failed PROVE Follows(s, Due', carry'[s], recs[s], pos[s])
    BY <1>1 DEF CarriesFollow, FlushEffect, requests
  <2>1. s \in Seg /\ Follows(s, Due, carry[s], recs[s], pos[s])
    BY <1>2 DEF Inv, CarriesFollow
  <2> QED BY <1>1, <2>1 DEF FlushEffect
<1>10. PendingVerified' /\ StagedIsCurrent'
  BY DEF PendingVerified, StagedIsCurrent
<1>11. DraftsKept'
  <2>1. DraftKey' = DraftKey
    BY <1>1 DEF DraftKey, FlushEffect, requests
  <2> QED BY <1>1, <2>1 DEF Inv, DraftsKept, EarlyDraft, FlushEffect
<1>12. StagedAsNoted'
  BY DEF Inv, StagedAsNoted, Usable
<1> QED BY <1>6, <1>7, <1>8, <1>9, <1>10, <1>11, <1>12 DEF Inv

\* The pairs are read back, and deferred commits go in behind them.
LEMMA ReadBackKeeps ==
    ASSUME Inv, ReadBack, UNCHANGED profile
    PROVE  Inv'
<1>1. pc = "read" /\ pc' = "drafted" /\ UNCHANGED <<requests, entries, recs, snap, buf, rounds>>
  BY DEF ReadBack
<1>2. CASE FlushDone
  BY <1>1, <1>2, FlushedKeeps
<1>3. CASE UNCHANGED <<blk, ret, queue, carry, draft, fault>>
  <2>1. TypeOK' /\ BlockInRound' /\ DecisionsInRound' /\ FencedIsRun'
    BY <1>1, <1>3 DEF Inv, TypeOK, BlockInRound, DecisionsInRound, Decided, RoundFenced, FencedIsRun, requests
  <2>2. DeferredInStep' /\ RoundServesLive' /\ CarriesFollow' /\ PendingVerified'
    BY <1>1, <1>3 DEF Inv, DeferredInStep, AfterPairs, EarlyDraft, RoundServesLive, CarriesFollow, Due,
       PendingVerified, requests
  <2>3. DraftsKept' /\ StagedIsCurrent' /\ StagedAsNoted'
    BY <1>1, <1>3 DEF Inv, DraftsKept, StagedIsCurrent, StagedAsNoted, Usable
  <2> QED BY <2>1, <2>2, <2>3 DEF Inv
<1> QED BY <1>2, <1>3 DEF ReadBack

\* A flush that raises fails every bridge: none of them is served again.
LEMMA FlushFailsKeeps ==
    ASSUME Inv, ReadBackFails \/ EarlyEndFails, UNCHANGED profile
    PROVE  Inv'
<1>0. PICK D, U \in SUBSET Seg : draft \in EarlyDrafts(D, U)
  BY DraftTyped DEF Inv
<1>1. /\ blk' \in Block /\ blk'.phase = "failed" /\ blk'.first = blk.first
      /\ blk'.deferred = <<>> /\ ~blk'.armed /\ ~blk'.deferring
      /\ ret' \in Retained /\ ret'.poisoned /\ ~blk.first
      /\ queue' \in Traces /\ carry' \in [Seg -> Nat]
      /\ fault' = fault \cup {"flush"} /\ fault' \subseteq Faults
  BY FlushFails DEF ReadBackFails, EarlyEndFails
<1>2. /\ UNCHANGED <<requests, entries, recs, snap, buf, rounds>> /\ pc \in {"read", "end"}
      /\ pc' = "dead" \/ (pc = "read" /\ pc' = "end")
  BY DEF ReadBackFails, EarlyEndFails
<1>3. /\ draft' \in EarlyDrafts(D, U) /\ draft'.failed = live /\ draft'.early = draft.early
      /\ draft'.cache = draft.cache
  BY <1>0 DEF ReadBackFails, EarlyEndFails, EarlyDrafts, Inv, TypeOK
<1>4. TypeOK'
  <2>1. \E E, V \in SUBSET Seg : draft' \in EarlyDrafts(E, V)
    BY <1>3
  <2> QED BY <1>1, <1>2, <2>1 DEF Inv, TypeOK, requests
<1>5. BlockInRound' /\ DecisionsInRound' /\ FencedIsRun'
  BY <1>1, <1>2 DEF BlockInRound, DecisionsInRound, FencedIsRun
<1>6. DeferredInStep' /\ RoundServesLive'
  BY <1>1, <1>2, <1>3 DEF Inv, DeferredInStep, EarlyDraft, RoundServesLive, requests
<1>7. CarriesFollow' /\ PendingVerified' /\ StagedIsCurrent'
  BY <1>2, <1>3 DEF CarriesFollow, PendingVerified, StagedIsCurrent, requests
<1>8. DraftsKept' /\ StagedAsNoted'
  BY <1>2, <1>3 DEF Inv, DraftsKept, EarlyDraft, StagedAsNoted, Usable
<1> QED BY <1>4, <1>5, <1>6, <1>7, <1>8 DEF Inv

\* The drafts are cached with what they were made from, or handed over.
LEMMA DraftedKeeps ==
    ASSUME Inv, Drafted, UNCHANGED profile
    PROVE  Inv'
<1>0. PICK D, U \in SUBSET Seg : draft \in EarlyDrafts(D, U)
  BY DraftTyped DEF Inv
<1>1. /\ pc = "drafted" /\ UNCHANGED <<live, gone, fin, pos, pages, ticket, entries, blk, ret, device, snap, buf, rounds, fault>>
      /\ live \subseteq Seg /\ ticket \in [Seg -> Ticket] /\ pos \in [Seg -> Nat] /\ draft.cache = None
  BY DEF Drafted, Inv, TypeOK, DraftsKept
<1>2. handed' \in [Seg -> Ticket]
  BY <1>1 DEF Drafted, Inv, TypeOK, Ticket
<1>3. /\ \E E, V \in SUBSET Seg : draft' \in EarlyDrafts(E, V)
      /\ draft'.failed = draft.failed /\ draft'.early = draft.early
      /\ \/ pc' = "end" /\ draft.early /\ draft'.key = DraftKey
         \/ pc' = "between" /\ ~draft.early /\ draft'.cache = None
  <2>1. CASE draft.early
    <3> DEFINE cache == [s \in Drafters |-> ticket[s]]
    <3>1. Drafters \in SUBSET Seg /\ cache \in [Drafters -> Ticket]
      BY <1>1 DEF Drafters
    <3>2. DraftKey \in [live -> BOOLEAN \X Ticket \X Nat \X BOOLEAN]
      <4>1. ASSUME NEW s \in live
            PROVE  <<s \in draft.failed, ticket[s], pos[s], s \in fin>> \in BOOLEAN \X Ticket \X Nat \X BOOLEAN
        <5>1. (s \in draft.failed) \in BOOLEAN /\ (s \in fin) \in BOOLEAN
          OBVIOUS
        <5>2. ticket[s] \in Ticket /\ pos[s] \in Nat
          BY <1>1
        <5> HIDE DEF Ticket
        <5> QED BY <5>1, <5>2
      <4> QED BY <4>1 DEF DraftKey
    <3> HIDE DEF cache
    <3>3. draft' = [draft EXCEPT !.cache = cache, !.key = DraftKey] /\ pc' = "end"
      BY <2>1 DEF Drafted, cache
    <3>4. draft' \in EarlyDrafts(Drafters, live)
      BY <1>0, <3>1, <3>2, <3>3 DEF EarlyDrafts
    <3>5. draft'.failed = draft.failed /\ draft'.early = draft.early /\ draft'.key = DraftKey
      BY <1>0, <3>3 DEF EarlyDrafts
    <3> QED BY <1>1, <2>1, <3>1, <3>3, <3>4, <3>5
  <2>2. CASE ~draft.early
    BY <1>0, <1>1, <2>2 DEF Drafted
  <2> QED BY <2>1, <2>2
<1>4. TypeOK'
  BY <1>1, <1>2, <1>3 DEF Inv, TypeOK, device
<1>5. BlockInRound' /\ DecisionsInRound' /\ FencedIsRun'
  BY <1>1, <1>3 DEF Inv, BlockInRound, DecisionsInRound, Decided, RoundFenced, FencedIsRun, device
<1>6. DeferredInStep' /\ RoundServesLive'
  BY <1>1, <1>3 DEF Inv, DeferredInStep, AfterPairs, EarlyDraft, RoundServesLive
<1>7. CarriesFollow'
  <2>1. Due' = Due
    BY <1>1 DEF Due, device
  <2> QED BY <1>1, <1>3, <2>1, CarriesKept DEF Inv, device
<1>8. PendingVerified' /\ StagedIsCurrent'
  BY <1>1, <1>3 DEF PendingVerified, StagedIsCurrent
<1>9. DraftsKept'
  <2>1. DraftKey' = DraftKey
    BY <1>1, <1>3 DEF DraftKey
  <2> QED BY <1>3, <2>1 DEF Inv, DeferredInStep, DraftsKept, EarlyDraft
<1>10. StagedAsNoted'
  BY <1>1 DEF Inv, StagedAsNoted, Usable
<1> QED BY <1>4, <1>5, <1>6, <1>7, <1>8, <1>9, <1>10 DEF Inv

\* vLLM takes the drafts that still hold, or has new ones made.
LEMMA TakeKeeps ==
    ASSUME Inv, Take, UNCHANGED profile
    PROVE  Inv'
<1>0. PICK D, U \in SUBSET Seg : draft \in EarlyDrafts(D, U)
  BY DraftTyped DEF Inv
<1>1. /\ draft' \in EarlyDrafts(D, U) /\ draft'.failed = draft.failed /\ draft'.cache = None /\ ~draft'.early
  BY <1>0 DEF Take, EarlyDrafts
<1>2. /\ pc = "take" /\ pc' \in {"dead", "between", "draft"}
      /\ UNCHANGED <<live, gone, fin, pos, pages, entries, blk, ret, device, snap, buf, rounds, fault>>
  BY DEF Take
<1>3. ticket' \in [Seg -> Ticket]
  BY DEF Inv, TypeOK, Take, Ticket
<1>4. handed' \in [Seg -> Ticket]
  <2>1. draft.cache # None => draft.cache \in [D -> Ticket]
    BY <1>0 DEF EarlyDrafts
  <2>2. draft.cache # None => \A s \in DOMAIN draft.cache : draft.cache[s] \in Ticket
    BY <2>1
  <2> QED BY <2>2 DEF Inv, TypeOK, Take, Ticket
<1>5. TypeOK'
  <2>1. \E E, V \in SUBSET Seg : draft' \in EarlyDrafts(E, V)
    BY <1>1
  <2> QED BY <1>2, <1>3, <1>4, <2>1 DEF Inv, TypeOK, device
<1>6. BlockInRound' /\ DecisionsInRound' /\ FencedIsRun'
  BY <1>2 DEF Inv, BlockInRound, DecisionsInRound, Decided, RoundFenced, FencedIsRun, device
<1>7. DeferredInStep' /\ RoundServesLive'
  BY <1>1, <1>2 DEF Inv, DeferredInStep, AfterPairs, EarlyDraft, RoundServesLive
<1>8. CarriesFollow'
  <2>1. Due' = Due
    BY <1>2 DEF Due, device
  <2> QED BY <1>1, <1>2, <2>1, CarriesKept DEF Inv, device
<1>9. PendingVerified' /\ StagedIsCurrent' /\ DraftsKept'
  BY <1>1, <1>2 DEF PendingVerified, StagedIsCurrent, DraftsKept
<1>10. StagedAsNoted'
  BY <1>2 DEF Inv, StagedAsNoted, Usable
<1> QED BY <1>5, <1>6, <1>7, <1>8, <1>9, <1>10 DEF Inv

\* The drafts stay where they are.
LEMMA NotTakenKeeps ==
    ASSUME Inv, NotTaken, UNCHANGED profile
    PROVE  Inv'
<1>1. TypeOK'
  BY DEF Inv, TypeOK, NotTaken, requests, device
<1>2. BlockInRound' /\ DecisionsInRound' /\ FencedIsRun'
  BY DEF Inv, BlockInRound, DecisionsInRound, Decided, RoundFenced, FencedIsRun, NotTaken, requests, device
<1>3. DeferredInStep' /\ RoundServesLive'
  BY DEF Inv, DeferredInStep, AfterPairs, EarlyDraft, RoundServesLive, NotTaken, requests, device
<1>4. CarriesFollow' /\ PendingVerified'
  BY DEF Inv, CarriesFollow, Due, PendingVerified, NotTaken, requests, device
<1>5. DraftsKept'
  BY DEF Inv, DraftsKept, EarlyDraft, DraftKey, NotTaken, requests, device
<1>6. StagedAsNoted' /\ StagedIsCurrent'
  BY DEF Inv, StagedAsNoted, Usable, StagedIsCurrent, Inputs, NotTaken, requests, device
<1> QED BY <1>1, <1>2, <1>3, <1>4, <1>5, <1>6 DEF Inv

\* A dead engine core does nothing.
LEMMA StoppedKeeps ==
    ASSUME Inv, Stopped, UNCHANGED profile
    PROVE  Inv'
<1>1. TypeOK'
  BY DEF Inv, TypeOK, Stopped, requests, device
<1>2. BlockInRound' /\ DecisionsInRound' /\ FencedIsRun'
  BY DEF Inv, BlockInRound, DecisionsInRound, Decided, RoundFenced, FencedIsRun, Stopped, requests, device
<1>3. DeferredInStep' /\ RoundServesLive'
  BY DEF Inv, DeferredInStep, AfterPairs, EarlyDraft, RoundServesLive, Stopped, requests, device
<1>4. CarriesFollow' /\ PendingVerified'
  BY DEF Inv, CarriesFollow, Due, PendingVerified, Stopped, requests, device
<1>5. DraftsKept'
  BY DEF Inv, DraftsKept, EarlyDraft, DraftKey, Stopped, requests, device
<1>6. StagedAsNoted' /\ StagedIsCurrent'
  BY DEF Inv, StagedAsNoted, Usable, StagedIsCurrent, Inputs, Stopped, requests, device
<1> QED BY <1>1, <1>2, <1>3, <1>4, <1>5, <1>6 DEF Inv

-----------------------------------------------------------------------------
(* The invariant *)

\* At start-up there is no trace, no user and no draft.
LEMMA InitKeeps == Init => Inv
<1> SUFFICES ASSUME Init PROVE Inv
  OBVIOUS
<1>1. /\ queue = <<>> /\ live = {} /\ fin = {} /\ gone = {} /\ entries = {} /\ pc = "between"
      /\ blk.phase = "idle" /\ blk.first /\ blk.deferred = <<>> /\ ~blk.armed /\ ~blk.deferring
      /\ ~ret.ready /\ ~ret.poisoned /\ ~draft.early /\ draft.failed = {} /\ draft.cache = None
      /\ snap = None
  BY DEF Init
<1>2. <<>> \in Traces
  BY Lists
<1>3. blk \in Block /\ ret \in Retained
  BY <1>2 DEF Init, Block, Retained
<1>4. \E D, U \in SUBSET Seg : draft \in EarlyDrafts(D, U)
  <2>1. draft \in EarlyDrafts({}, {})
    BY DEF Init, EarlyDrafts
  <2> QED BY <2>1
<1>5. TypeOK
  <2>1. buf \in [Seg -> Values]
    BY DEF Init, Values
  <2>2. ticket \in [Seg -> Ticket] /\ handed \in [Seg -> Ticket]
    BY DEF Init, Ticket
  <2>3. rounds \in 0..MaxRounds /\ fault \subseteq Faults /\ profile \in Profiles
    BY BoundAssumption DEF Init
  <2>4. pos \in [Seg -> Nat] /\ pages \in [Seg -> {0, 1}] /\ carry \in [Seg -> Nat] /\ recs \in [Seg -> Nat]
    BY DEF Init
  <2> QED BY <1>1, <1>2, <1>3, <1>4, <2>1, <2>2, <2>3, <2>4 DEF TypeOK
<1>6. BlockInRound /\ DecisionsInRound /\ FencedIsRun /\ DeferredInStep /\ RoundServesLive
  BY <1>1 DEF BlockInRound, DecisionsInRound, FencedIsRun, DeferredInStep, RoundServesLive
<1>7. CarriesFollow /\ PendingVerified /\ DraftsKept /\ StagedAsNoted /\ StagedIsCurrent
  BY <1>1 DEF CarriesFollow, PendingVerified, DraftsKept, StagedAsNoted, Usable, StagedIsCurrent
<1> QED BY <1>5, <1>6, <1>7 DEF Inv

\* The end of the early draft flushes what is still deferred.
LEMMA EarlyEndsKeeps ==
    ASSUME Inv, EarlyEnds, UNCHANGED profile
    PROVE  Inv'
BY FlushedKeeps DEF EarlyEnds

\* Nothing moves in a stuttering step.
LEMMA StutterKeeps ==
    ASSUME Inv, UNCHANGED vars
    PROVE  Inv'
<1>1. TypeOK'
  BY DEF Inv, TypeOK, vars
<1>2. BlockInRound' /\ DecisionsInRound' /\ FencedIsRun'
  BY DEF Inv, BlockInRound, DecisionsInRound, Decided, RoundFenced, FencedIsRun, vars
<1>3. DeferredInStep' /\ RoundServesLive'
  BY DEF Inv, DeferredInStep, AfterPairs, EarlyDraft, RoundServesLive, vars
<1>4. CarriesFollow' /\ PendingVerified'
  BY DEF Inv, CarriesFollow, Due, PendingVerified, vars
<1>5. DraftsKept'
  BY DEF Inv, DraftsKept, EarlyDraft, DraftKey, vars
<1>6. StagedAsNoted' /\ StagedIsCurrent'
  BY DEF Inv, StagedAsNoted, Usable, StagedIsCurrent, Inputs, vars
<1> QED BY <1>1, <1>2, <1>3, <1>4, <1>5, <1>6 DEF Inv

\* Every step keeps the invariant.
LEMMA StepKeeps == Inv /\ [Next]_vars => Inv'
<1> SUFFICES ASSUME Inv, [Next]_vars PROVE Inv'
  OBVIOUS
<1>1. CASE UNCHANGED vars
  BY <1>1, StutterKeeps
<1>2. CASE Next
  <2>1. UNCHANGED profile /\ Step
    BY <1>2 DEF Next
  <2>2. CASE DeviceRuns \/ StepBegins \/ PrefillStep \/ BookkeepingStep \/ DecodeStep
    BY <2>1, <2>2, DeviceKeeps, StepBeginsKeeps, PrefillKeeps, BookkeepingKeeps, DecodeKeeps
  <2>3. CASE \E s \in Seg : Abort(s) \/ Detach(s) \/ SequentialUser(s) \/ CommitUser(s) \/ CommitFails(s)
    BY <2>1, <2>3, AbortKeeps, DetachKeeps, SequentialKeeps, CommitKeeps, CommitFailsKeeps
  <2>4. CASE VerifyStages \/ StagingFails \/ FencedAtReplay \/ Replay
    BY <2>1, <2>4, VerifyStagesKeeps, StagingFailsKeeps, FencedAtReplayKeeps, ReplayKeeps
  <2>5. CASE Draft \/ DraftFails \/ DraftRefused \/ Window \/ WindowFails \/ Fence
    BY <2>1, <2>5, DraftKeeps, DraftFailsKeeps, DraftRefusedKeeps, WindowKeeps, FenceKeeps
  <2>6. CASE ReadBack \/ ReadBackFails \/ Drafted \/ EarlyEnds \/ EarlyEndFails \/ Take \/ NotTaken
             \/ Stopped
    BY <2>1, <2>6, ReadBackKeeps, FlushFailsKeeps, DraftedKeeps, EarlyEndsKeeps, TakeKeeps,
       NotTakenKeeps, StoppedKeeps
  <2> QED BY <2>1, <2>2, <2>3, <2>4, <2>5, <2>6 DEF Step
<1> QED BY <1>1, <1>2

\* The inductive invariant holds of every behaviour of a worker's rounds.
THEOREM Invariant == Spec => []Inv
<1>1. Init => Inv
  BY InitKeeps
<1>2. Inv /\ [Next]_vars => Inv'
  BY StepKeeps
<1> QED BY <1>1, <1>2, PTL DEF Spec

-----------------------------------------------------------------------------
(* What it gives *)

\* Every variable of the rounds keeps its type.
THEOREM TypeCorrect == Spec => []TypeOK
<1>1. Inv => TypeOK
  BY DEF Inv
<1> QED BY <1>1, Invariant, PTL

\* Every reader of a carry comes when its trace has run.
LEMMA CarriesCommitted == Inv => ReadersFindCommitted
<1> SUFFICES ASSUME Inv PROVE ReadersFindCommitted
  OBVIOUS
<1>1. blk.phase = "verified" => \A s \in blk.pending : recs[s] = pos[s]
  BY DEF Inv, BlockInRound, PendingVerified
<1>2. ASSUME pc = "sequential", NEW s \in entries PROVE RunAll(queue, carry)[s] = pos[s]
  <2>1. s \in live /\ s \in Seg /\ s \notin draft.failed
    BY <1>2 DEF Inv, RoundServesLive, TypeOK
  <2>2. blk.deferred = <<>> /\ queue \in Traces /\ carry \in [Seg -> Nat]
    BY <1>2 DEF Inv, DeferredInStep, TypeOK
  <2>3. Due = Elements(queue)
    BY <2>2, Lists DEF Due
  <2>4. Follows(s, Elements(queue), carry[s], recs[s], pos[s])
    BY <1>2, <2>1, <2>3 DEF Inv, CarriesFollow
  <2> QED BY <2>1, <2>2, <2>4, AllRun
<1> QED BY <1>1, <1>2 DEF ReadersFindCommitted

\* Whoever reads a carry next, the verify trace of a packed round or a user's own engine, reads
\* the state of exactly the committed tokens, wherever its commit trace was enqueued.
THEOREM CarriesAreCommitted == Spec => []ReadersFindCommitted
BY Invariant, CarriesCommitted, PTL

\* A block that has not failed is ready, or owed its fence.
LEMMA RoundsServed == Inv => RoundCanRun
<1> SUFFICES ASSUME Inv PROVE RoundCanRun
  OBVIOUS
<1>1. ret.decisions \in [Seg -> (0..Rows) \cup {None}] /\ blk.phase \in {"idle", "verified", "failed"}
  BY DEF Inv, TypeOK, Retained, Block
<1>2. pc = "verify" => blk.phase = "idle" \/ "flush" \in fault
  BY <1>1 DEF Inv, BlockInRound
<1>3. ASSUME pc = "staged" PROVE MayReplay \/ FenceIsOwed
  <2>1. blk.phase = "idle" /\ ~ret.poisoned
    BY <1>3 DEF Inv, BlockInRound
  <2>2. blk.first \/ (Decided(ret.decisions) /\ (ret.ready \/ (RoundFenced /\ ret.owed)))
    BY <2>1 DEF Inv, DecisionsInRound
  <2> QED BY <2>1, <2>2 DEF MayReplay, FenceIsOwed
<1> QED BY <1>2, <1>3 DEF RoundCanRun

\* A round whose device work has not failed finds its block idle and its replay armed, or owed
\* the very fence that arms it: verify() and replay() refuse a failed block only.
THEOREM RoundsAreServed == Spec => []RoundCanRun
BY Invariant, RoundsServed, PTL

\* Between the early draft and take_draft_token_ids nothing the drafts were decided from moves.
THEOREM DraftsHold == Spec => []EarlyDraftsHold
<1>1. Inv => EarlyDraftsHold
  BY DEF Inv, DraftsKept, EarlyDraftsHold
<1> QED BY <1>1, Invariant, PTL

\* A replay finds every commit trace of the round before it enqueued, run and waited for.
THEOREM ReplaysAreFenced == Spec => ReplayIsFenced
<1>1. Inv /\ [Next]_vars => [Replay => queue = <<>> /\ blk.deferred = <<>>]_vars
  <2> SUFFICES ASSUME Inv, Replay PROVE queue = <<>> /\ blk.deferred = <<>>
    OBVIOUS
  <2>1. pc = "staged" /\ MayReplay
    BY DEF Replay
  <2>2. blk.deferred = <<>> /\ ~ret.poisoned
    BY <2>1 DEF Inv, DeferredInStep, BlockInRound
  <2> QED BY <2>1, <2>2 DEF Inv, MayReplay, FencedIsRun
<1> QED BY <1>1, Invariant, PTL DEF Spec, ReplayIsFenced

\* The verify trace finds its own round's values in every input buffer, whatever was staged
\* early, half staged or overwritten since.
THEOREM InputsAreCurrent == Spec => []StagedIsCurrent
<1>1. Inv => StagedIsCurrent
  BY DEF Inv
<1> QED BY <1>1, Invariant, PTL

-----------------------------------------------------------------------------
(* One commit in flight *)

\* No two traces of a list are of one user.
Distinct(q) == \A i, j \in DOMAIN q : q[i][1] = q[j][1] => i = j

\* No user has two commits in flight, enqueued or deferred.
OneTraceEach ==
    /\ Distinct(queue) /\ Distinct(blk.deferred)
    /\ \A t \in Elements(queue), u \in Elements(blk.deferred) : t[1] # u[1]

\* Traces of other users may be put behind a list.
LEMMA DistinctJoined ==
    ASSUME NEW q \in Traces, NEW d \in Traces, Distinct(q), Distinct(d),
           \A t \in Elements(q), u \in Elements(d) : t[1] # u[1]
    PROVE  Distinct(q \o d)
<1> DEFINE S == Seg \X (1..Rows)
           e == q \o d
<1>1. q \in Seq(S) /\ d \in Seq(S)
  BY DEF Traces
<1>2. /\ e \in Seq(S) /\ Len(e) = Len(q) + Len(d)
      /\ \A i \in 1..(Len(q) + Len(d)) : e[i] = IF i <= Len(q) THEN q[i] ELSE d[i - Len(q)]
  <2> HIDE DEF S
  <2> QED BY <1>1, ConcatProperties
<1>3. /\ Len(q) \in Nat /\ Len(d) \in Nat
      /\ DOMAIN q = 1..Len(q) /\ DOMAIN d = 1..Len(d) /\ DOMAIN e = 1..(Len(q) + Len(d))
  BY <1>1, <1>2, LenProperties
<1> HIDE DEF e
<1>4. ASSUME NEW i \in DOMAIN e
      PROVE  \/ i <= Len(q) /\ i \in DOMAIN q /\ e[i] = q[i]
             \/ ~(i <= Len(q)) /\ i - Len(q) \in DOMAIN d /\ e[i] = d[i - Len(q)]
  <2>1. i \in 1..(Len(q) + Len(d))
    BY <1>3
  <2>2. CASE i <= Len(q)
    <3>1. i \in 1..Len(q)
      BY <1>3, <2>1, <2>2
    <3> QED BY <1>2, <1>3, <2>1, <2>2, <3>1
  <2>3. CASE ~(i <= Len(q))
    <3>1. i - Len(q) \in 1..Len(d)
      <4>1. Len(q) \in Nat /\ Len(d) \in Nat
        BY <1>3
      <4> QED BY <2>1, <2>3, <4>1
    <3> QED BY <1>2, <1>3, <2>1, <2>3, <3>1
  <2> QED BY <2>2, <2>3
<1>5. ASSUME NEW i \in DOMAIN e, NEW j \in DOMAIN e, e[i][1] = e[j][1] PROVE i = j
  <2>0. i \in Int /\ j \in Int /\ Len(q) \in Int
    BY <1>3
  <2>1. CASE i <= Len(q) /\ j <= Len(q)
    BY <1>4, <1>5, <2>1 DEF Distinct
  <2>2. CASE ~(i <= Len(q)) /\ ~(j <= Len(q))
    <3>1. i - Len(q) = j - Len(q)
      BY <1>4, <1>5, <2>2 DEF Distinct
    <3> QED BY <2>0, <3>1
  <2>3. CASE i <= Len(q) /\ ~(j <= Len(q))
    BY <1>4, <1>5, <2>3 DEF Elements
  <2>4. CASE ~(i <= Len(q)) /\ j <= Len(q)
    BY <1>4, <1>5, <2>4 DEF Elements
  <2> QED BY <2>1, <2>2, <2>3, <2>4
<1> QED BY <1>5 DEF Distinct, e

\* Nor do the front or the rest of a list repeat a user; an empty list and one trace do not.
LEMMA DistinctParts ==
    ASSUME NEW q \in Traces, Distinct(q)
    PROVE  /\ q # <<>> => Distinct(Tail(q))
           /\ \A n \in 0..Len(q) : /\ Distinct(SubSeq(q, 1, n)) /\ SubSeq(q, 1, n) \in Traces
                                   /\ Elements(SubSeq(q, 1, n)) \subseteq Elements(q)
<1>1. q \in Seq(Seg \X (1..Rows)) /\ Len(q) \in Nat /\ DOMAIN q = 1..Len(q)
  BY LenProperties DEF Traces
<1> DEFINE S == Seg \X (1..Rows)
<1>2. q \in Seq(S) /\ \A i \in 1..Len(q) : q[i] \in S
  <2> HIDE DEF S
  <2>1. q \in Seq(S)
    BY <1>1 DEF S
  <2> QED BY <2>1, ElementOfSeq
<1>3. ASSUME q # <<>> PROVE Distinct(Tail(q))
  <2> DEFINE d == Tail(q)
  <2>1. d \in Seq(S) /\ Len(d) = Len(q) - 1 /\ \A i \in 1..Len(d) : d[i] = q[i + 1]
    <3> HIDE DEF S
    <3> QED BY <1>2, <1>3, HeadTailProperties
  <2>2. DOMAIN d = 1..Len(d)
    BY <2>1, LenProperties
  <2> HIDE DEF d
  <2>3. ASSUME NEW i \in DOMAIN d PROVE i \in Int /\ i + 1 \in DOMAIN q /\ d[i] = q[i + 1]
    <3>1. i \in 1..Len(d) /\ Len(d) = Len(q) - 1 /\ Len(q) \in Nat
      BY <1>1, <2>1, <2>2
    <3>2. i \in Int /\ i + 1 \in 1..Len(q)
      BY <3>1
    <3> QED BY <1>1, <2>1, <3>1, <3>2
  <2>4. ASSUME NEW i \in DOMAIN d, NEW j \in DOMAIN d, d[i][1] = d[j][1] PROVE i = j
    <3>1. i + 1 = j + 1 /\ i \in Int /\ j \in Int
      BY <2>3, <2>4 DEF Distinct
    <3> QED BY <3>1
  <2> QED BY <2>4 DEF Distinct, d
<1>4. ASSUME NEW n \in 0..Len(q)
      PROVE  /\ Distinct(SubSeq(q, 1, n)) /\ SubSeq(q, 1, n) \in Traces
             /\ Elements(SubSeq(q, 1, n)) \subseteq Elements(q)
  <2> DEFINE d == SubSeq(q, 1, n)
  <2>0. n \in Nat /\ n <= Len(q) /\ 1..n \subseteq DOMAIN q /\ 1 \in Int /\ n \in Int
    BY <1>1
  <2>1. \A i \in 1..n : q[i] \in S
    BY <1>1, <1>2, <2>0
  <2>2. d \in Seq(S) /\ DOMAIN d = 1..n /\ \A i \in 1..n : d[i] = q[i]
    <3> HIDE DEF S
    <3>1. /\ d \in Seq(S) /\ Len(d) = IF 1 <= n THEN n - 1 + 1 ELSE 0
          /\ \A i \in 1..(n - 1 + 1) : d[i] = q[1 + i - 1]
      BY <1>2, <2>0, <2>1, SubSeqProperties
    <3>2. Len(d) = n /\ \A i \in 1..n : d[i] = q[i]
      <4> HIDE DEF d
      <4>1. n - 1 + 1 = n /\ (\A i \in 1..n : 1 + i - 1 = i) /\ (~(1 <= n) => n = 0)
        BY <2>0
      <4> QED BY <3>1, <4>1
    <3> QED BY <3>1, <3>2, LenProperties
  <2> HIDE DEF d
  <2>3. Distinct(d) /\ Elements(d) \subseteq Elements(q)
    BY <2>0, <2>2 DEF Distinct, Elements
  <2> QED BY <2>2, <2>3 DEF d, Traces
<1> QED BY <1>3, <1>4

\* A step that adds no trace keeps them one each.
LEMMA QuietStep ==
    ASSUME OneTraceEach, queue' \in {queue, <<>>}, blk'.deferred \in {blk.deferred, <<>>}
    PROVE  OneTraceEach'
<1>1. Distinct(<<>>) /\ Elements(<<>>) = {}
  BY Lists DEF Distinct
<1> QED BY <1>1 DEF OneTraceEach

\* Enqueued traces are behind the queue or have run.
LEMMA EnqueuedDistinct ==
    ASSUME Inv, NEW d \in Traces, Distinct(queue), Distinct(d), Enqueue(d),
           \A t \in Elements(queue), u \in Elements(d) : t[1] # u[1]
    PROVE  Distinct(queue')
<1>1. queue \in Traces /\ Distinct(<<>>)
  BY DEF Inv, TypeOK, Distinct
<1> QED BY <1>1, DistinctJoined DEF Enqueue

\* Deferred traces that are flushed, all or some, were the only ones of their users.
LEMMA FlushedDistinct ==
    ASSUME Inv, OneTraceEach, FlushDone \/ FlushFailed
    PROVE  OneTraceEach'
<1>1. blk \in Block /\ blk.deferred \in Traces /\ queue \in Traces
  BY DEF Inv, TypeOK, Block
<1>2. blk'.deferred = <<>>
  BY <1>1, DisarmedFields, FlushFails DEF FlushDone, FlushFailed
<1>3. Distinct(queue')
  <2>1. CASE FlushDone
    BY <1>1, <2>1, EnqueuedDistinct DEF FlushDone, OneTraceEach
  <2>2. CASE FlushFailed
    <3>1. PICK n \in 0..(Len(blk.deferred) - 1) : Enqueue(SubSeq(blk.deferred, 1, n))
      BY <2>2 DEF FlushFailed
    <3>2. n \in 0..Len(blk.deferred)
      <4>1. Len(blk.deferred) \in Nat
        BY <1>1, LenProperties DEF Traces
      <4> QED BY <4>1
    <3>3. /\ Distinct(SubSeq(blk.deferred, 1, n)) /\ SubSeq(blk.deferred, 1, n) \in Traces
          /\ Elements(SubSeq(blk.deferred, 1, n)) \subseteq Elements(blk.deferred)
      BY <1>1, <3>2, DistinctParts DEF OneTraceEach
    <3> QED BY <3>1, <3>3, EnqueuedDistinct DEF OneTraceEach
  <2> QED BY <2>1, <2>2
<1> QED BY <1>2, <1>3, Lists DEF OneTraceEach, Distinct

\* The segment committed had no trace in flight.
LEMMA CommitDistinct ==
    ASSUME Inv, OneTraceEach, NEW s \in Seg, CommitUser(s)
    PROVE  OneTraceEach'
<1>1. /\ blk \in Block /\ blk.deferred \in Traces /\ queue \in Traces
      /\ \A t \in Elements(queue) \cup Elements(blk.deferred) : t[1] # s
  BY DEF Inv, TypeOK, Block, CommitUser, PendingVerified, Due
<1>2. PICK prefix \in 0..Rows :
        LET last == blk.pending = {s}
            traces == IF prefix = 0 THEN <<>> ELSE <<<<s, prefix>>>> IN
        IF blk.deferring
        THEN /\ blk' = [blk EXCEPT !.pending = @ \ {s}, !.deferred = @ \o traces,
                                   !.phase = IF last THEN "idle" ELSE @]
             /\ UNCHANGED <<queue, carry>>
        ELSE /\ blk' = [blk EXCEPT !.pending = @ \ {s}, !.phase = IF last THEN "idle" ELSE @]
             /\ IF last /\ ~RoundFenced
                THEN carry' = RunAll(queue \o traces, carry) /\ queue' = <<>>
                ELSE Enqueue(traces)
  BY Zenon DEF CommitUser
<1> DEFINE traces == IF prefix = 0 THEN <<>> ELSE <<<<s, prefix>>>>
<1>3. traces \in Traces /\ Distinct(traces) /\ \A u \in Elements(traces) : u[1] = s
  <2>1. CASE prefix = 0
    BY <2>1, Lists DEF Distinct
  <2>2. CASE prefix # 0
    <3>1. prefix \in 1..Rows
      BY <2>2, BoundAssumption
    <3>2. \A i \in DOMAIN <<<<s, prefix>>>> : i = 1
      OBVIOUS
    <3> QED BY <2>2, <3>1, <3>2, Lists DEF Distinct
  <2> QED BY <2>1, <2>2
<1> HIDE DEF traces
<1>4. CASE blk.deferring
  <2> DEFINE longer == blk.deferred \o traces
             phase == IF blk.pending = {s} THEN "idle" ELSE blk.phase
  <2>0. queue' = queue /\ blk' = [blk EXCEPT !.pending = @ \ {s}, !.deferred = longer, !.phase = phase]
    BY <1>2, <1>4 DEF traces
  <2> HIDE DEF longer, phase
  <2>1. queue' = queue /\ blk'.deferred = longer
    BY <1>1, <2>0 DEF Block
  <2>2. Elements(blk'.deferred) = Elements(blk.deferred) \cup Elements(traces)
    BY <1>1, <1>3, <2>1, Joined DEF longer
  <2>3. Distinct(blk'.deferred)
    BY <1>1, <1>3, <2>1, DistinctJoined DEF OneTraceEach, longer
  <2> QED BY <1>1, <1>3, <2>1, <2>2, <2>3 DEF OneTraceEach
<1>5. CASE ~blk.deferring
  <2>1. blk'.deferred = blk.deferred /\ (queue' = <<>> \/ Enqueue(traces))
    BY <1>1, <1>2, <1>5 DEF traces, Block
  <2>2. CASE queue' = <<>>
    BY <2>1, <2>2, QuietStep
  <2>3. CASE Enqueue(traces)
    <3>1. Distinct(queue')
      BY <1>1, <1>3, <2>3, EnqueuedDistinct DEF OneTraceEach
    <3>2. Elements(queue') \subseteq Elements(queue) \cup Elements(traces)
      BY <1>3, <2>3, EnqueueKeeps DEF Inv
    <3> QED BY <1>1, <1>3, <2>1, <3>1, <3>2 DEF OneTraceEach
  <2> QED BY <2>1, <2>2, <2>3
<1> QED BY <1>4, <1>5

\* Every step keeps the traces one each.
LEMMA OneTraceKept == Inv /\ OneTraceEach /\ [Next]_vars => OneTraceEach'
<1> SUFFICES ASSUME Inv, OneTraceEach, [Next]_vars PROVE OneTraceEach'
  OBVIOUS
<1>1. blk \in Block /\ queue \in Traces /\ Disarmed.deferred = <<>>
  BY DisarmedFields DEF Inv, TypeOK
<1>2. CASE UNCHANGED vars
  BY <1>2, QuietStep DEF vars
<1>3. CASE DeviceRuns
  <2>1. /\ queue # <<>> /\ queue' = Tail(queue) /\ blk' = blk
        /\ Elements(queue') \subseteq Elements(queue)
    BY <1>1, <1>3, HeadOfQueue DEF DeviceRuns
  <2>2. Distinct(queue')
    BY <1>1, <2>1, DistinctParts DEF OneTraceEach
  <2> QED BY <2>1, <2>2 DEF OneTraceEach
<1>4. CASE \E s \in Seg : CommitUser(s)
  BY <1>4, CommitDistinct
<1>5. CASE ReadBack \/ ReadBackFails \/ EarlyEnds \/ EarlyEndFails
  BY <1>5, FlushedDistinct, QuietStep DEF ReadBack, ReadBackFails, EarlyEnds, EarlyEndFails
<1>6. CASE StepBegins \/ VerifyStages
  <2>1. blk.deferred = <<>>
    BY <1>6 DEF Inv, DeferredInStep, StepBegins, VerifyStages
  <2> QED BY <1>1, <1>6, <2>1, QuietStep DEF StepBegins, VerifyStages
<1>7. CASE PrefillStep \/ BookkeepingStep \/ DecodeStep \/ FencedAtReplay \/ Replay \/ Fence
  BY <1>1, <1>7, QuietStep
     DEF PrefillStep, BookkeepingStep, DecodeStep, FencedAtReplay, Replay, Fence, Drain, device, Block
<1>8. CASE StagingFails \/ \E s \in Seg : CommitFails(s)
  <2>1. queue' = queue /\ blk' = [Disarmed EXCEPT !.phase = "failed"]
    BY <1>8 DEF StagingFails, CommitFails, device
  <2>2. blk'.deferred = <<>>
    BY <1>1, <2>1, DisarmedFields DEF Block
  <2> QED BY <2>1, <2>2, QuietStep
<1>9. CASE \E s \in Seg : Abort(s) \/ Detach(s) \/ SequentialUser(s)
  <2>1. queue' \in {queue, <<>>} /\ blk' = blk
    BY <1>9 DEF Abort, Detach, SequentialUser, device
  <2> QED BY <2>1, QuietStep
<1>10. CASE \/ Draft \/ DraftFails \/ DraftRefused \/ Window \/ WindowFails \/ Drafted \/ Take
            \/ NotTaken \/ Stopped
  <2>1. queue' = queue /\ blk' = blk
    BY <1>10 DEF Draft, DraftFails, DraftRefused, Window, WindowFails, Drafted, Take, NotTaken, Stopped, device
  <2> QED BY <2>1, QuietStep
<1> QED BY <1>2, <1>3, <1>4, <1>5, <1>6, <1>7, <1>8, <1>9, <1>10 DEF Next, Step

\* No user ever has two commit traces in flight, on the device queue or deferred by the host:
\* a replay waits for one publication of each user at most.
THEOREM OneCommitInFlight == Spec => []OneTraceEach
<1>1. Init => OneTraceEach
  BY Lists DEF Init, OneTraceEach, Distinct
<1>2. Inv /\ OneTraceEach /\ [Next]_vars => OneTraceEach'
  BY OneTraceKept
<1> QED BY <1>1, <1>2, Invariant, PTL DEF Spec
=============================================================================
