-------------------------- MODULE ServingEngineProofs --------------------------
(* Theorems about ServingEngine, for every set of requests, number of seats and rooms,
   prompt length, alternation and set of faults. *)
EXTENDS ServingEngine, SequenceTheorems, FiniteSetTheorems, WellFoundedInduction, TLAPS

-----------------------------------------------------------------------------
(* Queues *)

(* A nonempty set of naturals has a least element: an induction over a queue goes through
   the least position at which it would fail. *)
LEMMA LeastElement ==
    ASSUME NEW T \in SUBSET Nat, T # {}
    PROVE  \E x \in T : \A y \in T : x <= y
<1> DEFINE R == OpToRel(<, Nat)
<1>1. IsWellFoundedOn(R, Nat)
    BY NatLessThanWellFounded DEF OpToRel
<1>2. \A x, y \in Nat : x < y => <<x, y>> \in R
    BY DEF OpToRel
<1> HIDE DEF R
<1>3. PICK x \in T : \A y \in T : ~ (<<y, x>> \in R)
    BY <1>1, WFMin
<1>4. \A y \in T : ~(y < x)
    BY <1>2, <1>3
<1> QED BY <1>4

\* The function behind Without, up to position n.
Filter(s, X, f, n) == f = [i \in 0..n |-> IF i = 0 THEN <<>> ELSE IF s[i] \in X THEN f[i - 1] ELSE Append(f[i - 1], s[i])]

(* The function behind Without exists for a queue of every length. *)
LEMMA FilterExists ==
    ASSUME NEW s, NEW X, NEW n \in Nat
    PROVE  \E f : Filter(s, X, f, n)
<1> DEFINE T == {k \in Nat : ~ \E f : Filter(s, X, f, k)}
<1> SUFFICES ASSUME T # {} PROVE FALSE
    OBVIOUS
<1>1. T \in SUBSET Nat
    OBVIOUS
<1> HIDE DEF T
<1>2. PICK k \in T : \A y \in T : k <= y
    BY <1>1, LeastElement
<1> USE DEF T
<1>3. k \in Nat /\ ~ \E f : Filter(s, X, f, k)
    BY <1>2
<1>4. k # 0
    <2>1. Filter(s, X, [i \in 0..0 |-> <<>>], 0)
        BY DEF Filter
    <2> QED BY <1>3, <2>1
<1>5. k - 1 \in Nat /\ ~(k <= k - 1)
    BY <1>3, <1>4
<1>6. PICK f : Filter(s, X, f, k - 1)
    BY <1>2, <1>5
<1> DEFINE v == IF s[k] \in X THEN f[k - 1] ELSE Append(f[k - 1], s[k])
           g == [i \in 0..k |-> IF i = k THEN v ELSE f[i]]
           e == [i \in 0..k |-> IF i = 0 THEN <<>> ELSE IF s[i] \in X THEN g[i - 1] ELSE Append(g[i - 1], s[i])]
<1>7. ASSUME NEW i \in 0..k PROVE g[i] = e[i]
    <2>1. CASE i = k
        <3>1. i # 0 /\ k - 1 \in 0..k /\ k - 1 # k
            BY <1>3, <1>4, <2>1
        <3>2. g[k - 1] = f[k - 1]
            BY <3>1
        <3> HIDE DEF g
        <3>3. e[i] = v
            BY <2>1, <3>1, <3>2
        <3> USE DEF g
        <3>4. g[i] = v
            BY <2>1
        <3> QED BY <3>3, <3>4
    <2>2. CASE i # k /\ i # 0
        <3>1. i \in 0..(k - 1) /\ i - 1 \in 0..k /\ i - 1 # k
            BY <1>3, <2>2
        <3>2. g[i - 1] = f[i - 1] /\ g[i] = f[i]
            BY <2>2, <3>1
        <3>3. f[i] = IF s[i] \in X THEN f[i - 1] ELSE Append(f[i - 1], s[i])
            BY <1>6, <2>2, <3>1 DEF Filter
        <3> HIDE DEF g
        <3> QED BY <2>2, <3>2, <3>3
    <2>3. CASE i = 0
        <3>1. 0 \in 0..(k - 1) /\ i # k
            BY <1>3, <1>4, <2>3
        <3>2. f[0] = <<>>
            BY <1>6, <3>1 DEF Filter
        <3>3. g[i] = f[0]
            BY <2>3, <3>1
        <3>4. e[i] = <<>>
            BY <2>3
        <3> QED BY <3>2, <3>3, <3>4
    <2> QED BY <2>1, <2>2, <2>3
<1>8. g = e
    BY <1>7
<1>9. Filter(s, X, g, k)
    BY <1>8 DEF Filter
<1> QED BY <1>3, <1>9

(* Without is what that function holds at the end of the queue. *)
LEMMA WithoutIs ==
    ASSUME NEW s, NEW X, Len(s) \in Nat
    PROVE  \E f : Filter(s, X, f, Len(s)) /\ Without(s, X) = f[Len(s)]
<1> DEFINE F == CHOOSE f : Filter(s, X, f, Len(s))
<1>1. Filter(s, X, F, Len(s))
    BY FilterExists, Zenon
<1>2. Without(s, X) = F[Len(s)]
    BY Zenon DEF Without, Filter
<1> QED BY <1>1, <1>2

\* No request is queued twice.
Distinct(s) == \A i, j \in DOMAIN s : s[i] = s[j] => i = j

(* Removing finished ids from the waiting queue or from decoding_ids keeps exactly the others,
   and repeats none. *)
LEMMA WithoutProperties ==
    ASSUME NEW S, NEW s \in Seq(S), NEW X
    PROVE  /\ Without(s, X) \in Seq(S)
           /\ Elements(Without(s, X)) = Elements(s) \ X
           /\ Distinct(s) => Distinct(Without(s, X))
<1>1. Len(s) \in Nat /\ DOMAIN s = 1..Len(s) /\ \A i \in 1..Len(s) : s[i] \in S
    BY LenProperties, ElementOfSeq
<1>2. PICK f : Filter(s, X, f, Len(s)) /\ Without(s, X) = f[Len(s)]
    BY <1>1, WithoutIs
<1> DEFINE Good(k) == /\ f[k] \in Seq(S)
                      /\ Elements(f[k]) = {s[j] : j \in 1..k} \ X
                      /\ Distinct(s) => Distinct(f[k])
           T == {k \in Nat : k <= Len(s) /\ ~Good(k)}
<1>3. ASSUME T # {} PROVE FALSE
    <2> HIDE DEF T
    <2>1. T \in SUBSET Nat
        BY DEF T
    <2>2. PICK k \in T : \A y \in T : k <= y
        BY <1>3, <2>1, LeastElement
    <2>3. k \in Nat /\ k <= Len(s) /\ ~Good(k)
        BY <2>2, Zenon DEF T
    <2>4. CASE k = 0
        <3>1. f[0] = <<>>
            BY <1>1, <1>2, <2>3 DEF Filter
        <3>2. Elements(<<>>) = {} /\ {s[j] : j \in 1..0} = {} /\ Distinct(<<>>) /\ <<>> \in Seq(S)
            BY DEF Elements, Distinct
        <3> QED BY <2>3, <2>4, <3>1, <3>2
    <2>5. CASE k # 0
        <3>1. k \in 1..Len(s) /\ k \in 0..Len(s) /\ k - 1 \in Nat /\ k - 1 <= Len(s) /\ ~(k <= k - 1)
            BY <1>1, <2>3, <2>5
        <3>2. Good(k - 1)
            <4>1. k - 1 \notin T
                BY <2>2, <3>1
            <4> HIDE DEF Good
            <4> QED BY <3>1, <4>1 DEF T
        <3> DEFINE g == f[k - 1]
                   head == {s[j] : j \in 1..(k - 1)}
        <3>3. f[k] = IF s[k] \in X THEN g ELSE Append(g, s[k])
            BY <1>2, <2>5, <3>1 DEF Filter
        <3>4. {s[j] : j \in 1..k} = head \cup {s[k]}
            BY <3>1
        <3>5. g \in Seq(S) /\ Elements(g) = head \ X /\ (Distinct(s) => Distinct(g)) /\ s[k] \in S
            BY <1>1, <3>1, <3>2
        <3>6. CASE s[k] \in X
            <4>1. f[k] = g /\ Elements(g) = {s[j] : j \in 1..k} \ X
                BY <3>3, <3>4, <3>5, <3>6
            <4> QED BY <2>3, <3>5, <4>1
        <3>7. CASE s[k] \notin X
            <4> HIDE DEF g
            <4>1. f[k] = Append(g, s[k])
                BY <3>3, <3>7
            <4>2. /\ Append(g, s[k]) \in Seq(S) /\ Len(g) \in Nat /\ Len(Append(g, s[k])) = Len(g) + 1
                  /\ DOMAIN g = 1..Len(g) /\ DOMAIN Append(g, s[k]) = 1..(Len(g) + 1)
                  /\ \A i \in 1..Len(g) : Append(g, s[k])[i] = g[i]
                  /\ Append(g, s[k])[Len(g) + 1] = s[k]
                <5>1. g \in Seq(S) /\ s[k] \in S
                    BY <3>5
                <5>2. Len(g) \in Nat /\ DOMAIN g = 1..Len(g)
                    BY <5>1, LenProperties
                <5>3. /\ Append(g, s[k]) \in Seq(S) /\ Len(Append(g, s[k])) = Len(g) + 1
                      /\ \A i \in 1..Len(g) : Append(g, s[k])[i] = g[i]
                      /\ Append(g, s[k])[Len(g) + 1] = s[k]
                    BY <5>1, AppendProperties
                <5>4. DOMAIN Append(g, s[k]) = 1..Len(Append(g, s[k]))
                    BY <5>3, LenProperties
                <5> QED BY <5>2, <5>3, <5>4
            <4> DEFINE h == Append(g, s[k])
            <4>3. Elements(h) = Elements(g) \cup {s[k]}
                <5> HIDE DEF h
                <5>1. 1..(Len(g) + 1) = 1..Len(g) \cup {Len(g) + 1}
                    BY <4>2
                <5> QED BY <4>2, <5>1 DEF Elements, h
            <4>4. Elements(h) = {s[j] : j \in 1..k} \ X
                BY <3>4, <3>5, <3>7, <4>3
            <4>5. Distinct(s) => Distinct(h)
                <5> SUFFICES ASSUME Distinct(s), NEW i \in DOMAIN h, NEW j \in DOMAIN h, h[i] = h[j]
                             PROVE  i = j
                    BY Zenon DEF Distinct
                <5>1. s[k] \notin head
                    BY <1>1, <3>1 DEF Distinct
                <5>2. \A l \in 1..Len(g) : g[l] # s[k]
                    BY <3>5, <4>2, <5>1 DEF Elements
                <5>3. CASE i \in 1..Len(g) /\ j \in 1..Len(g)
                    <6>1. g[i] = g[j]
                        BY <4>2, <5>3
                    <6>2. Distinct(g)
                        BY <3>5
                    <6> QED BY <4>2, <5>3, <6>1, <6>2 DEF Distinct
                <5>4. CASE i = Len(g) + 1 /\ j \in 1..Len(g)
                    BY <4>2, <5>2, <5>4
                <5>5. CASE j = Len(g) + 1 /\ i \in 1..Len(g)
                    BY <4>2, <5>2, <5>5
                <5>6. (i \in 1..Len(g) \/ i = Len(g) + 1) /\ (j \in 1..Len(g) \/ j = Len(g) + 1)
                    BY <4>2
                <5> QED BY <5>3, <5>4, <5>5, <5>6
            <4> HIDE DEF h
            <4>6. f[k] = h /\ h \in Seq(S)
                BY <4>1, <4>2 DEF h
            <4> QED BY <2>3, <4>4, <4>5, <4>6
        <3> QED BY <3>6, <3>7
    <2> QED BY <2>4, <2>5
<1>4. Good(Len(s))
    <2> HIDE DEF Good
    <2>1. Len(s) \in Nat /\ Len(s) <= Len(s) /\ Len(s) \notin T
        BY <1>1, <1>3
    <2> QED BY <2>1
<1>5. {s[j] : j \in 1..Len(s)} = Elements(s)
    BY <1>1 DEF Elements
<1> HIDE DEF T
<1> QED BY <1>2, <1>4, <1>5, Zenon

(* A request that arrives joins the end of the queue and of nothing else. *)
LEMMA AppendElements ==
    ASSUME NEW S, NEW s \in Seq(S), NEW e \in S
    PROVE  /\ Append(s, e) \in Seq(S) /\ Append(s, e) # <<>>
           /\ Elements(Append(s, e)) = Elements(s) \cup {e}
           /\ Distinct(s) /\ e \notin Elements(s) => Distinct(Append(s, e))
           /\ Last(Append(s, e)) = e
<1> DEFINE h == Append(s, e)
<1>1. Len(s) \in Nat /\ DOMAIN s = 1..Len(s)
    BY LenProperties
<1>2. /\ h \in Seq(S) /\ Len(h) = Len(s) + 1 /\ \A i \in 1..Len(s) : h[i] = s[i]
      /\ h[Len(s) + 1] = e
    BY AppendProperties
<1>3. DOMAIN h = 1..Len(h)
    BY <1>2, LenProperties
<1> HIDE DEF h
<1>4. DOMAIN h = 1..Len(s) \cup {Len(s) + 1} /\ h[Len(h)] = e /\ h # <<>>
    BY <1>1, <1>2, <1>3
<1>5. Elements(h) = Elements(s) \cup {e}
    BY <1>1, <1>2, <1>4 DEF Elements
<1>6. ASSUME Distinct(s), e \notin Elements(s), NEW i \in DOMAIN h, NEW j \in DOMAIN h, h[i] = h[j]
      PROVE  i = j
    <2>1. \A l \in 1..Len(s) : s[l] # e
        BY <1>1, <1>6 DEF Elements
    <2>2. CASE i \in 1..Len(s) /\ j \in 1..Len(s)
        <3>1. s[i] = s[j]
            BY <1>2, <1>6, <2>2
        <3> QED BY <1>1, <1>6, <2>2, <3>1 DEF Distinct
    <2> QED BY <1>2, <1>4, <1>6, <2>1, <2>2
<1>7. Distinct(s) /\ e \notin Elements(s) => Distinct(h)
    BY <1>6 DEF Distinct
<1> QED BY <1>2, <1>4, <1>5, <1>7 DEF h, Last

(* The scheduler admits the head of the queue: it was nowhere else in it. *)
LEMMA HeadAndTail ==
    ASSUME NEW S, NEW s \in Seq(S), s # <<>>
    PROVE  /\ Head(s) \in S /\ Tail(s) \in Seq(S)
           /\ Elements(s) = Elements(Tail(s)) \cup {Head(s)}
           /\ Distinct(s) => Distinct(Tail(s)) /\ Head(s) \notin Elements(Tail(s))
<1> DEFINE t == Tail(s)
<1>1. Len(s) \in Nat /\ DOMAIN s = 1..Len(s) /\ \A i \in 1..Len(s) : s[i] \in S
    BY LenProperties, ElementOfSeq
<1>2. Len(s) # 0
    BY EmptySeq
<1>3. Head(s) = s[1] /\ t \in Seq(S) /\ Len(t) = Len(s) - 1 /\ \A i \in 1..Len(t) : t[i] = s[i + 1]
    BY HeadTailProperties
<1>4. DOMAIN t = 1..Len(t)
    BY <1>3, LenProperties
<1> HIDE DEF t
<1>5. 1 \in DOMAIN s /\ \A i \in DOMAIN t : i + 1 \in DOMAIN s /\ i + 1 # 1 /\ t[i] = s[i + 1]
    BY <1>1, <1>2, <1>3, <1>4
<1>6. ASSUME NEW i \in DOMAIN s, i # 1 PROVE i - 1 \in DOMAIN t /\ s[i] = t[i - 1]
    BY <1>1, <1>2, <1>3, <1>4, <1>6
<1>7. Elements(s) \subseteq Elements(t) \cup {Head(s)}
    <2> SUFFICES ASSUME NEW i \in DOMAIN s PROVE s[i] \in Elements(t) \cup {Head(s)}
        BY DEF Elements
    <2>1. CASE i = 1
        BY <1>3, <2>1
    <2>2. CASE i # 1
        BY <1>6, <2>2 DEF Elements
    <2> QED BY <2>1, <2>2
<1>8. Elements(t) \cup {Head(s)} \subseteq Elements(s)
    BY <1>3, <1>5 DEF Elements
<1>9. ASSUME Distinct(s) PROVE Distinct(t) /\ Head(s) \notin Elements(t)
    <2>1. ASSUME NEW i \in DOMAIN t, NEW j \in DOMAIN t, t[i] = t[j] PROVE i = j
        <3>1. s[i + 1] = s[j + 1]
            BY <1>5, <2>1
        <3>2. i + 1 = j + 1
            BY <1>5, <1>9, <3>1 DEF Distinct
        <3> QED BY <1>3, <1>4, <3>2
    <2>2. ASSUME NEW i \in DOMAIN t PROVE t[i] # Head(s)
        BY <1>3, <1>5, <1>9 DEF Distinct
    <2> QED BY <2>1, <2>2 DEF Distinct, Elements
<1> QED BY <1>1, <1>3, <1>5, <1>7, <1>8, <1>9 DEF t

(* A list is empty exactly when it holds nobody. *)
LEMMA NoElements ==
    ASSUME NEW S, NEW s \in Seq(S)
    PROVE  /\ s = <<>> <=> Elements(s) = {}
           /\ s # <<>> => Last(s) \in Elements(s)
           /\ Elements(s) \subseteq S
<1>1. Len(s) \in Nat /\ DOMAIN s = 1..Len(s) /\ \A i \in 1..Len(s) : s[i] \in S
    BY LenProperties, ElementOfSeq
<1>2. s # <<>> => Len(s) \in DOMAIN s
    BY <1>1, EmptySeq
<1>3. s = <<>> => Elements(s) = {}
    BY DEF Elements
<1> QED BY <1>1, <1>2, <1>3 DEF Elements, Last

-----------------------------------------------------------------------------
(* FastServingLifecycle._execute: the releases *)

\* The record of the lifecycle and its hook.
WorkerRecord ==
    [requestId : Ids, capture : -1..MaxChunks, decodingIds : Seq(Request), decodingId : Ids,
     hook : BOOLEAN, bridges : SUBSET Request, prefillPending : BOOLEAN,
     chunkInFlight : BOOLEAN, refused : BOOLEAN, failed : BOOLEAN]

\* The hook exists exactly while somebody decodes, holds one bridge per decoding id, and the
\* request being prefilled is not among them.
Sound(w) ==
    /\ ~w.failed /\ w.bridges = Elements(w.decodingIds)
    /\ w.hook <=> w.decodingIds # <<>>
    /\ w.decodingIds = <<>> => w.decodingId = NoRequest
    /\ w.decodingIds # <<>> => w.decodingId \in w.bridges
    /\ w.requestId = NoRequest <=> w.capture = NoCapture
    /\ w.requestId \notin w.bridges

\* The fields a settled worker carries: its bridges and its prefill, minus what has finished.
SettledFields(w, done, v) ==
    /\ v.bridges = w.bridges \ done /\ v.bridges = Elements(v.decodingIds)
    /\ v.hook <=> v.decodingIds # <<>>
    /\ v.decodingIds = <<>> => v.decodingId = NoRequest
    /\ v.decodingIds # <<>> => v.decodingId \in v.bridges
    /\ v.requestId = IF w.requestId \in done THEN NoRequest ELSE w.requestId
    /\ v.capture = IF w.requestId \in done THEN NoCapture ELSE w.capture
    /\ v.prefillPending = w.prefillPending /\ v.chunkInFlight = w.chunkInFlight
    /\ v.refused = w.refused /\ v.failed = w.failed

(* The loop over finished decoders forgets exactly the finished ones, and drops the hook with
   the last of them. *)
LEMMA DetachSettles ==
    ASSUME NEW w \in WorkerRecord, Sound(w), NEW done \in SUBSET Request
    PROVE  LET v == IF ReleasesDecoders(w, done) THEN ReleaseDecoders(w)
                    ELSE IF Elements(w.decodingIds) \cap done = {} THEN w ELSE Detach(w, done)
           IN  /\ v \in WorkerRecord
               /\ v.bridges = w.bridges \ done /\ v.bridges = Elements(v.decodingIds)
               /\ v.hook <=> v.decodingIds # <<>>
               /\ v.decodingIds = <<>> => v.decodingId = NoRequest
               /\ v.decodingIds # <<>> => v.decodingId \in v.bridges
               /\ v.requestId = w.requestId /\ v.capture = w.capture
               /\ v.prefillPending = w.prefillPending /\ v.chunkInFlight = w.chunkInFlight
               /\ v.refused = w.refused /\ v.failed = w.failed
<1> DEFINE left == Without(w.decodingIds, done)
<1>0. /\ w.decodingIds \in Seq(Request) /\ w.bridges \in SUBSET Request /\ w.decodingId \in Ids
      /\ NoRequest \notin Request
    BY RequestAssumption DEF WorkerRecord
<1>1. left \in Seq(Request) /\ Elements(left) = Elements(w.decodingIds) \ done
    BY <1>0, WithoutProperties
<1>2. /\ left = <<>> <=> Elements(left) = {}
      /\ left # <<>> => Last(left) \in Elements(left)
      /\ Elements(left) \subseteq Request
    BY <1>1, NoElements
<1>3. /\ w.decodingIds = <<>> <=> Elements(w.decodingIds) = {}
      /\ Elements(<<>>) = {} /\ <<>> \in Seq(Request)
    <2>1. Elements(<<>>) = {} /\ <<>> \in Seq(Request)
        BY DEF Elements
    <2>2. w.decodingIds = <<>> <=> Elements(w.decodingIds) = {}
        BY <1>0, NoElements, Zenon
    <2> QED BY <2>1, <2>2
<1> HIDE DEF left
<1>4. Remaining(w, done) = left
    BY DEF Remaining, left
<1>5. CASE ReleasesDecoders(w, done)
    <2> DEFINE v == ReleaseDecoders(w)
    <2>1. v \in WorkerRecord
        BY <1>3 DEF WorkerRecord, ReleaseDecoders, Ids
    <2>2. /\ v.bridges = {} /\ v.hook = FALSE /\ v.decodingIds = <<>> /\ v.decodingId = NoRequest
          /\ v.requestId = w.requestId /\ v.capture = w.capture
          /\ v.prefillPending = w.prefillPending /\ v.chunkInFlight = w.chunkInFlight
          /\ v.refused = w.refused /\ v.failed = w.failed
        BY DEF WorkerRecord, ReleaseDecoders
    <2>3. w.bridges \ done = {}
        BY <1>1, <1>2, <1>4, <1>5 DEF ReleasesDecoders, Sound
    <2> HIDE DEF v
    <2>4. v = ReleaseDecoders(w)
        BY DEF v
    <2> QED BY <1>3, <1>5, <2>1, <2>2, <2>3, <2>4
<1>6. CASE ~ReleasesDecoders(w, done) /\ Elements(w.decodingIds) \cap done = {}
    BY <1>6 DEF Sound
<1>7. CASE ~ReleasesDecoders(w, done) /\ Elements(w.decodingIds) \cap done # {}
    <2> DEFINE v == Detach(w, done)
    <2>1. w.decodingIds # <<>> /\ w.decodingId \in w.bridges
        BY <1>3, <1>7 DEF Sound
    <2>2. left = <<>> => w.decodingId \in done
        BY <1>1, <1>2, <2>1 DEF Sound
    <2>3. left # <<>>
        BY <1>4, <1>7, <2>2 DEF ReleasesDecoders
    <2> DEFINE id == IF w.decodingId \in done THEN Last(left) ELSE w.decodingId
    <2>4. id \in Ids /\ id \in w.bridges \ done
        BY <1>0, <1>1, <1>2, <2>1, <2>3 DEF Sound, Ids
    <2> HIDE DEF id
    <2>5. v = [w EXCEPT !.decodingIds = left, !.bridges = w.bridges \ done, !.decodingId = id]
        BY <1>4 DEF Detach, id
    <2> HIDE DEF v
    <2>6. v \in WorkerRecord
        BY <1>0, <1>1, <2>4, <2>5 DEF WorkerRecord
    <2>7. /\ v.bridges = w.bridges \ done /\ v.hook = w.hook /\ v.decodingIds = left /\ v.decodingId = id
          /\ v.requestId = w.requestId /\ v.capture = w.capture
          /\ v.prefillPending = w.prefillPending /\ v.chunkInFlight = w.chunkInFlight
          /\ v.refused = w.refused /\ v.failed = w.failed
        BY <2>5 DEF WorkerRecord
    <2>8. v = Detach(w, done)
        BY DEF v
    <2>9. w.hook /\ w.bridges = Elements(w.decodingIds)
        BY <2>1 DEF Sound
    <2> QED BY <1>1, <1>7, <2>3, <2>4, <2>6, <2>7, <2>8, <2>9
<1> QED BY <1>5, <1>6, <1>7

(* The prefill's release is independent of the decoders'. *)
LEMMA SettleSound ==
    ASSUME NEW w \in WorkerRecord, Sound(w), NEW done \in SUBSET Request
    PROVE  /\ Settle(w, done) \in WorkerRecord
           /\ SettledFields(w, done, Settle(w, done))
           /\ Sound(Settle(w, done))
<1> DEFINE v == IF ReleasesDecoders(w, done) THEN ReleaseDecoders(w)
                ELSE IF Elements(w.decodingIds) \cap done = {} THEN w ELSE Detach(w, done)
           u == IF w.requestId \in done THEN ReleasePrefill(v) ELSE v
<1>1. /\ v \in WorkerRecord
      /\ v.bridges = w.bridges \ done /\ v.bridges = Elements(v.decodingIds)
      /\ v.hook <=> v.decodingIds # <<>>
      /\ v.decodingIds = <<>> => v.decodingId = NoRequest
      /\ v.decodingIds # <<>> => v.decodingId \in v.bridges
      /\ v.requestId = w.requestId /\ v.capture = w.capture
      /\ v.prefillPending = w.prefillPending /\ v.chunkInFlight = w.chunkInFlight
      /\ v.refused = w.refused /\ v.failed = w.failed
    BY DetachSettles
<1>2. Settle(w, done) = u
    BY Zenon DEF Settle
<1>3. NoRequest \notin Request /\ NoRequest \in Ids /\ NoCapture \in -1..MaxChunks /\ MaxChunks \in Nat
    BY RequestAssumption, LengthAssumption DEF Ids, NoCapture
<1> HIDE DEF v
<1>4. CASE w.requestId \in done
    <2>1. u = [v EXCEPT !.requestId = NoRequest, !.capture = NoCapture]
        BY <1>4 DEF ReleasePrefill
    <2>2. u \in WorkerRecord
        BY <1>1, <1>3, <2>1 DEF WorkerRecord
    <2> HIDE DEF u
    <2>3. /\ u.requestId = NoRequest /\ u.capture = NoCapture
          /\ u.bridges = v.bridges /\ u.decodingIds = v.decodingIds /\ u.decodingId = v.decodingId
          /\ u.hook = v.hook /\ u.prefillPending = v.prefillPending
          /\ u.chunkInFlight = v.chunkInFlight /\ u.refused = v.refused /\ u.failed = v.failed
        BY <1>1, <2>1 DEF WorkerRecord
    <2>4. SettledFields(w, done, u)
        BY <1>1, <1>4, <2>3 DEF SettledFields
    <2>5. ~w.failed /\ u.requestId \notin u.bridges
        BY <1>1, <1>3, <2>3 DEF Sound, WorkerRecord
    <2>6. Sound(u)
        BY <2>3, <2>4, <2>5 DEF SettledFields, Sound
    <2> QED BY <1>2, <2>2, <2>4, <2>6
<1>5. CASE w.requestId \notin done
    <2>1. u = v
        BY <1>5
    <2> HIDE DEF u
    <2>2. SettledFields(w, done, u)
        BY <1>1, <1>5, <2>1 DEF SettledFields
    <2>3. Sound(u)
        BY <1>1, <2>1 DEF Sound
    <2> QED BY <1>1, <1>2, <2>1, <2>2, <2>3
<1> QED BY <1>4, <1>5

-----------------------------------------------------------------------------
(* The inductive invariant *)

Working == phase \in {"between", "execute", "sample", "update"}

\* The prompt the step admits, until the lifecycle has taken it.
New == IF phase = "execute" THEN step.new ELSE {}

\* Finished requests the worker may still hold something for.
Ending == finishedIds \cup (IF phase = "execute" THEN step.finished ELSE {}) \cup dropped

\* The scheduled chunk of the prompt in the gate, before the lifecycle has recorded it.
ChunkStep == phase = "execute" /\ step.new = {} /\ step.cached = {worker.requestId}

\* The queues hold each request once, none that has ended, and a request's counters start with it.
QueueSound ==
    /\ Distinct(waiting) /\ Live \cap Ending = {} /\ Elements(waiting) \cap running = {}
    /\ \A r \in Request : length[r] = 0 => r \notin Live \cup Ending /\ prefilled[r] = 0 /\ rounds[r] = 0
    /\ \A r \in Elements(waiting) : prefilled[r] = 0 /\ rounds[r] = 0
    /\ \A r \in running : prefilled[r] >= 1 /\ prefilled[r] <= length[r]

\* A request that has used up its rounds stops in the update that follows.
RoundsBounded ==
    \A r \in Live : rounds[r] < MaxRounds \/ (phase = "update" /\ route = "decode" /\ r \in step.cached)

\* Until an exception, the lifecycle and the hook agree with each other.
WorkerSound == Working => Sound(worker)

\* Every running request is in the gate, entering it, ending, or has its bridge; and a bridge
\* belongs to a running request or to one whose end is still to be told.
BridgesServe ==
    Working => /\ running \ ({worker.requestId} \cup New \cup ended \cup pending) \subseteq worker.bridges
               /\ worker.bridges \subseteq running \cup Ending
               /\ worker.bridges \cap New = {}

\* The gate is held by a request that runs or is ending, and by every partial prompt; its capture
\* stands where the scheduler's count stands, less the chunk of the step being executed.
GateHeld ==
    Working => /\ worker.requestId # NoRequest => worker.requestId \in running \cup Ending
               /\ Partials \subseteq {worker.requestId} \cup New
               /\ worker.requestId \in running =>
                     /\ worker.capture = prefilled[worker.requestId] - (IF ChunkStep THEN 1 ELSE 0)
                     /\ (phase # "sample" => worker.capture < length[worker.requestId])

\* The three steps the scheduler builds.
ChunkDue == step.new = {} /\ worker.requestId \in running /\ step.cached = {worker.requestId}
DecodeDue == step.new = {} /\ step.cached = Decodes /\ worker.requestId \notin Decodes
AdmissionDue(h) ==
    /\ h \in running /\ step.new = {h} /\ step.cached = {}
    /\ worker.requestId = NoRequest /\ prefilled[h] = 1

StepSound ==
    /\ phase \in {"execute", "sample", "update"} => finishedIds = {} /\ step.cached \subseteq running
    /\ phase = "execute" => ChunkDue \/ DecodeDue \/ \E h \in Request : AdmissionDue(h)

\* A step that samples carries the last chunk exactly when a seed is due; what sampling ends or
\* quarantines still runs, and is settled by the next update.
SeedSound ==
    /\ phase = "sample" => /\ worker.requestId \in running
                           /\ worker.prefillPending <=> worker.capture = length[worker.requestId]
                           /\ worker.chunkInFlight <=> ~worker.prefillPending
    /\ worker.prefillPending => phase = "sample" \/ "sampler" \in fault
    /\ worker.prefillPending => phase \in {"sample", "dead", "closed"}
    /\ pending \cup ended # {} => phase = "update"
    /\ ended \subseteq running /\ pending \subseteq running

\* What is built and not closed is what the hook holds, unless a close raised.
OpenBridges == "close" \in fault \/ open = worker.bridges

CloseDone ==
    /\ phase = "closed" <=> shutdown # "none"
    /\ shutdown = "done" => worker.bridges = {}
    /\ shutdown = "raised" => worker.prefillPending

\* After a chunk the decoders are owed their turn.
Turn == lastChunk # NoRequest => prefilled[lastChunk] >= 1 /\ streak /\ credit = 0

Inv ==
    /\ TypeOK /\ QueueSound /\ RoundsBounded /\ WorkerSound /\ BridgesServe /\ GateHeld
    /\ StepSound /\ SeedSound /\ OpenBridges /\ CloseDone /\ Turn /\ EngineSurvives

(* The bridges the releases close are those of the finished requests, whichever branch runs. *)
LEMMA ClosesFinished ==
    ASSUME Inv, phase = "execute"
    PROVE  /\ Settled \in WorkerRecord /\ Sound(Settled)
           /\ SettledFields(worker, step.finished, Settled)
           /\ ClosedBySettling = worker.bridges \cap step.finished
<1>1. worker \in WorkerRecord /\ Sound(worker) /\ step.finished \in SUBSET Request
    BY DEF Inv, TypeOK, WorkerSound, Working, WorkerRecord
<1>2. /\ Settled \in WorkerRecord /\ Sound(Settled)
      /\ SettledFields(worker, step.finished, Settled)
    BY <1>1, SettleSound DEF Settled
<1>3. ASSUME ReleasesDecoders(worker, step.finished) PROVE worker.bridges \subseteq step.finished
    <2>1. worker.decodingIds \in Seq(Request)
        BY <1>1 DEF WorkerRecord
    <2>2. Elements(Without(worker.decodingIds, step.finished)) = worker.bridges \ step.finished
        BY <1>1, <2>1, WithoutProperties DEF Sound
    <2>3. Elements(Without(worker.decodingIds, step.finished)) = {}
        BY <1>3 DEF ReleasesDecoders, Remaining, Elements
    <2> QED BY <2>2, <2>3
<1>4. ClosedBySettling = worker.bridges \cap step.finished
    BY <1>3 DEF ClosedBySettling
<1> QED BY <1>2, <1>4

(* What the lifecycle makes of each of the scheduler's three steps: the chunk is a continuation,
   the fresh prompt is admitted, and the decode step is the hook's round, which it refuses only
   when it still holds a bridge of a request whose end no step ever named. *)
LEMMA RouteIsExpected ==
    ASSUME Inv, phase = "execute"
    PROVE  /\ ~Unexecutable
           /\ \/ ChunkDue /\ Route(Settled) = "chunk"
              \/ DecodeDue /\ Route(Settled) \in {"bookkeeping", "decode"}
              \/ DecodeDue /\ Route(Settled) = "refused" /\ dropped # {}
              \/ \E h \in Request : AdmissionDue(h) /\ Route(Settled) = "admit"
<1> DEFINE w == Settled
<1>1. /\ w \in WorkerRecord /\ Sound(w) /\ SettledFields(worker, step.finished, w)
      /\ worker \in WorkerRecord /\ Sound(worker)
    BY ClosesFinished DEF Inv, TypeOK, WorkerSound, Working, WorkerRecord
<1> HIDE DEF w
<1>2. /\ NoRequest \notin Request /\ running \subseteq Request /\ step.cached \subseteq running
      /\ finishedIds = {} /\ pending = {} /\ ended = {} /\ ~worker.prefillPending
      /\ running \cap step.finished = {}
    BY RequestAssumption DEF Inv, TypeOK, StepSound, SeedSound, QueueSound, Live, Ending
<1>3. /\ running \ ({worker.requestId} \cup step.new) \subseteq worker.bridges
      /\ worker.bridges \subseteq running \cup step.finished \cup dropped
      /\ Partials \subseteq {worker.requestId} \cup step.new
    BY <1>2 DEF Inv, BridgesServe, GateHeld, Working, New, Ending
<1>4. /\ w.bridges = worker.bridges \ step.finished
      /\ w.requestId = (IF worker.requestId \in step.finished THEN NoRequest ELSE worker.requestId)
      /\ w.capture = (IF worker.requestId \in step.finished THEN NoCapture ELSE worker.capture)
      /\ w.hook <=> w.bridges # {}
    <2>1. w.decodingIds \in Seq(Request)
        BY <1>1 DEF WorkerRecord
    <2> QED BY <1>1, <2>1, NoElements DEF SettledFields
<1>5. ~Unexecutable
    BY <1>2 DEF Unexecutable
<1>6. CASE ChunkDue
    <2>1. /\ step.new = {} /\ worker.requestId \in running /\ step.cached = {worker.requestId}
          /\ w.requestId = worker.requestId /\ w.capture = worker.capture
        BY <1>2, <1>4, <1>6 DEF ChunkDue
    <2>2. worker.capture < length[worker.requestId]
        BY <2>1 DEF Inv, GateHeld, Working
    <2>3. w.requestId # NoRequest /\ w.capture # NoCapture
        BY <1>1, <1>2, <2>1 DEF Sound
    <2>4. IsContinuation(w)
        BY <2>1, <2>2, <2>3 DEF IsContinuation
    <2>5. Route(w) = "chunk"
        BY <2>4 DEF Route
    <2> QED BY <1>5, <1>6, <2>5 DEF w
<1>7. CASE DecodeDue
    <2>1. step.new = {} /\ step.cached = Decodes /\ worker.requestId \notin Decodes
        BY <1>7 DEF DecodeDue
    <2>2. ~IsContinuation(w)
        <3>1. w.requestId # NoRequest => w.requestId \notin step.cached
            BY <1>4, <2>1
        <3> QED BY <3>1 DEF IsContinuation
    <2>3. Decodes \subseteq w.bridges
        BY <1>2, <1>3, <1>4, <2>1 DEF Decodes
    <2>4. ASSUME w.bridges # Decodes PROVE dropped # {}
        <3>1. PICK b \in w.bridges : b \notin Decodes
            BY <2>3, <2>4
        <3>2. b # worker.requestId /\ b \in worker.bridges /\ b \notin step.finished
            BY <1>1, <1>4 DEF Sound
        <3>3. b \notin running
            BY <1>3, <2>1, <3>1, <3>2 DEF Decodes
        <3> QED BY <1>3, <3>2, <3>3
    <2>5. CASE w.hook
        <3>1. Route(w) = HookRoute(w)
            BY <2>1, <2>2, <2>5 DEF Route
        <3>2. CASE step.cached = {}
            <4>1. HookRoute(w) = "bookkeeping"
                BY <3>2 DEF HookRoute
            <4> QED BY <1>5, <1>7, <3>1, <4>1 DEF w
        <3>3. CASE step.cached # {} /\ step.cached = w.bridges
            <4>1. HookRoute(w) = "decode"
                BY <3>3 DEF HookRoute
            <4> QED BY <1>5, <1>7, <3>1, <4>1 DEF w
        <3>4. CASE step.cached # {} /\ step.cached # w.bridges
            <4>1. HookRoute(w) = "refused"
                BY <2>1, <2>3, <3>4 DEF HookRoute
            <4> QED BY <1>5, <1>7, <2>1, <2>4, <3>1, <3>4, <4>1 DEF w
        <3> QED BY <3>2, <3>3, <3>4
    <2>6. CASE ~w.hook
        <3>1. step.new \cup step.cached = {}
            BY <1>4, <2>1, <2>3, <2>6
        <3>2. Route(w) = "bookkeeping"
            BY <2>2, <2>6, <3>1 DEF Route
        <3> QED BY <1>5, <1>7, <3>2 DEF w
    <2> QED BY <2>5, <2>6
<1>8. ASSUME NEW h \in Request, AdmissionDue(h) PROVE Route(w) = "admit"
    <2>1. step.new = {h} /\ step.cached = {} /\ w.requestId = NoRequest
        BY <1>2, <1>4, <1>8 DEF AdmissionDue
    <2>2. ~IsContinuation(w)
        BY <2>1 DEF IsContinuation
    <2>3. Cardinality(step.new) = 1
        BY <2>1, FS_Singleton
    <2> QED BY <2>1, <2>2, <2>3 DEF Route
<1>9. ChunkDue \/ DecodeDue \/ \E h \in Request : AdmissionDue(h)
    BY DEF Inv, StepSound
<1> QED BY <1>5, <1>6, <1>7, <1>8, <1>9 DEF w

(* _after_prefill_chunk advances the capture by one chunk, and only the last chunk leaves a seed
   pending. *)
LEMMA AfterChunkEffect ==
    ASSUME NEW w \in WorkerRecord, Sound(w), w.requestId \in Request, w.capture \in Nat,
           length \in [Request -> 0..MaxChunks], w.capture + 1 <= length[w.requestId],
           w.prefillPending = FALSE
    PROVE  /\ AfterChunk(w) \in WorkerRecord /\ Sound(AfterChunk(w))
           /\ AfterChunk(w).requestId = w.requestId /\ AfterChunk(w).capture = w.capture + 1
           /\ AfterChunk(w).bridges = w.bridges
           /\ AfterChunk(w).prefillPending <=> w.capture + 1 = length[w.requestId]
           /\ AfterChunk(w).chunkInFlight <=> ~AfterChunk(w).prefillPending
           /\ AfterChunk(w).failed = w.failed
<1> DEFINE v == AfterChunk(w)
           last == w.capture + 1 = length[w.requestId]
           covered == w.capture + 1
<1>1. MaxChunks \in Nat /\ NoRequest \notin Request /\ length[w.requestId] \in 0..MaxChunks
    BY LengthAssumption, RequestAssumption
<1>2. covered \in -1..MaxChunks /\ covered # NoCapture /\ w.capture # NoCapture
    BY <1>1 DEF NoCapture
<1>3. v = IF last THEN [w EXCEPT !.capture = covered, !.chunkInFlight = FALSE, !.prefillPending = TRUE]
          ELSE [w EXCEPT !.capture = covered, !.chunkInFlight = TRUE]
    BY DEF AfterChunk
<1> HIDE DEF v, last, covered
<1>4. /\ v \in WorkerRecord /\ v.requestId = w.requestId /\ v.capture = covered
      /\ v.bridges = w.bridges /\ v.decodingIds = w.decodingIds /\ v.decodingId = w.decodingId
      /\ v.hook = w.hook /\ v.failed = w.failed
      /\ v.prefillPending <=> last
      /\ v.chunkInFlight <=> ~v.prefillPending
    BY <1>2, <1>3 DEF WorkerRecord
<1>5. Sound(v)
    BY <1>1, <1>2, <1>4 DEF Sound
<1> QED BY <1>4, <1>5 DEF v, last, covered

(* The admission takes the gate and touches no decoder. *)
LEMMA AdmittedTyped ==
    ASSUME NEW w \in WorkerRecord, NEW r \in Request, NEW refused \in BOOLEAN
    PROVE  /\ Admitted(w, r, refused) \in WorkerRecord
           /\ Admitted(w, r, refused).requestId = r
           /\ Admitted(w, r, refused).capture = 0
           /\ Admitted(w, r, refused).chunkInFlight = FALSE
           /\ Admitted(w, r, refused).bridges = w.bridges
           /\ Admitted(w, r, refused).decodingIds = w.decodingIds
           /\ Admitted(w, r, refused).hook = w.hook
           /\ Admitted(w, r, refused).decodingId = w.decodingId
           /\ Admitted(w, r, refused).prefillPending = w.prefillPending
           /\ Admitted(w, r, refused).failed = w.failed
<1>1. 0 \in -1..MaxChunks /\ r \in Ids
    BY LengthAssumption DEF Ids
<1> QED BY <1>1 DEF Admitted, WorkerRecord

(* A step the scheduler gives out changes its own lists and leaves the worker alone. *)
LEMMA ScheduleTyped ==
    ASSUME TypeOK, phase' = "execute", finishedIds' = {},
           step' \in [new : SUBSET Request, cached : SUBSET Request, finished : SUBSET Request],
           waiting' \in Seq(Request), running' \subseteq Request, prefilled' \in [Request -> 0..MaxChunks],
           streak' \in BOOLEAN, credit' \in 0..DecodeSteps, lastChunk' \in Ids, dropped' \subseteq Request,
           length' = length, rounds' = rounds, route' = route, ended' = ended, worker' = worker,
           open' = open, pending' = pending, fault' = fault, shutdown' = shutdown
    PROVE  TypeOK'
BY DEF TypeOK

(* While a step executes nothing else is in flight, and no running request is among the finished
   ids it names. *)
LEMMA Executes ==
    ASSUME Inv, phase = "execute"
    PROVE  /\ finishedIds = {} /\ pending = {} /\ ended = {} /\ ~worker.prefillPending
           /\ step.cached \subseteq running /\ running \cap step.finished = {}
BY DEF Inv, StepSound, SeedSound, QueueSound, Live, Ending

(* Whatever the step is, its route is one of the routes. *)
LEMMA RouteTyped ==
    ASSUME Inv, phase = "execute"
    PROVE  Route(Settled) \in Routes
BY RouteIsExpected DEF Routes

(* While a step samples, the gate's prompt runs, its capture is level with the scheduler, and no
   other prompt is partial. *)
LEMMA Samples ==
    ASSUME Inv, phase = "sample"
    PROVE  /\ finishedIds = {} /\ step.cached \subseteq running
           /\ worker.requestId \in running /\ worker.requestId \in Request
           /\ worker.capture = prefilled[worker.requestId]
           /\ worker.prefillPending <=> worker.capture = length[worker.requestId]
           /\ worker.chunkInFlight <=> ~worker.prefillPending
           /\ Partials \subseteq {worker.requestId} /\ pending = {} /\ ended = {} /\ Sound(worker)
           /\ running \ {worker.requestId} \subseteq worker.bridges
           /\ worker.bridges \subseteq running \cup dropped
           /\ worker.prefillPending \in BOOLEAN
<1>1. /\ finishedIds = {} /\ step.cached \subseteq running /\ worker.requestId \in running
      /\ worker.prefillPending <=> worker.capture = length[worker.requestId]
      /\ worker.chunkInFlight <=> ~worker.prefillPending
      /\ pending = {} /\ ended = {} /\ Sound(worker)
    BY DEF Inv, StepSound, SeedSound, WorkerSound, Working
<1>2. running \subseteq Request /\ worker.prefillPending \in BOOLEAN
      /\ \A r \in Request : prefilled[r] \in Nat
    BY LengthAssumption DEF Inv, TypeOK
<1>3. worker.capture = prefilled[worker.requestId] - 0 /\ Partials \subseteq {worker.requestId}
    BY <1>1 DEF Inv, GateHeld, Working, New, ChunkStep
<1>4. worker.capture = prefilled[worker.requestId]
    BY <1>1, <1>2, <1>3
<1>5. /\ running \ {worker.requestId} \subseteq worker.bridges
      /\ worker.bridges \subseteq running \cup dropped
    BY <1>1 DEF Inv, BridgesServe, Working, New, Ending
<1> QED BY <1>1, <1>2, <1>3, <1>4, <1>5

(* Every step of the engine loop preserves the invariant. *)
LEMMA InvStep ==
    ASSUME Inv, [Next]_vars
    PROVE  Inv'
<1> SUFFICES ASSUME TypeOK, QueueSound, RoundsBounded, WorkerSound, BridgesServe, GateHeld,
                    StepSound, SeedSound, OpenBridges, CloseDone, Turn, EngineSurvives
             PROVE  Inv'
    BY DEF Inv
<1>a. /\ NoRequest \notin Request /\ running \subseteq Request /\ finishedIds \subseteq Request
      /\ Elements(waiting) \subseteq Request /\ dropped \subseteq Request
      /\ step.new \subseteq Request /\ step.cached \subseteq Request /\ step.finished \subseteq Request
      /\ worker \in WorkerRecord /\ worker.requestId \in Ids /\ worker.bridges \subseteq Request
      /\ DecodeSteps \in Nat \ {0} /\ MaxChunks \in Nat \ {0} /\ MaxRounds \in Nat \ {0}
      /\ credit \in 0..DecodeSteps
    BY RequestAssumption, LengthAssumption, NoElements DEF TypeOK, WorkerRecord
<1>b. /\ \A r \in Request : /\ length[r] \in Nat /\ length[r] <= MaxChunks
                            /\ prefilled[r] \in Nat /\ prefilled[r] <= MaxChunks
                            /\ rounds[r] \in Nat /\ rounds[r] <= MaxRounds
      /\ worker.capture \in Int /\ length \in [Request -> 0..MaxChunks]
    BY <1>a DEF TypeOK, WorkerRecord
<1>1. ASSUME NEW r \in Request, Arrive(r) PROVE Inv'
    <2>1. /\ phase = "between" /\ length[r] = 0 /\ length'[r] \in 1..MaxChunks
          /\ length' \in [Request -> 0..MaxChunks]
          /\ (\A q \in Request : q # r => length'[q] = length[q]) /\ running' = running
          /\ prefilled' = prefilled /\ rounds' = rounds /\ finishedIds' = finishedIds
          /\ streak' = streak /\ credit' = credit /\ lastChunk' = lastChunk
          /\ dropped' = dropped /\ phase' = phase /\ step' = step /\ route' = route
          /\ ended' = ended /\ worker' = worker /\ open' = open /\ pending' = pending
          /\ fault' = fault /\ shutdown' = shutdown
        BY <1>1 DEF Arrive, TypeOK
    <2>2. /\ r \notin Live \cup Ending /\ prefilled[r] = 0 /\ rounds[r] = 0
          /\ waiting' \in Seq(Request) /\ Distinct(waiting')
          /\ Elements(waiting') = Elements(waiting) \cup {r}
        <3>1. r \notin Live \cup Ending /\ prefilled[r] = 0 /\ rounds[r] = 0 /\ Distinct(waiting)
            BY <2>1 DEF QueueSound
        <3>2. waiting \in Seq(Request) /\ r \notin Elements(waiting)
            BY <3>1 DEF TypeOK, Live
        <3>3. waiting' = Append(waiting, r)
            BY <1>1 DEF Arrive
        <3> QED BY <2>1, <3>1, <3>2, <3>3, AppendElements
    <2>3. TypeOK'
        BY <1>a, <1>b, <2>1, <2>2 DEF TypeOK, WorkerRecord
    <2>4. QueueSound'
        BY <1>a, <1>b, <2>1, <2>2 DEF QueueSound, Ending, Live
    <2>5. RoundsBounded'
        BY <1>a, <1>b, <2>1, <2>2 DEF RoundsBounded, Live
    <2>6. WorkerSound'
        BY <1>a, <1>b, <2>1, <2>2 DEF WorkerSound, Working
    <2>7. BridgesServe'
        BY <1>a, <1>b, <2>1, <2>2 DEF BridgesServe, Working, New, Ending
    <2>8. GateHeld'
        BY <1>a, <1>b, <2>1, <2>2 DEF GateHeld, Working, New, Ending, Partials, ChunkStep, Live
    <2>9. StepSound'
        BY <1>a, <1>b, <2>1, <2>2 DEF StepSound, ChunkDue, DecodeDue, AdmissionDue, Decodes, Partials
    <2>10. SeedSound'
        BY <1>a, <1>b, <2>1, <2>2 DEF SeedSound
    <2>11. OpenBridges'
        BY <1>a, <1>b, <2>1, <2>2 DEF OpenBridges
    <2>12. CloseDone'
        BY <1>a, <1>b, <2>1, <2>2 DEF CloseDone
    <2>13. Turn'
        BY <1>a, <1>b, <2>1, <2>2 DEF Turn
    <2>14. EngineSurvives'
        BY <1>a, <1>b, <2>1, <2>2 DEF EngineSurvives
    <2> QED BY <2>3, <2>4, <2>5, <2>6, <2>7, <2>8, <2>9, <2>10, <2>11, <2>12, <2>13, <2>14 DEF Inv
<1>2. ASSUME NEW r \in Request, Abort(r) PROVE Inv'
    <2>1. /\ phase = "between" /\ r \in Live /\ waiting' = Without(waiting, {r})
          /\ running' = running \ {r} /\ finishedIds' = finishedIds \cup {r}
          /\ length' = length /\ prefilled' = prefilled /\ rounds' = rounds
          /\ streak' = streak /\ credit' = credit /\ lastChunk' = lastChunk
          /\ dropped' = dropped /\ phase' = phase /\ step' = step /\ route' = route
          /\ ended' = ended /\ worker' = worker /\ open' = open /\ pending' = pending
          /\ fault' = fault /\ shutdown' = shutdown
        BY <1>2 DEF Abort
    <2>2. /\ waiting' \in Seq(Request) /\ Elements(waiting') = Elements(waiting) \ {r}
          /\ Distinct(waiting') /\ pending = {} /\ ended = {}
        <3>1. waiting \in Seq(Request) /\ Distinct(waiting)
            BY DEF TypeOK, QueueSound
        <3>2. pending = {} /\ ended = {}
            BY <2>1 DEF SeedSound
        <3> QED BY <2>1, <3>1, <3>2, WithoutProperties
    <2>3. TypeOK'
        BY <1>a, <1>b, <2>1, <2>2 DEF TypeOK, WorkerRecord
    <2>4. QueueSound'
        BY <1>a, <1>b, <2>1, <2>2 DEF QueueSound, Ending, Live
    <2>5. RoundsBounded'
        BY <1>a, <1>b, <2>1, <2>2 DEF RoundsBounded, Live
    <2>6. WorkerSound'
        BY <1>a, <1>b, <2>1, <2>2 DEF WorkerSound, Working
    <2>7. BridgesServe'
        BY <1>a, <1>b, <2>1, <2>2 DEF BridgesServe, Working, New, Ending, Live
    <2>8. GateHeld'
        BY <1>a, <1>b, <2>1, <2>2 DEF GateHeld, Working, New, Ending, Partials, ChunkStep
    <2>9. StepSound'
        BY <1>a, <1>b, <2>1, <2>2 DEF StepSound, ChunkDue, DecodeDue, AdmissionDue, Decodes, Partials
    <2>10. SeedSound'
        BY <1>a, <1>b, <2>1, <2>2 DEF SeedSound
    <2>11. OpenBridges'
        BY <1>a, <1>b, <2>1, <2>2 DEF OpenBridges
    <2>12. CloseDone'
        BY <1>a, <1>b, <2>1, <2>2 DEF CloseDone
    <2>13. Turn'
        BY <1>a, <1>b, <2>1, <2>2 DEF Turn
    <2>14. EngineSurvives'
        BY <1>a, <1>b, <2>1, <2>2 DEF EngineSurvives
    <2> QED BY <2>3, <2>4, <2>5, <2>6, <2>7, <2>8, <2>9, <2>10, <2>11, <2>12, <2>13, <2>14 DEF Inv
<1>3. CASE ScheduleDecode
    <2>1. /\ phase = "between" /\ phase' = "execute" /\ step'.finished = finishedIds
          /\ finishedIds' = {}
          /\ step' \in [new : SUBSET Request, cached : SUBSET Request, finished : SUBSET Request]
          /\ step'.new = {} /\ step'.cached = Decodes /\ credit' \in 0..DecodeSteps
          /\ lastChunk' = NoRequest /\ waiting' = waiting /\ running' = running
          /\ length' = length /\ prefilled' = prefilled /\ rounds' = rounds
          /\ streak' = streak /\ dropped' = dropped /\ route' = route /\ ended' = ended
          /\ worker' = worker /\ open' = open /\ pending' = pending /\ fault' = fault
          /\ shutdown' = shutdown
        <3>1. credit' \in 0..DecodeSteps
            BY <1>3, <1>a DEF ScheduleDecode, YieldsDecode
        <3>2. Decodes \subseteq Request
            BY <1>a DEF Decodes
        <3> QED BY <1>3, <1>a, <3>1, <3>2 DEF ScheduleDecode, Scheduled
    <2>2. /\ worker.requestId \notin Decodes /\ Decodes' = Decodes
          /\ Decodes \subseteq running /\ pending = {} /\ ended = {}
        BY <1>3, <1>a, <1>b, <2>1 DEF GateHeld, Working, ChunkStep, Partials, Decodes, SeedSound
    <2>3. TypeOK'
        <3>1. /\ waiting' \in Seq(Request) /\ running' \subseteq Request /\ lastChunk' \in Ids
              /\ prefilled' \in [Request -> 0..MaxChunks] /\ dropped' \subseteq Request /\ streak' \in BOOLEAN
            BY <1>a, <2>1 DEF TypeOK, Ids
        <3> QED BY <2>1, <3>1, ScheduleTyped, Zenon
    <2>4. QueueSound'
        BY <1>a, <1>b, <2>1, <2>2 DEF QueueSound, Ending, Live
    <2>5. RoundsBounded'
        BY <1>a, <1>b, <2>1, <2>2 DEF RoundsBounded, Live
    <2>6. WorkerSound'
        BY <1>a, <1>b, <2>1, <2>2 DEF WorkerSound, Working
    <2>7. BridgesServe'
        BY <1>a, <1>b, <2>1, <2>2 DEF BridgesServe, Working, New, Ending
    <2>8. GateHeld'
        BY <1>a, <1>b, <2>1, <2>2 DEF GateHeld, Working, New, Ending, Partials, ChunkStep
    <2>9. StepSound'
        BY <2>1, <2>2 DEF StepSound, DecodeDue
    <2>10. SeedSound'
        BY <1>a, <1>b, <2>1, <2>2 DEF SeedSound
    <2>11. OpenBridges'
        BY <1>a, <1>b, <2>1, <2>2 DEF OpenBridges
    <2>12. CloseDone'
        BY <1>a, <1>b, <2>1, <2>2 DEF CloseDone
    <2>13. Turn'
        BY <1>a, <1>b, <2>1, <2>2 DEF Turn
    <2>14. EngineSurvives'
        BY <1>a, <1>b, <2>1, <2>2 DEF EngineSurvives
    <2> QED BY <2>3, <2>4, <2>5, <2>6, <2>7, <2>8, <2>9, <2>10, <2>11, <2>12, <2>13, <2>14 DEF Inv
<1>4. CASE ScheduleFallback
    <2>1. /\ phase = "between" /\ phase' = "execute" /\ finishedIds' = {}
          /\ step' \in [new : SUBSET Request, cached : SUBSET Request, finished : SUBSET Request]
          /\ step'.new = {} /\ step'.cached = Decodes /\ step'.finished = Carried
          /\ Carried \subseteq finishedIds
          /\ dropped' = dropped \cup ((finishedIds \ Carried) \cap Tracked)
          /\ dropped' \subseteq Request /\ streak' /\ streak' \in BOOLEAN /\ credit' = 0
          /\ credit' \in 0..DecodeSteps /\ lastChunk' = NoRequest /\ waiting' = waiting
          /\ running' = running /\ length' = length /\ prefilled' = prefilled
          /\ rounds' = rounds /\ route' = route /\ ended' = ended /\ worker' = worker
          /\ open' = open /\ pending' = pending /\ fault' = fault /\ shutdown' = shutdown
        <3>1. Carried \subseteq finishedIds
            BY DEF Carried
        <3>2. Decodes \subseteq Request
            BY <1>a DEF Decodes
        <3> QED BY <1>4, <1>a, <3>1, <3>2 DEF ScheduleFallback, Scheduled
    <2>2. /\ worker.requestId \notin Decodes /\ Decodes' = Decodes
          /\ Decodes \subseteq running /\ pending = {} /\ ended = {}
          /\ Tracked = worker.bridges \cup {worker.requestId}
        BY <1>4, <1>a, <1>b, <2>1 DEF GateHeld, Working, ChunkStep, Partials, Decodes, SeedSound, Tracked
    <2>3. TypeOK'
        <3>1. /\ waiting' \in Seq(Request) /\ running' \subseteq Request /\ lastChunk' \in Ids
              /\ prefilled' \in [Request -> 0..MaxChunks] /\ dropped' \subseteq Request /\ streak' \in BOOLEAN
            BY <1>a, <2>1 DEF TypeOK, Ids
        <3> QED BY <2>1, <3>1, ScheduleTyped, Zenon
    <2>4. QueueSound'
        BY <1>a, <1>b, <2>1, <2>2 DEF QueueSound, Ending, Live
    <2>5. RoundsBounded'
        BY <1>a, <1>b, <2>1, <2>2 DEF RoundsBounded, Live
    <2>6. WorkerSound'
        BY <1>a, <1>b, <2>1, <2>2 DEF WorkerSound, Working
    <2>7. BridgesServe'
        BY <1>a, <1>b, <2>1, <2>2 DEF BridgesServe, Working, New, Ending
    <2>8. GateHeld'
        BY <1>a, <1>b, <2>1, <2>2 DEF GateHeld, Working, New, Ending, Partials, ChunkStep
    <2>9. StepSound'
        BY <2>1, <2>2 DEF StepSound, DecodeDue
    <2>10. SeedSound'
        BY <1>a, <1>b, <2>1, <2>2 DEF SeedSound
    <2>11. OpenBridges'
        BY <1>a, <1>b, <2>1, <2>2 DEF OpenBridges
    <2>12. CloseDone'
        BY <1>a, <1>b, <2>1, <2>2 DEF CloseDone
    <2>13. Turn'
        BY <1>a, <1>b, <2>1, <2>2 DEF Turn
    <2>14. EngineSurvives'
        BY <1>a, <1>b, <2>1, <2>2 DEF EngineSurvives
    <2> QED BY <2>3, <2>4, <2>5, <2>6, <2>7, <2>8, <2>9, <2>10, <2>11, <2>12, <2>13, <2>14 DEF Inv
<1>5. ASSUME NEW h \in Request, h = Head(waiting), SchedulePrefill, Fresh # {} PROVE Inv'
    <2>1. /\ phase = "between" /\ phase' = "execute" /\ step'.finished = finishedIds
          /\ finishedIds' = {}
          /\ step' \in [new : SUBSET Request, cached : SUBSET Request, finished : SUBSET Request]
          /\ step'.new = {h} /\ step'.cached = {} /\ running' = running \cup {h}
          /\ Partials = {} /\ worker.requestId = NoRequest /\ waiting # <<>>
          /\ (prefilled' = [r \in Request |-> prefilled[r] + (IF r = h THEN 1 ELSE 0)])
          /\ streak' /\ streak' \in BOOLEAN /\ credit' = 0 /\ credit' \in 0..DecodeSteps
          /\ lastChunk' = h /\ length' = length /\ rounds' = rounds /\ dropped' = dropped
          /\ route' = route /\ ended' = ended /\ worker' = worker /\ open' = open
          /\ pending' = pending /\ fault' = fault /\ shutdown' = shutdown
        <3>1. Partials = {} /\ worker.requestId = NoRequest /\ waiting # <<>> /\ Fresh = {h}
            BY <1>5 DEF Fresh, Hidden
        <3>2. h \in Request
            BY <1>5
        <3>3. lastChunk' = h
            BY <1>5, <3>1, <3>2 DEF SchedulePrefill
        <3>4. prefilled' = [r \in Request |-> prefilled[r] + (IF r = h THEN 1 ELSE 0)]
            <4>1. prefilled' = [r \in Request |-> prefilled[r] + (IF r \in {h} THEN 1 ELSE 0)]
                BY <1>5, <3>1 DEF SchedulePrefill
            <4> QED BY <4>1
        <3>5. step' = [new |-> {h}, cached |-> {}, finished |-> finishedIds]
            BY <1>5, <3>1 DEF SchedulePrefill, Scheduled
        <3> QED BY <1>5, <1>a, <3>1, <3>2, <3>3, <3>4, <3>5, SMTT(20) DEF SchedulePrefill, Scheduled
    <2>2. /\ h \in Request /\ waiting' \in Seq(Request) /\ Distinct(waiting')
          /\ Elements(waiting) = Elements(waiting') \cup {h} /\ h \notin Elements(waiting')
          /\ prefilled[h] = 0 /\ length[h] # 0 /\ pending = {} /\ ended = {}
          /\ h \notin Ending /\ h \notin running
        <3>1. waiting \in Seq(Request) /\ Distinct(waiting)
            BY DEF TypeOK, QueueSound
        <3>2. /\ h \in Request /\ waiting' \in Seq(Request) /\ Distinct(waiting')
              /\ Elements(waiting) = Elements(waiting') \cup {h}
              /\ h \notin Elements(waiting')
            BY <1>5, <2>1, <3>1, HeadAndTail DEF SchedulePrefill
        <3>3. h \in Elements(waiting)
            BY <3>2
        <3>4. /\ prefilled[h] = 0 /\ length[h] # 0
              /\ h \notin Ending /\ h \notin running
            BY <3>2, <3>3 DEF QueueSound, Live
        <3>5. pending = {} /\ ended = {}
            BY <2>1 DEF SeedSound
        <3> QED BY <3>2, <3>4, <3>5
    <2>3. TypeOK'
        <3>1. \A r \in Request : prefilled[r] + (IF r = h THEN 1 ELSE 0) \in 0..MaxChunks
            BY <1>a, <1>b, <2>1, <2>2
        <3>2. prefilled' \in [Request -> 0..MaxChunks]
            BY <2>1, <3>1
        <3> QED BY <1>a, <1>b, <2>1, <2>2, <3>2 DEF TypeOK, WorkerRecord, Ids
    <2>4. QueueSound'
        BY <1>a, <1>b, <2>1, <2>2 DEF QueueSound, Ending, Live
    <2>5. RoundsBounded'
        BY <1>a, <1>b, <2>1, <2>2 DEF RoundsBounded, Live
    <2>6. WorkerSound'
        BY <1>a, <1>b, <2>1, <2>2 DEF WorkerSound, Working
    <2>7. BridgesServe'
        BY <1>a, <1>b, <2>1, <2>2 DEF BridgesServe, Working, New, Ending
    <2>8. GateHeld'
        BY <1>a, <1>b, <2>1, <2>2 DEF GateHeld, Working, New, Ending, Partials, ChunkStep
    <2>9. StepSound'
        <3>1. AdmissionDue(h)'
            BY <1>a, <2>1, <2>2 DEF AdmissionDue
        <3> QED BY <2>1, <2>2, <3>1 DEF StepSound
    <2>10. SeedSound'
        BY <1>a, <1>b, <2>1, <2>2 DEF SeedSound
    <2>11. OpenBridges'
        BY <1>a, <1>b, <2>1, <2>2 DEF OpenBridges
    <2>12. CloseDone'
        BY <1>a, <1>b, <2>1, <2>2 DEF CloseDone
    <2>13. Turn'
        BY <1>a, <1>b, <2>1, <2>2 DEF Turn
    <2>14. EngineSurvives'
        BY <1>a, <1>b, <2>1, <2>2 DEF EngineSurvives
    <2> QED BY <2>3, <2>4, <2>5, <2>6, <2>7, <2>8, <2>9, <2>10, <2>11, <2>12, <2>13, <2>14 DEF Inv
<1>6. CASE SchedulePrefill /\ Fresh # {}
    <2>1. waiting # <<>> /\ waiting \in Seq(Request)
        BY <1>6 DEF Fresh, TypeOK
    <2>2. Head(waiting) \in Request
        BY <2>1, HeadAndTail
    <2> QED BY <1>6, <1>5, <2>2
<1>7. CASE SchedulePrefill /\ Fresh = {} /\ Partials # {}
    <2>1. /\ phase = "between" /\ phase' = "execute" /\ step'.finished = finishedIds
          /\ finishedIds' = {}
          /\ step' \in [new : SUBSET Request, cached : SUBSET Request, finished : SUBSET Request]
          /\ step'.new = {} /\ step'.cached = {worker.requestId}
          /\ worker.requestId \in running
          /\ prefilled[worker.requestId] < length[worker.requestId]
          /\ Partials = {worker.requestId}
          /\ (prefilled' = [r \in Request |-> prefilled[r] + (IF r = worker.requestId THEN 1 ELSE 0)])
          /\ streak' /\ streak' \in BOOLEAN /\ credit' = 0 /\ credit' \in 0..DecodeSteps
          /\ lastChunk' = worker.requestId /\ waiting' = waiting /\ running' = running
          /\ length' = length /\ rounds' = rounds /\ dropped' = dropped /\ route' = route
          /\ ended' = ended /\ worker' = worker /\ open' = open /\ pending' = pending
          /\ fault' = fault /\ shutdown' = shutdown
        <3>1. phase = "between"
            BY <1>7 DEF SchedulePrefill
        <3>2. Partials \subseteq {worker.requestId} \cup New /\ New = {}
            BY <3>1 DEF GateHeld, Working, New
        <3>3. Partials = {worker.requestId}
            BY <1>7, <3>2
        <3>4. worker.requestId \in running /\ prefilled[worker.requestId] < length[worker.requestId]
            BY <3>3 DEF Partials
        <3>5. lastChunk' = worker.requestId
            BY <1>7, <1>a, <3>3, <3>4 DEF SchedulePrefill
        <3> QED BY <1>7, <1>a, <3>3, <3>4, <3>5 DEF SchedulePrefill, Scheduled
    <2>2. /\ pending = {} /\ ended = {}
        BY <1>7, <1>a, <1>b, <2>1 DEF SeedSound
    <2>3. TypeOK'
        <3>1. \A r \in Request : prefilled[r] + (IF r = worker.requestId THEN 1 ELSE 0) \in 0..MaxChunks
            BY <1>a, <1>b, <2>1, <2>2
        <3>2. prefilled' \in [Request -> 0..MaxChunks]
            BY <2>1, <3>1
        <3>3. /\ waiting' \in Seq(Request) /\ running' \subseteq Request /\ lastChunk' \in Ids
              /\ dropped' \subseteq Request
            BY <1>a, <2>1 DEF TypeOK, Ids
        <3> QED BY <2>1, <3>2, <3>3, ScheduleTyped, Zenon
    <2>4. QueueSound'
        BY <1>a, <1>b, <2>1, <2>2 DEF QueueSound, Ending, Live
    <2>5. RoundsBounded'
        BY <1>a, <1>b, <2>1, <2>2 DEF RoundsBounded, Live
    <2>6. WorkerSound'
        BY <1>a, <1>b, <2>1, <2>2 DEF WorkerSound, Working
    <2>7. BridgesServe'
        BY <1>a, <1>b, <2>1, <2>2 DEF BridgesServe, Working, New, Ending
    <2>8. GateHeld'
        BY <1>a, <1>b, <2>1, <2>2 DEF GateHeld, Working, New, Ending, Partials, ChunkStep
    <2>9. StepSound'
        BY <1>a, <1>b, <2>1, <2>2 DEF StepSound, ChunkDue, DecodeDue, AdmissionDue, Decodes, Partials
    <2>10. SeedSound'
        BY <1>a, <1>b, <2>1, <2>2 DEF SeedSound
    <2>11. OpenBridges'
        BY <1>a, <1>b, <2>1, <2>2 DEF OpenBridges
    <2>12. CloseDone'
        BY <1>a, <1>b, <2>1, <2>2 DEF CloseDone
    <2>13. Turn'
        BY <1>a, <1>b, <2>1, <2>2 DEF Turn
    <2>14. EngineSurvives'
        BY <1>a, <1>b, <2>1, <2>2 DEF EngineSurvives
    <2> QED BY <2>3, <2>4, <2>5, <2>6, <2>7, <2>8, <2>9, <2>10, <2>11, <2>12, <2>13, <2>14 DEF Inv
<1>8. CASE SchedulePrefill /\ Fresh = {} /\ Partials = {}
    <2>1. /\ phase = "between" /\ phase' = "execute" /\ step'.finished = finishedIds
          /\ finishedIds' = {}
          /\ step' \in [new : SUBSET Request, cached : SUBSET Request, finished : SUBSET Request]
          /\ step'.new = {} /\ step'.cached = {} /\ running = {} /\ prefilled' = prefilled
          /\ streak' /\ streak' \in BOOLEAN /\ credit' = 0 /\ credit' \in 0..DecodeSteps
          /\ lastChunk' = NoRequest /\ waiting' = waiting /\ running' = running
          /\ length' = length /\ rounds' = rounds /\ dropped' = dropped /\ route' = route
          /\ ended' = ended /\ worker' = worker /\ open' = open /\ pending' = pending
          /\ fault' = fault /\ shutdown' = shutdown
        <3>1. Decodes = {} /\ running = {}
            BY <1>8 DEF SchedulePrefill, PassDiscarded, Decodes
        <3>2. /\ prefilled' = [r \in Request |-> prefilled[r] + 0] /\ lastChunk' = NoRequest
              /\ waiting' = waiting /\ running' = running
            BY <1>8 DEF SchedulePrefill
        <3>3. prefilled' = prefilled
            BY <1>b, <3>2 DEF TypeOK
        <3> QED BY <1>8, <1>a, <3>1, <3>2, <3>3 DEF SchedulePrefill, Scheduled
    <2>2. /\ pending = {} /\ ended = {} /\ worker.requestId \notin running
        BY <1>8, <1>a, <1>b, <2>1 DEF SeedSound
    <2>3. TypeOK'
        <3>1. /\ waiting' \in Seq(Request) /\ running' \subseteq Request /\ lastChunk' \in Ids
              /\ prefilled' \in [Request -> 0..MaxChunks] /\ dropped' \subseteq Request /\ streak' \in BOOLEAN
            BY <1>a, <2>1 DEF TypeOK, Ids
        <3> QED BY <2>1, <3>1, ScheduleTyped, Zenon
    <2>4. QueueSound'
        BY <1>a, <1>b, <2>1, <2>2 DEF QueueSound, Ending, Live
    <2>5. RoundsBounded'
        BY <1>a, <1>b, <2>1, <2>2 DEF RoundsBounded, Live
    <2>6. WorkerSound'
        BY <1>a, <1>b, <2>1, <2>2 DEF WorkerSound, Working
    <2>7. BridgesServe'
        BY <1>a, <1>b, <2>1, <2>2 DEF BridgesServe, Working, New, Ending
    <2>8. GateHeld'
        BY <1>a, <1>b, <2>1, <2>2 DEF GateHeld, Working, New, Ending, Partials, ChunkStep
    <2>9. StepSound'
        BY <1>a, <1>b, <2>1, <2>2 DEF StepSound, ChunkDue, DecodeDue, AdmissionDue, Decodes, Partials
    <2>10. SeedSound'
        BY <1>a, <1>b, <2>1, <2>2 DEF SeedSound
    <2>11. OpenBridges'
        BY <1>a, <1>b, <2>1, <2>2 DEF OpenBridges
    <2>12. CloseDone'
        BY <1>a, <1>b, <2>1, <2>2 DEF CloseDone
    <2>13. Turn'
        BY <1>a, <1>b, <2>1, <2>2 DEF Turn
    <2>14. EngineSurvives'
        BY <1>a, <1>b, <2>1, <2>2 DEF EngineSurvives
    <2> QED BY <2>3, <2>4, <2>5, <2>6, <2>7, <2>8, <2>9, <2>10, <2>11, <2>12, <2>13, <2>14 DEF Inv
<1>9. ASSUME NEW h \in Request, AdmissionDue(h), NEW refused \in BOOLEAN, ExecuteAdmission,
             worker' = AfterChunk(Admitted(Settled, h, refused))
      PROVE  Inv'
    <2>0. /\ phase = "execute" /\ Settled \in WorkerRecord /\ Sound(Settled)
          /\ SettledFields(worker, step.finished, Settled)
          /\ ClosedBySettling = worker.bridges \cap step.finished
          /\ finishedIds = {} /\ pending = {} /\ ended = {} /\ ~worker.prefillPending
          /\ step.cached \subseteq running /\ running \cap step.finished = {}
        <3>1. phase = "execute"
            BY <1>9 DEF Executing, ExecuteRefused, DetachFails, ExecuteAdmission, ContinuePrefill,
                      ExecuteDecode, RefuseRound, ExecuteOriginal, ExecuteFails
        <3> QED BY <3>1, ClosesFinished, Executes
    <2>1. /\ phase' = "sample" /\ pending' = {} /\ route' \in Routes
          /\ open' = open \ (worker.bridges \cap step.finished) /\ worker'.requestId = h
          /\ worker'.capture = 1 /\ worker'.bridges = worker.bridges \ step.finished
          /\ worker' \in WorkerRecord /\ (worker'.prefillPending <=> 1 = length[h])
          /\ (worker'.chunkInFlight <=> ~worker'.prefillPending)
          /\ worker'.failed = worker.failed /\ Sound(worker') /\ waiting' = waiting
          /\ running' = running /\ length' = length /\ prefilled' = prefilled
          /\ rounds' = rounds /\ finishedIds' = finishedIds /\ streak' = streak
          /\ credit' = credit /\ lastChunk' = lastChunk /\ dropped' = dropped /\ step' = step
          /\ ended' = ended /\ fault' = fault /\ shutdown' = shutdown
        <3>1. h \in running /\ step.new = {h} /\ prefilled[h] = 1 /\ h \notin worker.bridges /\ 1 <= length[h]
            BY <1>9, <2>0 DEF AdmissionDue, BridgesServe, Working, New, QueueSound
        <3> DEFINE w == Admitted(Settled, h, refused)
        <3>2. /\ w \in WorkerRecord /\ w.requestId = h /\ w.capture = 0 /\ w.chunkInFlight = FALSE
              /\ w.bridges = Settled.bridges /\ w.decodingIds = Settled.decodingIds
              /\ w.hook = Settled.hook /\ w.decodingId = Settled.decodingId
              /\ w.prefillPending = Settled.prefillPending /\ w.failed = Settled.failed
            <4>1. Settled \in WorkerRecord /\ refused \in BOOLEAN /\ h \in Request
                BY <1>9, <2>0
            <4> QED BY <4>1, AdmittedTyped, Zenon
        <3> HIDE DEF w
        <3>3. /\ w.bridges = worker.bridges \ step.finished /\ w.prefillPending = FALSE
              /\ w.failed = worker.failed
            BY <2>0, <3>2 DEF SettledFields, WorkerRecord
        <3>4. Sound(w)
            BY <1>a, <2>0, <3>1, <3>2, <3>3 DEF Sound, NoCapture
        <3>5. worker' = AfterChunk(w) /\ w.requestId \in Request /\ w.capture + 1 <= length[w.requestId]
            BY <1>9, <3>1, <3>2 DEF w
        <3>6. /\ worker' \in WorkerRecord /\ Sound(worker') /\ worker'.requestId = h
              /\ worker'.capture = 1 /\ worker'.bridges = w.bridges
              /\ worker'.prefillPending <=> 1 = length[h]
              /\ worker'.chunkInFlight <=> ~worker'.prefillPending
              /\ worker'.failed = w.failed
            <4>1. w.capture \in Nat /\ w.capture + 1 = 1
                BY <3>2
            <4> QED BY <1>b, <3>2, <3>3, <3>4, <3>5, <4>1, AfterChunkEffect
        <3> QED BY <1>9, <2>0, <3>3, <3>6, RouteTyped DEF ExecuteAdmission, ExecuteEnds
    <2>2. /\ h \in running /\ step.new = {h} /\ step.cached = {}
          /\ worker.requestId = NoRequest /\ prefilled[h] = 1 /\ 1 <= length[h]
          /\ worker'.prefillPending \in BOOLEAN
        <3>1. h \in running /\ step.new = {h} /\ step.cached = {} /\ worker.requestId = NoRequest /\ prefilled[h] = 1
            BY <1>9 DEF AdmissionDue
        <3>2. 1 <= length[h]
            BY <3>1 DEF QueueSound
        <3> QED BY <2>1, <3>1, <3>2 DEF WorkerRecord
    <2>3. TypeOK'
        BY <1>a, <1>b, <2>1, <2>2, <2>0 DEF TypeOK, WorkerRecord
    <2>4. QueueSound'
        BY <1>a, <1>b, <2>1, <2>2 DEF QueueSound, Ending, Live
    <2>5. RoundsBounded'
        BY <1>a, <1>b, <2>1, <2>2, <2>0 DEF RoundsBounded, Live
    <2>6. WorkerSound'
        BY <1>a, <1>b, <2>1, <2>2 DEF WorkerSound, Working
    <2>7. BridgesServe'
        BY <1>a, <1>b, <2>1, <2>2, <2>0 DEF BridgesServe, Working, New, Ending
    <2>8. GateHeld'
        BY <1>a, <1>b, <2>1, <2>2, <2>0 DEF GateHeld, Working, New, Ending, Partials, ChunkStep
    <2>9. StepSound'
        BY <1>a, <1>b, <2>1, <2>2, <2>0 DEF StepSound, ChunkDue, DecodeDue, AdmissionDue, Decodes, Partials
    <2>10. SeedSound'
        BY <1>a, <1>b, <2>1, <2>2, <2>0 DEF SeedSound
    <2>11. OpenBridges'
        BY <1>a, <1>b, <2>1, <2>2, <2>0 DEF OpenBridges
    <2>12. CloseDone'
        BY <1>a, <1>b, <2>1, <2>2, <2>0 DEF CloseDone
    <2>13. Turn'
        BY <1>a, <1>b, <2>1, <2>2 DEF Turn
    <2>14. EngineSurvives'
        BY <1>a, <1>b, <2>1, <2>2 DEF EngineSurvives
    <2> QED BY <2>3, <2>4, <2>5, <2>6, <2>7, <2>8, <2>9, <2>10, <2>11, <2>12, <2>13, <2>14 DEF Inv
<1>10. CASE ExecuteAdmission
    <2>1. phase = "execute" /\ Route(Settled) = "admit"
        BY <1>10 DEF ExecuteAdmission, Executing
    <2>2. PICK h \in Request : AdmissionDue(h)
        BY <2>1, RouteIsExpected
    <2>3. step.new = {h}
        BY <2>2 DEF AdmissionDue
    <2>4. PICK refused \in BOOLEAN : worker' = AfterChunk(Admitted(Settled, h, refused))
        BY <1>10, <2>3 DEF ExecuteAdmission
    <2> QED BY <1>10, <1>9, <2>2, <2>4
<1>11. CASE ContinuePrefill
    <2>0. /\ phase = "execute" /\ Settled \in WorkerRecord /\ Sound(Settled)
          /\ SettledFields(worker, step.finished, Settled)
          /\ ClosedBySettling = worker.bridges \cap step.finished
          /\ finishedIds = {} /\ pending = {} /\ ended = {} /\ ~worker.prefillPending
          /\ step.cached \subseteq running /\ running \cap step.finished = {}
        <3>1. phase = "execute"
            BY <1>11 DEF Executing, ExecuteRefused, DetachFails, ExecuteAdmission, ContinuePrefill,
                      ExecuteDecode, RefuseRound, ExecuteOriginal, ExecuteFails
        <3> QED BY <3>1, ClosesFinished, Executes
    <2>a. /\ step.new = {} /\ step.cached = {worker.requestId} /\ worker.requestId \in running
          /\ worker.capture = prefilled[worker.requestId] - 1 /\ worker.capture < length[worker.requestId]
          /\ worker.capture \in Nat
        <3>1. ChunkDue
            BY <1>11, <2>0, RouteIsExpected DEF ContinuePrefill, Executing
        <3>2. ChunkStep /\ worker.requestId \in running
            BY <2>0, <3>1 DEF ChunkDue, ChunkStep
        <3>3. prefilled[worker.requestId] \in Nat /\ prefilled[worker.requestId] >= 1
            BY <1>a, <1>b, <3>2 DEF QueueSound
        <3>4. worker.capture = prefilled[worker.requestId] - 1 /\ worker.capture < length[worker.requestId]
            BY <2>0, <3>2 DEF GateHeld, Working
        <3> QED BY <3>1, <3>2, <3>3, <3>4 DEF ChunkDue
    <2>1. /\ phase' = "sample" /\ pending' = {} /\ route' \in Routes
          /\ open' = open \ (worker.bridges \cap step.finished)
          /\ worker'.requestId = worker.requestId /\ worker'.capture = worker.capture + 1
          /\ worker'.bridges = worker.bridges \ step.finished /\ worker' \in WorkerRecord
          /\ (worker'.prefillPending <=> worker.capture + 1 = length[worker.requestId])
          /\ (worker'.chunkInFlight <=> ~worker'.prefillPending)
          /\ worker'.failed = worker.failed /\ Sound(worker') /\ waiting' = waiting
          /\ running' = running /\ length' = length /\ prefilled' = prefilled
          /\ rounds' = rounds /\ finishedIds' = finishedIds /\ streak' = streak
          /\ credit' = credit /\ lastChunk' = lastChunk /\ dropped' = dropped /\ step' = step
          /\ ended' = ended /\ fault' = fault /\ shutdown' = shutdown
        <3> DEFINE w == Settled
        <3>1. /\ w \in WorkerRecord /\ Sound(w) /\ w.bridges = worker.bridges \ step.finished
              /\ w.requestId = worker.requestId /\ w.capture = worker.capture
              /\ w.prefillPending = FALSE /\ w.failed = worker.failed
            BY <2>0, <2>a DEF SettledFields, WorkerRecord
        <3> HIDE DEF w
        <3>2. worker' = AfterChunk(w) /\ w.requestId \in Request /\ w.capture + 1 <= length[w.requestId]
            BY <1>11, <1>a, <1>b, <2>a, <3>1 DEF ContinuePrefill, w
        <3>3. /\ worker' \in WorkerRecord /\ Sound(worker') /\ worker'.requestId = w.requestId
              /\ worker'.capture = w.capture + 1 /\ worker'.bridges = w.bridges
              /\ worker'.prefillPending <=> w.capture + 1 = length[w.requestId]
              /\ worker'.chunkInFlight <=> ~worker'.prefillPending
              /\ worker'.failed = w.failed
            BY <1>a, <1>b, <2>a, <3>1, <3>2, AfterChunkEffect
        <3> QED BY <1>11, <2>0, <3>1, <3>3, RouteTyped DEF ContinuePrefill, ExecuteEnds
    <2>3. TypeOK'
        BY <1>a, <1>b, <2>1, <2>0, <2>a DEF TypeOK, WorkerRecord
    <2>4. QueueSound'
        BY <1>a, <1>b, <2>1 DEF QueueSound, Ending, Live
    <2>5. RoundsBounded'
        BY <1>a, <1>b, <2>1, <2>0, <2>a DEF RoundsBounded, Live
    <2>6. WorkerSound'
        BY <1>a, <1>b, <2>1 DEF WorkerSound, Working
    <2>7. BridgesServe'
        BY <1>a, <1>b, <2>1, <2>0, <2>a DEF BridgesServe, Working, New, Ending
    <2>8. GateHeld'
        BY <1>a, <1>b, <2>1, <2>0, <2>a DEF GateHeld, Working, New, Ending, Partials, ChunkStep
    <2>9. StepSound'
        BY <1>a, <1>b, <2>1, <2>0, <2>a DEF StepSound, ChunkDue, DecodeDue, AdmissionDue, Decodes, Partials
    <2>10. SeedSound'
        BY <1>a, <1>b, <2>1, <2>0, <2>a DEF SeedSound
    <2>11. OpenBridges'
        BY <1>a, <1>b, <2>1, <2>0, <2>a DEF OpenBridges
    <2>12. CloseDone'
        BY <1>a, <1>b, <2>1, <2>0, <2>a DEF CloseDone
    <2>13. Turn'
        BY <1>a, <1>b, <2>1 DEF Turn
    <2>14. EngineSurvives'
        BY <1>a, <1>b, <2>1 DEF EngineSurvives
    <2> QED BY <2>3, <2>4, <2>5, <2>6, <2>7, <2>8, <2>9, <2>10, <2>11, <2>12, <2>13, <2>14 DEF Inv
<1>12. CASE ExecuteDecode
    <2>0. /\ phase = "execute" /\ Settled \in WorkerRecord /\ Sound(Settled)
          /\ SettledFields(worker, step.finished, Settled)
          /\ ClosedBySettling = worker.bridges \cap step.finished
          /\ finishedIds = {} /\ pending = {} /\ ended = {} /\ ~worker.prefillPending
          /\ step.cached \subseteq running /\ running \cap step.finished = {}
        <3>1. phase = "execute"
            BY <1>12 DEF Executing, ExecuteRefused, DetachFails, ExecuteAdmission, ContinuePrefill,
                      ExecuteDecode, RefuseRound, ExecuteOriginal, ExecuteFails
        <3> QED BY <3>1, ClosesFinished, Executes
    <2>a. /\ step.new = {} /\ step.cached = Decodes /\ worker.requestId \notin Decodes
        <3>1. DecodeDue
            BY <1>12, <2>0, RouteIsExpected DEF ExecuteDecode, Executing
        <3> QED BY <3>1 DEF DecodeDue
    <2>1. /\ phase' = "update" /\ open' = open \ (worker.bridges \cap step.finished)
          /\ pending' = {} /\ route' = "decode"
          /\ (rounds' = [r \in Request |-> rounds[r] + (IF r \in step.cached THEN 1 ELSE 0)])
          /\ (worker'.requestId = IF worker.requestId \in step.finished THEN NoRequest ELSE worker.requestId)
          /\ (worker'.capture = IF worker.requestId \in step.finished THEN NoCapture ELSE worker.capture)
          /\ worker'.bridges = worker.bridges \ step.finished /\ worker' \in WorkerRecord
          /\ worker'.prefillPending = FALSE /\ worker'.failed = worker.failed
          /\ Sound(worker') /\ waiting' = waiting /\ running' = running /\ length' = length
          /\ prefilled' = prefilled /\ finishedIds' = finishedIds /\ streak' = streak
          /\ credit' = credit /\ lastChunk' = lastChunk /\ dropped' = dropped /\ step' = step
          /\ ended' = ended /\ fault' = fault /\ shutdown' = shutdown
        <3>1. worker' = Settled
            BY <1>12 DEF ExecuteDecode
        <3>2. /\ worker' \in WorkerRecord /\ Sound(worker') /\ SettledFields(worker, step.finished, worker')
            BY <2>0, <3>1
        <3> QED BY <1>12, <2>0, <3>2, RouteTyped DEF ExecuteDecode, ExecuteEnds, SettledFields, WorkerRecord, Executing
    <2>3. TypeOK'
        <3>1. rounds' \in [Request -> 0..MaxRounds]
            <4>1. \A r \in running : rounds[r] < MaxRounds
                BY <2>0 DEF RoundsBounded, Live
            <4>2. \A r \in Request : rounds[r] + (IF r \in step.cached THEN 1 ELSE 0) \in 0..MaxRounds
                BY <1>a, <1>b, <2>0, <4>1
            <4> QED BY <2>1, <4>2
        <3> QED BY <1>a, <1>b, <2>0, <2>1, <3>1 DEF TypeOK, WorkerRecord, Routes
    <2>4. QueueSound'
        BY <1>a, <1>b, <2>1, <2>0 DEF QueueSound, Ending, Live
    <2>5. RoundsBounded'
        BY <1>a, <1>b, <2>1, <2>0, <2>a DEF RoundsBounded, Live
    <2>6. WorkerSound'
        BY <1>a, <1>b, <2>1 DEF WorkerSound, Working
    <2>7. BridgesServe'
        BY <1>a, <1>b, <2>1, <2>0, <2>a DEF BridgesServe, Working, New, Ending
    <2>8. GateHeld'
        BY <1>a, <1>b, <2>1, <2>0, <2>a DEF GateHeld, Working, New, Ending, Partials, ChunkStep, Decodes
    <2>9. StepSound'
        BY <1>a, <1>b, <2>1, <2>0, <2>a DEF StepSound, ChunkDue, DecodeDue, AdmissionDue, Decodes, Partials
    <2>10. SeedSound'
        BY <1>a, <1>b, <2>1, <2>0, <2>a DEF SeedSound
    <2>11. OpenBridges'
        BY <1>a, <1>b, <2>1, <2>0, <2>a DEF OpenBridges
    <2>12. CloseDone'
        BY <1>a, <1>b, <2>1, <2>0, <2>a DEF CloseDone
    <2>13. Turn'
        BY <1>a, <1>b, <2>1 DEF Turn
    <2>14. EngineSurvives'
        BY <1>a, <1>b, <2>1 DEF EngineSurvives
    <2> QED BY <2>3, <2>4, <2>5, <2>6, <2>7, <2>8, <2>9, <2>10, <2>11, <2>12, <2>13, <2>14 DEF Inv
<1>13. CASE RefuseRound
    <2>0. /\ phase = "execute" /\ Settled \in WorkerRecord /\ Sound(Settled)
          /\ SettledFields(worker, step.finished, Settled)
          /\ ClosedBySettling = worker.bridges \cap step.finished
          /\ finishedIds = {} /\ pending = {} /\ ended = {} /\ ~worker.prefillPending
          /\ step.cached \subseteq running /\ running \cap step.finished = {}
        <3>1. phase = "execute"
            BY <1>13 DEF Executing, ExecuteRefused, DetachFails, ExecuteAdmission, ContinuePrefill,
                      ExecuteDecode, RefuseRound, ExecuteOriginal, ExecuteFails
        <3> QED BY <3>1, ClosesFinished, Executes
    <2>a. /\ step.new = {} /\ step.cached = Decodes /\ worker.requestId \notin Decodes
        <3>1. DecodeDue
            BY <1>13, <2>0, RouteIsExpected DEF RefuseRound, Executing
        <3> QED BY <3>1 DEF DecodeDue
    <2>1. /\ phase' = "update" /\ open' = open \ (worker.bridges \cap step.finished)
          /\ pending' = step.cached /\ route' = "roundRefused"
          /\ (worker'.requestId = IF worker.requestId \in step.finished THEN NoRequest ELSE worker.requestId)
          /\ (worker'.capture = IF worker.requestId \in step.finished THEN NoCapture ELSE worker.capture)
          /\ worker'.bridges = worker.bridges \ step.finished /\ worker' \in WorkerRecord
          /\ worker'.prefillPending = FALSE /\ worker'.failed = worker.failed
          /\ Sound(worker') /\ waiting' = waiting /\ running' = running /\ length' = length
          /\ prefilled' = prefilled /\ rounds' = rounds /\ finishedIds' = finishedIds
          /\ streak' = streak /\ credit' = credit /\ lastChunk' = lastChunk
          /\ dropped' = dropped /\ step' = step /\ ended' = ended /\ fault' = fault
          /\ shutdown' = shutdown
        <3>1. worker' = Settled
            BY <1>13 DEF RefuseRound
        <3>2. /\ worker' \in WorkerRecord /\ Sound(worker') /\ SettledFields(worker, step.finished, worker')
            BY <2>0, <3>1
        <3> QED BY <1>13, <2>0, <3>2, RouteTyped DEF RefuseRound, ExecuteEnds, SettledFields, WorkerRecord, Executing
    <2>3. TypeOK'
        BY <1>a, <1>b, <2>1, <2>0, <2>a DEF TypeOK, WorkerRecord, Routes
    <2>4. QueueSound'
        BY <1>a, <1>b, <2>1, <2>0 DEF QueueSound, Ending, Live
    <2>5. RoundsBounded'
        BY <1>a, <1>b, <2>1, <2>0, <2>a DEF RoundsBounded, Live
    <2>6. WorkerSound'
        BY <1>a, <1>b, <2>1 DEF WorkerSound, Working
    <2>7. BridgesServe'
        BY <1>a, <1>b, <2>1, <2>0, <2>a DEF BridgesServe, Working, New, Ending
    <2>8. GateHeld'
        BY <1>a, <1>b, <2>1, <2>0, <2>a DEF GateHeld, Working, New, Ending, Partials, ChunkStep, Decodes
    <2>9. StepSound'
        BY <1>a, <1>b, <2>1, <2>0, <2>a DEF StepSound, ChunkDue, DecodeDue, AdmissionDue, Decodes, Partials
    <2>10. SeedSound'
        BY <1>a, <1>b, <2>1, <2>0, <2>a DEF SeedSound
    <2>11. OpenBridges'
        BY <1>a, <1>b, <2>1, <2>0, <2>a DEF OpenBridges
    <2>12. CloseDone'
        BY <1>a, <1>b, <2>1, <2>0, <2>a DEF CloseDone
    <2>13. Turn'
        BY <1>a, <1>b, <2>1 DEF Turn
    <2>14. EngineSurvives'
        BY <1>a, <1>b, <2>1 DEF EngineSurvives
    <2> QED BY <2>3, <2>4, <2>5, <2>6, <2>7, <2>8, <2>9, <2>10, <2>11, <2>12, <2>13, <2>14 DEF Inv
<1>14. CASE ExecuteOriginal
    <2>0. /\ phase = "execute" /\ Settled \in WorkerRecord /\ Sound(Settled)
          /\ SettledFields(worker, step.finished, Settled)
          /\ ClosedBySettling = worker.bridges \cap step.finished
          /\ finishedIds = {} /\ pending = {} /\ ended = {} /\ ~worker.prefillPending
          /\ step.cached \subseteq running /\ running \cap step.finished = {}
        <3>1. phase = "execute"
            BY <1>14 DEF Executing, ExecuteRefused, DetachFails, ExecuteAdmission, ContinuePrefill,
                      ExecuteDecode, RefuseRound, ExecuteOriginal, ExecuteFails
        <3> QED BY <3>1, ClosesFinished, Executes
    <2>a. /\ step.new = {} /\ step.cached = Decodes /\ worker.requestId \notin Decodes
        <3>1. DecodeDue
            BY <1>14, <2>0, RouteIsExpected DEF ExecuteOriginal, Executing
        <3> QED BY <3>1 DEF DecodeDue
    <2>1. /\ phase' = "update" /\ open' = open \ (worker.bridges \cap step.finished)
          /\ pending' = {} /\ route' \in Routes
          /\ (worker'.requestId = IF worker.requestId \in step.finished THEN NoRequest ELSE worker.requestId)
          /\ (worker'.capture = IF worker.requestId \in step.finished THEN NoCapture ELSE worker.capture)
          /\ worker'.bridges = worker.bridges \ step.finished /\ worker' \in WorkerRecord
          /\ worker'.prefillPending = FALSE /\ worker'.failed = worker.failed
          /\ Sound(worker') /\ waiting' = waiting /\ running' = running /\ length' = length
          /\ prefilled' = prefilled /\ rounds' = rounds /\ finishedIds' = finishedIds
          /\ streak' = streak /\ credit' = credit /\ lastChunk' = lastChunk
          /\ dropped' = dropped /\ step' = step /\ ended' = ended /\ fault' = fault
          /\ shutdown' = shutdown
        <3>1. worker' = Settled
            BY <1>14 DEF ExecuteOriginal
        <3>2. /\ worker' \in WorkerRecord /\ Sound(worker') /\ SettledFields(worker, step.finished, worker')
            BY <2>0, <3>1
        <3> QED BY <1>14, <2>0, <3>2, RouteTyped DEF ExecuteOriginal, ExecuteEnds, SettledFields, WorkerRecord, Executing
    <2>3. TypeOK'
        BY <1>a, <1>b, <2>1, <2>0, <2>a DEF TypeOK, WorkerRecord, Routes
    <2>4. QueueSound'
        BY <1>a, <1>b, <2>1, <2>0 DEF QueueSound, Ending, Live
    <2>5. RoundsBounded'
        BY <1>a, <1>b, <2>1, <2>0, <2>a DEF RoundsBounded, Live
    <2>6. WorkerSound'
        BY <1>a, <1>b, <2>1 DEF WorkerSound, Working
    <2>7. BridgesServe'
        BY <1>a, <1>b, <2>1, <2>0, <2>a DEF BridgesServe, Working, New, Ending
    <2>8. GateHeld'
        BY <1>a, <1>b, <2>1, <2>0, <2>a DEF GateHeld, Working, New, Ending, Partials, ChunkStep, Decodes
    <2>9. StepSound'
        BY <1>a, <1>b, <2>1, <2>0, <2>a DEF StepSound, ChunkDue, DecodeDue, AdmissionDue, Decodes, Partials
    <2>10. SeedSound'
        BY <1>a, <1>b, <2>1, <2>0, <2>a DEF SeedSound
    <2>11. OpenBridges'
        BY <1>a, <1>b, <2>1, <2>0, <2>a DEF OpenBridges
    <2>12. CloseDone'
        BY <1>a, <1>b, <2>1, <2>0, <2>a DEF CloseDone
    <2>13. Turn'
        BY <1>a, <1>b, <2>1 DEF Turn
    <2>14. EngineSurvives'
        BY <1>a, <1>b, <2>1 DEF EngineSurvives
    <2> QED BY <2>3, <2>4, <2>5, <2>6, <2>7, <2>8, <2>9, <2>10, <2>11, <2>12, <2>13, <2>14 DEF Inv
<1>15. CASE ExecuteRefused
    <2>0. /\ phase = "execute" /\ Settled \in WorkerRecord /\ Sound(Settled)
          /\ SettledFields(worker, step.finished, Settled)
          /\ ClosedBySettling = worker.bridges \cap step.finished
          /\ finishedIds = {} /\ pending = {} /\ ended = {} /\ ~worker.prefillPending
          /\ step.cached \subseteq running /\ running \cap step.finished = {}
        <3>1. phase = "execute"
            BY <1>15 DEF Executing, ExecuteRefused, DetachFails, ExecuteAdmission, ContinuePrefill,
                      ExecuteDecode, RefuseRound, ExecuteOriginal, ExecuteFails
        <3> QED BY <3>1, ClosesFinished, Executes
    <2>1. /\ phase' = "dead" /\ pending' = {} /\ route' = "refused"
          /\ open' = open \ (worker.bridges \cap step.finished)
          /\ worker'.bridges = worker.bridges \ step.finished /\ worker' \in WorkerRecord
          /\ worker'.prefillPending = FALSE /\ dropped # {} /\ waiting' = waiting
          /\ running' = running /\ length' = length /\ prefilled' = prefilled
          /\ rounds' = rounds /\ finishedIds' = finishedIds /\ streak' = streak
          /\ credit' = credit /\ lastChunk' = lastChunk /\ dropped' = dropped /\ step' = step
          /\ ended' = ended /\ fault' = fault /\ shutdown' = shutdown
        <3>1. ~Unexecutable /\ Route(Settled) = "refused"
            BY <1>15, <2>0, RouteIsExpected DEF ExecuteRefused
        <3>2. dropped # {}
            BY <2>0, <3>1, RouteIsExpected
        <3>3. worker' = [Settled EXCEPT !.failed = TRUE] /\ open' = open \ ClosedBySettling
            BY <1>15, <3>1 DEF ExecuteRefused
        <3>4. /\ worker' \in WorkerRecord /\ worker'.bridges = Settled.bridges
              /\ worker'.prefillPending = Settled.prefillPending
            BY <2>0, <3>3 DEF WorkerRecord
        <3> QED BY <1>15, <2>0, <3>2, <3>3, <3>4 DEF ExecuteRefused, SettledFields, WorkerRecord
    <2>3. TypeOK'
        BY <1>a, <1>b, <2>1, <2>0 DEF TypeOK, WorkerRecord, Routes
    <2>4. QueueSound'
        BY <1>a, <1>b, <2>1, <2>0 DEF QueueSound, Ending, Live
    <2>5. RoundsBounded'
        BY <1>a, <1>b, <2>1, <2>0 DEF RoundsBounded, Live
    <2>6. WorkerSound'
        BY <1>a, <1>b, <2>1 DEF WorkerSound, Working
    <2>7. BridgesServe'
        BY <1>a, <1>b, <2>1 DEF BridgesServe, Working, New, Ending
    <2>8. GateHeld'
        BY <1>a, <1>b, <2>1 DEF GateHeld, Working, New, Ending, Partials, ChunkStep
    <2>9. StepSound'
        BY <1>a, <1>b, <2>1 DEF StepSound, ChunkDue, DecodeDue, AdmissionDue, Decodes, Partials
    <2>10. SeedSound'
        BY <1>a, <1>b, <2>1, <2>0 DEF SeedSound
    <2>11. OpenBridges'
        BY <1>a, <1>b, <2>1, <2>0 DEF OpenBridges
    <2>12. CloseDone'
        BY <1>a, <1>b, <2>1, <2>0 DEF CloseDone
    <2>13. Turn'
        BY <1>a, <1>b, <2>1 DEF Turn
    <2>14. EngineSurvives'
        BY <1>a, <1>b, <2>1 DEF EngineSurvives
    <2> QED BY <2>3, <2>4, <2>5, <2>6, <2>7, <2>8, <2>9, <2>10, <2>11, <2>12, <2>13, <2>14 DEF Inv
<1>16. CASE ExecuteFails
    <2>0. /\ phase = "execute" /\ Settled \in WorkerRecord /\ Sound(Settled)
          /\ SettledFields(worker, step.finished, Settled)
          /\ ClosedBySettling = worker.bridges \cap step.finished
          /\ finishedIds = {} /\ pending = {} /\ ended = {} /\ ~worker.prefillPending
          /\ step.cached \subseteq running /\ running \cap step.finished = {}
        <3>1. phase = "execute"
            BY <1>16 DEF Executing, ExecuteRefused, DetachFails, ExecuteAdmission, ContinuePrefill,
                      ExecuteDecode, RefuseRound, ExecuteOriginal, ExecuteFails
        <3> QED BY <3>1, ClosesFinished, Executes
    <2>1. /\ phase' = "dead" /\ pending' = {} /\ route' \in Routes
          /\ open' = open \ (worker.bridges \cap step.finished)
          /\ worker'.bridges = worker.bridges \ step.finished /\ worker' \in WorkerRecord
          /\ worker'.prefillPending = FALSE /\ fault' = fault \cup {"device"}
          /\ "device" \in Faults /\ waiting' = waiting /\ running' = running
          /\ length' = length /\ prefilled' = prefilled /\ rounds' = rounds
          /\ finishedIds' = finishedIds /\ streak' = streak /\ credit' = credit
          /\ lastChunk' = lastChunk /\ dropped' = dropped /\ step' = step /\ ended' = ended
          /\ shutdown' = shutdown
        <3>1. Route(Settled) \in {"admit", "chunk", "decode"}
            BY <1>16 DEF ExecuteFails, Executing
        <3> DEFINE w == IF step.new = {} THEN Settled ELSE Admitted(Settled, CHOOSE r \in step.new : TRUE, FALSE)
        <3>2. step.new # {} => (CHOOSE r \in step.new : TRUE) \in Request
            <4>1. step.new # {} => \E r \in step.new : TRUE
                OBVIOUS
            <4> QED BY <1>a, <4>1
        <3>3. /\ w \in WorkerRecord /\ w.bridges = Settled.bridges /\ w.prefillPending = Settled.prefillPending
            <4>1. Settled \in WorkerRecord
                BY <2>0
            <4>2. CASE step.new = {}
                BY <4>1, <4>2
            <4>3. CASE step.new # {}
                <5>1. w = Admitted(Settled, CHOOSE r \in step.new : TRUE, FALSE)
                    BY <4>3
                <5> HIDE DEF w
                <5> QED BY <3>2, <4>1, <4>3, <5>1, AdmittedTyped, Zenon
            <4> QED BY <4>2, <4>3
        <3> HIDE DEF w
        <3>4. worker' = [w EXCEPT !.failed = TRUE]
            BY <1>16 DEF ExecuteFails, w
        <3>5. /\ worker' \in WorkerRecord /\ worker'.bridges = w.bridges
              /\ worker'.prefillPending = w.prefillPending
            BY <3>3, <3>4 DEF WorkerRecord
        <3> QED BY <1>16, <2>0, <3>1, <3>3, <3>5 DEF ExecuteFails, ExecuteEnds, Routes, SettledFields, WorkerRecord
    <2>3. TypeOK'
        BY <1>a, <1>b, <2>1, <2>0 DEF TypeOK, WorkerRecord, Routes
    <2>4. QueueSound'
        BY <1>a, <1>b, <2>1, <2>0 DEF QueueSound, Ending, Live
    <2>5. RoundsBounded'
        BY <1>a, <1>b, <2>1, <2>0 DEF RoundsBounded, Live
    <2>6. WorkerSound'
        BY <1>a, <1>b, <2>1 DEF WorkerSound, Working
    <2>7. BridgesServe'
        BY <1>a, <1>b, <2>1 DEF BridgesServe, Working, New, Ending
    <2>8. GateHeld'
        BY <1>a, <1>b, <2>1 DEF GateHeld, Working, New, Ending, Partials, ChunkStep
    <2>9. StepSound'
        BY <1>a, <1>b, <2>1 DEF StepSound, ChunkDue, DecodeDue, AdmissionDue, Decodes, Partials
    <2>10. SeedSound'
        BY <1>a, <1>b, <2>1, <2>0 DEF SeedSound
    <2>11. OpenBridges'
        BY <1>a, <1>b, <2>1, <2>0 DEF OpenBridges
    <2>12. CloseDone'
        BY <1>a, <1>b, <2>1, <2>0 DEF CloseDone
    <2>13. Turn'
        BY <1>a, <1>b, <2>1 DEF Turn
    <2>14. EngineSurvives'
        BY <1>a, <1>b, <2>1 DEF EngineSurvives
    <2> QED BY <2>3, <2>4, <2>5, <2>6, <2>7, <2>8, <2>9, <2>10, <2>11, <2>12, <2>13, <2>14 DEF Inv
<1>17. CASE DetachFails
    <2>0. /\ phase = "execute" /\ Settled \in WorkerRecord /\ Sound(Settled)
          /\ SettledFields(worker, step.finished, Settled)
          /\ ClosedBySettling = worker.bridges \cap step.finished
          /\ finishedIds = {} /\ pending = {} /\ ended = {} /\ ~worker.prefillPending
          /\ step.cached \subseteq running /\ running \cap step.finished = {}
        <3>1. phase = "execute"
            BY <1>17 DEF Executing, ExecuteRefused, DetachFails, ExecuteAdmission, ContinuePrefill,
                      ExecuteDecode, RefuseRound, ExecuteOriginal, ExecuteFails
        <3> QED BY <3>1, ClosesFinished, Executes
    <2>1. /\ phase' = "dead" /\ pending' = {} /\ open' \subseteq open
          /\ worker' \in WorkerRecord /\ worker'.prefillPending = FALSE
          /\ fault' = fault \cup {"close"} /\ "close" \in Faults /\ waiting' = waiting
          /\ running' = running /\ length' = length /\ prefilled' = prefilled
          /\ rounds' = rounds /\ finishedIds' = finishedIds /\ streak' = streak
          /\ credit' = credit /\ lastChunk' = lastChunk /\ dropped' = dropped /\ step' = step
          /\ route' = route /\ ended' = ended /\ shutdown' = shutdown
        <3>1. PICK i \in DOMAIN worker.decodingIds :
                LET r == worker.decodingIds[i]
                    before == {worker.decodingIds[j] : j \in 1..(i - 1)} \cap step.finished
                    left == Remaining(worker, before \cup {r})
                IN  /\ r \in step.finished
                    /\ worker' = [worker EXCEPT !.failed = TRUE, !.decodingIds = left,
                                    !.bridges = IF left = <<>> THEN {r} ELSE @ \ (before \cup {r})]
                    /\ open' = open \ before
            BY <1>17, Zenon DEF DetachFails
        <3> DEFINE r == worker.decodingIds[i]
                   before == {worker.decodingIds[j] : j \in 1..(i - 1)} \cap step.finished
                   left == Remaining(worker, before \cup {r})
                   bridges == IF left = <<>> THEN {r} ELSE worker.bridges \ (before \cup {r})
        <3>2. left \in Seq(Request)
            BY <1>a, WithoutProperties DEF Remaining, WorkerRecord
        <3>3. bridges \subseteq Request /\ r \in step.finished
            BY <1>a, <3>1 DEF WorkerRecord
        <3>4. open' = open \ before
            BY <3>1
        <3>5. worker' = [worker EXCEPT !.failed = TRUE, !.decodingIds = left, !.bridges = bridges]
            BY <3>1
        <3> HIDE DEF left, bridges, before
        <3>6. worker' \in WorkerRecord /\ worker'.prefillPending = worker.prefillPending
            BY <1>a, <3>2, <3>3, <3>5 DEF WorkerRecord
        <3>7. worker.prefillPending \in BOOLEAN
            BY <1>a DEF WorkerRecord
        <3>8. open' \subseteq open /\ worker'.prefillPending = FALSE
            BY <2>0, <3>4, <3>6, <3>7
        <3>9. UNCHANGED <<waiting, running, length, prefilled, rounds, finishedIds, streak, credit,
                          lastChunk, dropped, step, route, ended, shutdown>>
            BY <1>17, Zenon DEF DetachFails
        <3>10. /\ "close" \in Faults /\ fault' = fault \cup {"close"} /\ phase' = "dead"
               /\ pending' = pending \ step.finished
            BY <1>17, Zenon DEF DetachFails
        <3> QED BY <2>0, <3>6, <3>8, <3>9, <3>10
    <2>3. TypeOK'
        BY <1>a, <1>b, <2>1, <2>0 DEF TypeOK, WorkerRecord, Routes
    <2>4. QueueSound'
        BY <1>a, <1>b, <2>1, <2>0 DEF QueueSound, Ending, Live
    <2>5. RoundsBounded'
        BY <1>a, <1>b, <2>1, <2>0 DEF RoundsBounded, Live
    <2>6. WorkerSound'
        BY <1>a, <1>b, <2>1 DEF WorkerSound, Working
    <2>7. BridgesServe'
        BY <1>a, <1>b, <2>1 DEF BridgesServe, Working, New, Ending
    <2>8. GateHeld'
        BY <1>a, <1>b, <2>1 DEF GateHeld, Working, New, Ending, Partials, ChunkStep
    <2>9. StepSound'
        BY <1>a, <1>b, <2>1 DEF StepSound, ChunkDue, DecodeDue, AdmissionDue, Decodes, Partials
    <2>10. SeedSound'
        BY <1>a, <1>b, <2>1, <2>0 DEF SeedSound
    <2>11. OpenBridges'
        BY <1>a, <1>b, <2>1, <2>0 DEF OpenBridges
    <2>12. CloseDone'
        BY <1>a, <1>b, <2>1, <2>0 DEF CloseDone
    <2>13. Turn'
        BY <1>a, <1>b, <2>1 DEF Turn
    <2>14. EngineSurvives'
        BY <1>a, <1>b, <2>1 DEF EngineSurvives
    <2> QED BY <2>3, <2>4, <2>5, <2>6, <2>7, <2>8, <2>9, <2>10, <2>11, <2>12, <2>13, <2>14 DEF Inv
<1>18. CASE SampleMidPrompt
    <2>0. /\ phase = "sample" /\ finishedIds = {} /\ step.cached \subseteq running
          /\ worker.requestId \in running /\ worker.requestId \in Request
          /\ worker.capture = prefilled[worker.requestId]
          /\ worker.prefillPending <=> worker.capture = length[worker.requestId]
          /\ worker.chunkInFlight <=> ~worker.prefillPending
          /\ Partials \subseteq {worker.requestId} /\ pending = {} /\ ended = {} /\ Sound(worker)
          /\ running \ {worker.requestId} \subseteq worker.bridges
          /\ worker.bridges \subseteq running \cup dropped
          /\ worker.prefillPending \in BOOLEAN
        <3>1. phase = "sample"
            BY <1>18 DEF SampleMidPrompt, SampleEnds, SampleQuarantined, SampleBridged, SamplerFails,
                      BridgeFails, SeedDue
        <3> QED BY <1>a, <3>1, Samples
    <2>1. /\ phase' = "update" /\ worker.chunkInFlight /\ waiting' = waiting
          /\ running' = running /\ length' = length /\ prefilled' = prefilled
          /\ rounds' = rounds /\ finishedIds' = finishedIds /\ streak' = streak
          /\ credit' = credit /\ lastChunk' = lastChunk /\ dropped' = dropped /\ step' = step
          /\ route' = route /\ ended' = ended /\ worker' = worker /\ open' = open
          /\ pending' = pending /\ fault' = fault /\ shutdown' = shutdown
        BY <1>18 DEF SampleMidPrompt, Sampled
    <2>3. TypeOK'
        BY <1>a, <1>b, <2>1, <2>0 DEF TypeOK, WorkerRecord
    <2>4. QueueSound'
        BY <1>a, <1>b, <2>1, <2>0 DEF QueueSound, Ending, Live
    <2>5. RoundsBounded'
        BY <1>a, <1>b, <2>1, <2>0 DEF RoundsBounded, Live
    <2>6. WorkerSound'
        BY <1>a, <1>b, <2>1, <2>0 DEF WorkerSound, Working
    <2>7. BridgesServe'
        BY <1>a, <1>b, <2>1, <2>0 DEF BridgesServe, Working, New, Ending
    <2>8. GateHeld'
        <3>1. worker.capture \in Nat /\ length[worker.requestId] \in Nat /\ worker.capture <= length[worker.requestId]
            BY <1>b, <2>0 DEF QueueSound
        <3>2. worker.capture # length[worker.requestId]
            BY <2>0, <2>1
        <3>3. worker.capture < length[worker.requestId]
            BY <3>1, <3>2
        <3> QED BY <1>a, <1>b, <2>0, <2>1, <3>3 DEF GateHeld, Working, New, Ending, Partials, ChunkStep
    <2>9. StepSound'
        BY <1>a, <1>b, <2>1, <2>0 DEF StepSound, ChunkDue, DecodeDue, AdmissionDue, Decodes, Partials
    <2>10. SeedSound'
        BY <1>a, <1>b, <2>1, <2>0 DEF SeedSound
    <2>11. OpenBridges'
        BY <1>a, <1>b, <2>1, <2>0 DEF OpenBridges
    <2>12. CloseDone'
        BY <1>a, <1>b, <2>1, <2>0 DEF CloseDone
    <2>13. Turn'
        BY <1>a, <1>b, <2>1, <2>0 DEF Turn
    <2>14. EngineSurvives'
        BY <1>a, <1>b, <2>1, <2>0 DEF EngineSurvives
    <2> QED BY <2>3, <2>4, <2>5, <2>6, <2>7, <2>8, <2>9, <2>10, <2>11, <2>12, <2>13, <2>14 DEF Inv
<1>19. CASE SampleEnds
    <2>0. /\ phase = "sample" /\ finishedIds = {} /\ step.cached \subseteq running
          /\ worker.requestId \in running /\ worker.requestId \in Request
          /\ worker.capture = prefilled[worker.requestId]
          /\ worker.prefillPending <=> worker.capture = length[worker.requestId]
          /\ worker.chunkInFlight <=> ~worker.prefillPending
          /\ Partials \subseteq {worker.requestId} /\ pending = {} /\ ended = {} /\ Sound(worker)
          /\ running \ {worker.requestId} \subseteq worker.bridges
          /\ worker.bridges \subseteq running \cup dropped
          /\ worker.prefillPending \in BOOLEAN
        <3>1. phase = "sample"
            BY <1>19 DEF SampleMidPrompt, SampleEnds, SampleQuarantined, SampleBridged, SamplerFails,
                      BridgeFails, SeedDue
        <3> QED BY <1>a, <3>1, Samples
    <2>1. /\ phase' = "update" /\ ended' = {worker.requestId} /\ worker.prefillPending
          /\ worker'.bridges = worker.bridges /\ worker'.requestId = NoRequest
          /\ worker'.capture = NoCapture /\ worker'.prefillPending = FALSE
          /\ worker' \in WorkerRecord /\ worker'.failed = worker.failed /\ Sound(worker')
          /\ waiting' = waiting /\ running' = running /\ length' = length
          /\ prefilled' = prefilled /\ rounds' = rounds /\ finishedIds' = finishedIds
          /\ streak' = streak /\ credit' = credit /\ lastChunk' = lastChunk
          /\ dropped' = dropped /\ step' = step /\ route' = route /\ open' = open
          /\ pending' = pending /\ fault' = fault /\ shutdown' = shutdown
        <3>1. NoRequest \in Ids /\ NoCapture \in -1..MaxChunks
            BY <1>a DEF Ids, NoCapture
        <3>2. EndAtSeed = [worker EXCEPT !.requestId = NoRequest, !.capture = NoCapture,
                                         !.prefillPending = FALSE, !.refused = FALSE]
            BY <1>a DEF EndAtSeed, ReleasePrefill, WorkerRecord

        <3>3. PICK refused \in {FALSE, worker.refused} : worker' = [EndAtSeed EXCEPT !.refused = refused]
            BY <1>19 DEF SampleEnds
        <3>4. worker' = [worker EXCEPT !.requestId = NoRequest, !.capture = NoCapture,
                                       !.prefillPending = FALSE, !.refused = refused]
            BY <1>a, <3>2, <3>3 DEF WorkerRecord
        <3>5. refused \in BOOLEAN
            BY <1>a, <3>3 DEF WorkerRecord
        <3>6. /\ worker' \in WorkerRecord /\ worker'.requestId = NoRequest /\ worker'.capture = NoCapture
              /\ worker'.prefillPending = FALSE /\ worker'.bridges = worker.bridges
              /\ worker'.decodingIds = worker.decodingIds /\ worker'.decodingId = worker.decodingId
              /\ worker'.hook = worker.hook /\ worker'.failed = worker.failed
            BY <1>a, <3>1, <3>4, <3>5 DEF WorkerRecord
        <3>7. Sound(worker')
            BY <1>a, <2>0, <3>6 DEF Sound, WorkerRecord
        <3> QED BY <1>19, <2>0, <3>6, <3>7 DEF SampleEnds, Sampled, SeedDue
    <2>3. TypeOK'
        BY <1>a, <1>b, <2>1, <2>0 DEF TypeOK, WorkerRecord
    <2>4. QueueSound'
        BY <1>a, <1>b, <2>1, <2>0 DEF QueueSound, Ending, Live
    <2>5. RoundsBounded'
        BY <1>a, <1>b, <2>1, <2>0 DEF RoundsBounded, Live
    <2>6. WorkerSound'
        BY <1>a, <1>b, <2>1, <2>0 DEF WorkerSound, Working
    <2>7. BridgesServe'
        BY <1>a, <1>b, <2>1, <2>0 DEF BridgesServe, Working, New, Ending
    <2>8. GateHeld'
        <3>1. Partials = {}
            BY <1>a, <1>b, <2>0, <2>1 DEF Partials
        <3>2. Partials' = Partials
            BY <2>1 DEF Partials
        <3> QED BY <1>a, <2>0, <2>1, <3>1, <3>2 DEF GateHeld, Working, New, Ending
    <2>9. StepSound'
        BY <1>a, <1>b, <2>1, <2>0 DEF StepSound, ChunkDue, DecodeDue, AdmissionDue, Decodes, Partials
    <2>10. SeedSound'
        BY <1>a, <1>b, <2>1, <2>0 DEF SeedSound
    <2>11. OpenBridges'
        BY <1>a, <1>b, <2>1, <2>0 DEF OpenBridges
    <2>12. CloseDone'
        BY <1>a, <1>b, <2>1, <2>0 DEF CloseDone
    <2>13. Turn'
        BY <1>a, <1>b, <2>1, <2>0 DEF Turn
    <2>14. EngineSurvives'
        BY <1>a, <1>b, <2>1, <2>0 DEF EngineSurvives
    <2> QED BY <2>3, <2>4, <2>5, <2>6, <2>7, <2>8, <2>9, <2>10, <2>11, <2>12, <2>13, <2>14 DEF Inv
<1>20. CASE SampleQuarantined
    <2>0. /\ phase = "sample" /\ finishedIds = {} /\ step.cached \subseteq running
          /\ worker.requestId \in running /\ worker.requestId \in Request
          /\ worker.capture = prefilled[worker.requestId]
          /\ worker.prefillPending <=> worker.capture = length[worker.requestId]
          /\ worker.chunkInFlight <=> ~worker.prefillPending
          /\ Partials \subseteq {worker.requestId} /\ pending = {} /\ ended = {} /\ Sound(worker)
          /\ running \ {worker.requestId} \subseteq worker.bridges
          /\ worker.bridges \subseteq running \cup dropped
          /\ worker.prefillPending \in BOOLEAN
        <3>1. phase = "sample"
            BY <1>20 DEF SampleMidPrompt, SampleEnds, SampleQuarantined, SampleBridged, SamplerFails,
                      BridgeFails, SeedDue
        <3> QED BY <1>a, <3>1, Samples
    <2>1. /\ phase' = "update" /\ pending' = {worker.requestId} /\ worker.prefillPending
          /\ worker'.bridges = worker.bridges /\ worker'.requestId = NoRequest
          /\ worker'.capture = NoCapture /\ worker'.prefillPending = FALSE
          /\ worker' \in WorkerRecord /\ worker'.failed = worker.failed /\ Sound(worker')
          /\ waiting' = waiting /\ running' = running /\ length' = length
          /\ prefilled' = prefilled /\ rounds' = rounds /\ finishedIds' = finishedIds
          /\ streak' = streak /\ credit' = credit /\ lastChunk' = lastChunk
          /\ dropped' = dropped /\ step' = step /\ route' = route /\ ended' = ended
          /\ open' = open /\ fault' = fault /\ shutdown' = shutdown
        <3>1. NoRequest \in Ids /\ NoCapture \in -1..MaxChunks
            BY <1>a DEF Ids, NoCapture
        <3>2. EndAtSeed = [worker EXCEPT !.requestId = NoRequest, !.capture = NoCapture,
                                         !.prefillPending = FALSE, !.refused = FALSE]
            BY <1>a DEF EndAtSeed, ReleasePrefill, WorkerRecord

        <3>3. worker' = EndAtSeed /\ pending' = {worker.requestId}
            BY <1>20, <2>0 DEF SampleQuarantined
        <3>4. /\ worker' \in WorkerRecord /\ worker'.requestId = NoRequest /\ worker'.capture = NoCapture
              /\ worker'.prefillPending = FALSE /\ worker'.bridges = worker.bridges
              /\ worker'.decodingIds = worker.decodingIds /\ worker'.decodingId = worker.decodingId
              /\ worker'.hook = worker.hook /\ worker'.failed = worker.failed
            BY <1>a, <3>1, <3>2, <3>3 DEF WorkerRecord
        <3>5. Sound(worker')
            BY <1>a, <2>0, <3>4 DEF Sound, WorkerRecord
        <3> QED BY <1>20, <2>0, <3>3, <3>4, <3>5 DEF SampleQuarantined, Sampled, SeedDue
    <2>3. TypeOK'
        BY <1>a, <1>b, <2>1, <2>0 DEF TypeOK, WorkerRecord
    <2>4. QueueSound'
        BY <1>a, <1>b, <2>1, <2>0 DEF QueueSound, Ending, Live
    <2>5. RoundsBounded'
        BY <1>a, <1>b, <2>1, <2>0 DEF RoundsBounded, Live
    <2>6. WorkerSound'
        BY <1>a, <1>b, <2>1, <2>0 DEF WorkerSound, Working
    <2>7. BridgesServe'
        BY <1>a, <1>b, <2>1, <2>0 DEF BridgesServe, Working, New, Ending
    <2>8. GateHeld'
        <3>1. Partials = {}
            BY <1>a, <1>b, <2>0, <2>1 DEF Partials
        <3>2. Partials' = Partials
            BY <2>1 DEF Partials
        <3> QED BY <1>a, <2>0, <2>1, <3>1, <3>2 DEF GateHeld, Working, New, Ending
    <2>9. StepSound'
        BY <1>a, <1>b, <2>1, <2>0 DEF StepSound, ChunkDue, DecodeDue, AdmissionDue, Decodes, Partials
    <2>10. SeedSound'
        BY <1>a, <1>b, <2>1, <2>0 DEF SeedSound
    <2>11. OpenBridges'
        BY <1>a, <1>b, <2>1, <2>0 DEF OpenBridges
    <2>12. CloseDone'
        BY <1>a, <1>b, <2>1, <2>0 DEF CloseDone
    <2>13. Turn'
        BY <1>a, <1>b, <2>1, <2>0 DEF Turn
    <2>14. EngineSurvives'
        BY <1>a, <1>b, <2>1, <2>0 DEF EngineSurvives
    <2> QED BY <2>3, <2>4, <2>5, <2>6, <2>7, <2>8, <2>9, <2>10, <2>11, <2>12, <2>13, <2>14 DEF Inv
<1>21. CASE SampleBridged
    <2>0. /\ phase = "sample" /\ finishedIds = {} /\ step.cached \subseteq running
          /\ worker.requestId \in running /\ worker.requestId \in Request
          /\ worker.capture = prefilled[worker.requestId]
          /\ worker.prefillPending <=> worker.capture = length[worker.requestId]
          /\ worker.chunkInFlight <=> ~worker.prefillPending
          /\ Partials \subseteq {worker.requestId} /\ pending = {} /\ ended = {} /\ Sound(worker)
          /\ running \ {worker.requestId} \subseteq worker.bridges
          /\ worker.bridges \subseteq running \cup dropped
          /\ worker.prefillPending \in BOOLEAN
        <3>1. phase = "sample"
            BY <1>21 DEF SampleMidPrompt, SampleEnds, SampleQuarantined, SampleBridged, SamplerFails,
                      BridgeFails, SeedDue
        <3> QED BY <1>a, <3>1, Samples
    <2>1. /\ phase' = "update" /\ worker.prefillPending
          /\ worker'.bridges = worker.bridges \cup {worker.requestId}
          /\ open' = open \cup {worker.requestId} /\ worker'.requestId = NoRequest
          /\ worker'.capture = NoCapture /\ worker'.prefillPending = FALSE
          /\ worker' \in WorkerRecord /\ worker'.failed = worker.failed /\ Sound(worker')
          /\ waiting' = waiting /\ running' = running /\ length' = length
          /\ prefilled' = prefilled /\ rounds' = rounds /\ finishedIds' = finishedIds
          /\ streak' = streak /\ credit' = credit /\ lastChunk' = lastChunk
          /\ dropped' = dropped /\ step' = step /\ route' = route /\ ended' = ended
          /\ pending' = pending /\ fault' = fault /\ shutdown' = shutdown
        <3> DEFINE ids == Append(worker.decodingIds, worker.requestId)
                   built == worker.bridges \cup {worker.requestId}
        <3>1. NoRequest \in Ids /\ NoCapture \in -1..MaxChunks /\ worker.requestId \in Ids
            BY <1>a DEF Ids, NoCapture, WorkerRecord
        <3>2. ids \in Seq(Request) /\ ids # <<>> /\ Elements(ids) = Elements(worker.decodingIds) \cup {worker.requestId}
            BY <1>a, <2>0, AppendElements DEF WorkerRecord
        <3>3. built \in SUBSET Request
            BY <1>a, <2>0 DEF WorkerRecord
        <3> HIDE DEF ids, built
        <3>4. worker' = [worker EXCEPT !.requestId = NoRequest, !.capture = NoCapture,
                            !.prefillPending = FALSE, !.hook = TRUE, !.bridges = built,
                            !.decodingIds = ids, !.decodingId = worker.requestId]
            BY <1>21, <1>a DEF SampleBridged, ReleasePrefill, ids, built, WorkerRecord
        <3>5. /\ worker' \in WorkerRecord /\ worker'.requestId = NoRequest /\ worker'.capture = NoCapture
              /\ worker'.prefillPending = FALSE /\ worker'.bridges = built
              /\ worker'.decodingIds = ids /\ worker'.decodingId = worker.requestId
              /\ worker'.hook = TRUE /\ worker'.failed = worker.failed
            BY <1>a, <3>1, <3>2, <3>3, <3>4 DEF WorkerRecord
        <3>6. Sound(worker')
            BY <1>a, <2>0, <3>2, <3>3, <3>5 DEF Sound, built
        <3> QED BY <1>21, <2>0, <3>5, <3>6 DEF SampleBridged, Sampled, SeedDue, built
    <2>3. TypeOK'
        BY <1>a, <1>b, <2>1, <2>0 DEF TypeOK, WorkerRecord
    <2>4. QueueSound'
        BY <1>a, <1>b, <2>1, <2>0 DEF QueueSound, Ending, Live
    <2>5. RoundsBounded'
        BY <1>a, <1>b, <2>1, <2>0 DEF RoundsBounded, Live
    <2>6. WorkerSound'
        BY <1>a, <1>b, <2>1, <2>0 DEF WorkerSound, Working
    <2>7. BridgesServe'
        BY <1>a, <1>b, <2>1, <2>0 DEF BridgesServe, Working, New, Ending
    <2>8. GateHeld'
        <3>1. Partials = {}
            BY <1>a, <1>b, <2>0, <2>1 DEF Partials
        <3>2. Partials' = Partials
            BY <2>1 DEF Partials
        <3> QED BY <1>a, <2>0, <2>1, <3>1, <3>2 DEF GateHeld, Working, New, Ending
    <2>9. StepSound'
        BY <1>a, <1>b, <2>1, <2>0 DEF StepSound, ChunkDue, DecodeDue, AdmissionDue, Decodes, Partials
    <2>10. SeedSound'
        BY <1>a, <1>b, <2>1, <2>0 DEF SeedSound
    <2>11. OpenBridges'
        BY <1>a, <1>b, <2>1, <2>0 DEF OpenBridges
    <2>12. CloseDone'
        BY <1>a, <1>b, <2>1, <2>0 DEF CloseDone
    <2>13. Turn'
        BY <1>a, <1>b, <2>1, <2>0 DEF Turn
    <2>14. EngineSurvives'
        BY <1>a, <1>b, <2>1, <2>0 DEF EngineSurvives
    <2> QED BY <2>3, <2>4, <2>5, <2>6, <2>7, <2>8, <2>9, <2>10, <2>11, <2>12, <2>13, <2>14 DEF Inv
<1>22. CASE SamplerFails
    <2>0. /\ phase = "sample" /\ finishedIds = {} /\ step.cached \subseteq running
          /\ worker.requestId \in running /\ worker.requestId \in Request
          /\ worker.capture = prefilled[worker.requestId]
          /\ worker.prefillPending <=> worker.capture = length[worker.requestId]
          /\ worker.chunkInFlight <=> ~worker.prefillPending
          /\ Partials \subseteq {worker.requestId} /\ pending = {} /\ ended = {} /\ Sound(worker)
          /\ running \ {worker.requestId} \subseteq worker.bridges
          /\ worker.bridges \subseteq running \cup dropped
          /\ worker.prefillPending \in BOOLEAN
        <3>1. phase = "sample"
            BY <1>22 DEF SampleMidPrompt, SampleEnds, SampleQuarantined, SampleBridged, SamplerFails,
                      BridgeFails, SeedDue
        <3> QED BY <1>a, <3>1, Samples
    <2>1. /\ phase' = "dead" /\ fault' = fault \cup {"sampler"} /\ "sampler" \in Faults
          /\ worker' \in WorkerRecord /\ worker'.bridges = worker.bridges
          /\ worker'.prefillPending = worker.prefillPending /\ waiting' = waiting
          /\ running' = running /\ length' = length /\ prefilled' = prefilled
          /\ rounds' = rounds /\ finishedIds' = finishedIds /\ streak' = streak
          /\ credit' = credit /\ lastChunk' = lastChunk /\ dropped' = dropped /\ step' = step
          /\ route' = route /\ ended' = ended /\ open' = open /\ pending' = pending
          /\ shutdown' = shutdown
        BY <1>22, <1>a DEF SamplerFails, Sampled, WorkerRecord
    <2>3. TypeOK'
        BY <1>a, <1>b, <2>1, <2>0 DEF TypeOK, WorkerRecord
    <2>4. QueueSound'
        BY <1>a, <1>b, <2>1, <2>0 DEF QueueSound, Ending, Live
    <2>5. RoundsBounded'
        BY <1>a, <1>b, <2>1, <2>0 DEF RoundsBounded, Live
    <2>6. WorkerSound'
        BY <1>a, <1>b, <2>1, <2>0 DEF WorkerSound, Working
    <2>7. BridgesServe'
        BY <1>a, <1>b, <2>1, <2>0 DEF BridgesServe, Working, New, Ending
    <2>8. GateHeld'
        BY <1>a, <1>b, <2>1, <2>0 DEF GateHeld, Working, New, Ending, Partials, ChunkStep
    <2>9. StepSound'
        BY <1>a, <1>b, <2>1, <2>0 DEF StepSound, ChunkDue, DecodeDue, AdmissionDue, Decodes, Partials
    <2>10. SeedSound'
        BY <1>a, <1>b, <2>1, <2>0 DEF SeedSound
    <2>11. OpenBridges'
        BY <1>a, <1>b, <2>1, <2>0 DEF OpenBridges
    <2>12. CloseDone'
        BY <1>a, <1>b, <2>1, <2>0 DEF CloseDone
    <2>13. Turn'
        BY <1>a, <1>b, <2>1, <2>0 DEF Turn
    <2>14. EngineSurvives'
        BY <1>a, <1>b, <2>1, <2>0 DEF EngineSurvives
    <2> QED BY <2>3, <2>4, <2>5, <2>6, <2>7, <2>8, <2>9, <2>10, <2>11, <2>12, <2>13, <2>14 DEF Inv
<1>23. CASE BridgeFails
    <2>0. /\ phase = "sample" /\ finishedIds = {} /\ step.cached \subseteq running
          /\ worker.requestId \in running /\ worker.requestId \in Request
          /\ worker.capture = prefilled[worker.requestId]
          /\ worker.prefillPending <=> worker.capture = length[worker.requestId]
          /\ worker.chunkInFlight <=> ~worker.prefillPending
          /\ Partials \subseteq {worker.requestId} /\ pending = {} /\ ended = {} /\ Sound(worker)
          /\ running \ {worker.requestId} \subseteq worker.bridges
          /\ worker.bridges \subseteq running \cup dropped
          /\ worker.prefillPending \in BOOLEAN
        <3>1. phase = "sample"
            BY <1>23 DEF SampleMidPrompt, SampleEnds, SampleQuarantined, SampleBridged, SamplerFails,
                      BridgeFails, SeedDue
        <3> QED BY <1>a, <3>1, Samples
    <2>1. /\ phase' = "dead" /\ fault' = fault \cup {"bridge"} /\ "bridge" \in Faults
          /\ worker' \in WorkerRecord /\ worker'.bridges = worker.bridges
          /\ worker'.prefillPending = FALSE /\ waiting' = waiting /\ running' = running
          /\ length' = length /\ prefilled' = prefilled /\ rounds' = rounds
          /\ finishedIds' = finishedIds /\ streak' = streak /\ credit' = credit
          /\ lastChunk' = lastChunk /\ dropped' = dropped /\ step' = step /\ route' = route
          /\ ended' = ended /\ open' = open /\ pending' = pending /\ shutdown' = shutdown
        BY <1>23, <1>a DEF BridgeFails, Sampled, WorkerRecord
    <2>3. TypeOK'
        BY <1>a, <1>b, <2>1, <2>0 DEF TypeOK, WorkerRecord
    <2>4. QueueSound'
        BY <1>a, <1>b, <2>1, <2>0 DEF QueueSound, Ending, Live
    <2>5. RoundsBounded'
        BY <1>a, <1>b, <2>1, <2>0 DEF RoundsBounded, Live
    <2>6. WorkerSound'
        BY <1>a, <1>b, <2>1, <2>0 DEF WorkerSound, Working
    <2>7. BridgesServe'
        BY <1>a, <1>b, <2>1, <2>0 DEF BridgesServe, Working, New, Ending
    <2>8. GateHeld'
        BY <1>a, <1>b, <2>1, <2>0 DEF GateHeld, Working, New, Ending, Partials, ChunkStep
    <2>9. StepSound'
        BY <1>a, <1>b, <2>1, <2>0 DEF StepSound, ChunkDue, DecodeDue, AdmissionDue, Decodes, Partials
    <2>10. SeedSound'
        BY <1>a, <1>b, <2>1, <2>0 DEF SeedSound
    <2>11. OpenBridges'
        BY <1>a, <1>b, <2>1, <2>0 DEF OpenBridges
    <2>12. CloseDone'
        BY <1>a, <1>b, <2>1, <2>0 DEF CloseDone
    <2>13. Turn'
        BY <1>a, <1>b, <2>1, <2>0 DEF Turn
    <2>14. EngineSurvives'
        BY <1>a, <1>b, <2>1, <2>0 DEF EngineSurvives
    <2> QED BY <2>3, <2>4, <2>5, <2>6, <2>7, <2>8, <2>9, <2>10, <2>11, <2>12, <2>13, <2>14 DEF Inv
<1>24. ASSUME NEW stops \in SUBSET Stoppable, Update,
             \A r \in Stoppable : MustStop(r) => r \in stops,
             running' = running \ (stops \cup ended \cup Aborted(stops \cup ended)),
             finishedIds' = finishedIds \cup (stops \cup ended \cup Aborted(stops \cup ended))
      PROVE  Inv'
    <2>1. /\ phase = "update" /\ phase' = "between" /\ pending' = {} /\ ended' = {}
          /\ step' = NoStep /\ route' = "none"
          /\ running' = running \ (stops \cup ended \cup pending)
          /\ finishedIds' = stops \cup ended \cup pending /\ waiting' = waiting
          /\ length' = length /\ prefilled' = prefilled /\ rounds' = rounds
          /\ streak' = streak /\ credit' = credit /\ lastChunk' = lastChunk
          /\ dropped' = dropped /\ worker' = worker /\ open' = open /\ fault' = fault
          /\ shutdown' = shutdown
        <3>1. phase = "update"
            BY <1>24 DEF Update
        <3>2. finishedIds = {} /\ pending \subseteq running
            BY <3>1 DEF StepSound, SeedSound
        <3>3. stops \cup ended \cup Aborted(stops \cup ended) = stops \cup ended \cup pending
            BY <3>2 DEF Aborted
        <3> QED BY <1>24, <3>1, <3>2, <3>3 DEF Update
    <2>2. /\ finishedIds = {} /\ stops \subseteq running /\ ended \subseteq running
          /\ pending \subseteq running
          /\ (route = "decode" => \A r \in step.cached : rounds[r] = MaxRounds => r \in stops)
        BY <1>24, <2>1 DEF StepSound, SeedSound, Stoppable, MustStop
    <2>3. TypeOK'
        BY <1>a, <1>b, <2>1, <2>2 DEF TypeOK, WorkerRecord, NoStep, Routes
    <2>4. QueueSound'
        BY <1>a, <1>b, <2>1, <2>2 DEF QueueSound, Ending, Live
    <2>5. RoundsBounded'
        BY <1>a, <1>b, <2>1, <2>2 DEF RoundsBounded, Live, QueueSound
    <2>6. WorkerSound'
        BY <1>a, <1>b, <2>1, <2>2 DEF WorkerSound, Working
    <2>7. BridgesServe'
        BY <1>a, <1>b, <2>1, <2>2 DEF BridgesServe, Working, New, Ending
    <2>8. GateHeld'
        BY <1>a, <1>b, <2>1, <2>2 DEF GateHeld, Working, New, Ending, Partials, ChunkStep
    <2>9. StepSound'
        BY <1>a, <1>b, <2>1, <2>2 DEF StepSound, ChunkDue, DecodeDue, AdmissionDue, Decodes, Partials
    <2>10. SeedSound'
        BY <1>a, <1>b, <2>1, <2>2 DEF SeedSound
    <2>11. OpenBridges'
        BY <1>a, <1>b, <2>1, <2>2 DEF OpenBridges
    <2>12. CloseDone'
        BY <1>a, <1>b, <2>1, <2>2 DEF CloseDone
    <2>13. Turn'
        BY <1>a, <1>b, <2>1, <2>2 DEF Turn
    <2>14. EngineSurvives'
        BY <1>a, <1>b, <2>1, <2>2 DEF EngineSurvives
    <2> QED BY <2>3, <2>4, <2>5, <2>6, <2>7, <2>8, <2>9, <2>10, <2>11, <2>12, <2>13, <2>14 DEF Inv
<1>25. CASE Update
    <2>1. PICK stops \in SUBSET Stoppable :
            /\ \A r \in Stoppable : MustStop(r) => r \in stops
            /\ running' = running \ (stops \cup ended \cup Aborted(stops \cup ended))
            /\ finishedIds' = finishedIds \cup (stops \cup ended \cup Aborted(stops \cup ended))
        BY <1>25, Zenon DEF Update
    <2> QED BY <1>25, <1>24, <2>1
<1>26. CASE CloseLifecycle
    <2>1. /\ phase \in {"between", "dead"} /\ shutdown = "none" /\ phase' = "closed"
          /\ shutdown' = "done" /\ worker.prefillPending = FALSE
          /\ worker'.prefillPending = FALSE /\ worker'.bridges = {}
          /\ worker' \in WorkerRecord /\ worker'.failed = worker.failed
          /\ open' = open \ worker.bridges /\ waiting' = waiting /\ running' = running
          /\ length' = length /\ prefilled' = prefilled /\ rounds' = rounds
          /\ finishedIds' = finishedIds /\ streak' = streak /\ credit' = credit
          /\ lastChunk' = lastChunk /\ dropped' = dropped /\ step' = step /\ route' = route
          /\ ended' = ended /\ pending' = pending /\ fault' = fault
        <3>1. /\ NoRequest \in Ids /\ NoCapture \in -1..MaxChunks /\ <<>> \in Seq(Request)
            BY <1>a DEF Ids, NoCapture
        <3>2. worker' = [worker EXCEPT !.hook = FALSE, !.bridges = {}, !.decodingIds = <<>>,
                            !.decodingId = NoRequest, !.requestId = NoRequest, !.capture = NoCapture]
            BY <1>26, <1>a DEF CloseLifecycle, ReleasePrefill, ReleaseDecoders, WorkerRecord
        <3>3. /\ worker' \in WorkerRecord /\ worker'.bridges = {} /\ worker'.failed = worker.failed
              /\ worker'.prefillPending = worker.prefillPending
            BY <1>a, <3>1, <3>2 DEF WorkerRecord
        <3>4. worker.prefillPending = FALSE
            BY <1>26, <1>a DEF CloseLifecycle, WorkerRecord
        <3> QED BY <1>26, <3>3, <3>4 DEF CloseLifecycle
    <2>3. TypeOK'
        BY <1>a, <1>b, <2>1 DEF TypeOK, WorkerRecord
    <2>4. QueueSound'
        BY <1>a, <1>b, <2>1 DEF QueueSound, Ending, Live
    <2>5. RoundsBounded'
        BY <1>a, <1>b, <2>1 DEF RoundsBounded, Live
    <2>6. WorkerSound'
        BY <1>a, <1>b, <2>1 DEF WorkerSound, Working
    <2>7. BridgesServe'
        BY <1>a, <1>b, <2>1 DEF BridgesServe, Working, New, Ending
    <2>8. GateHeld'
        BY <1>a, <1>b, <2>1 DEF GateHeld, Working, New, Ending, Partials, ChunkStep
    <2>9. StepSound'
        BY <1>a, <1>b, <2>1 DEF StepSound, ChunkDue, DecodeDue, AdmissionDue, Decodes, Partials
    <2>10. SeedSound'
        BY <1>a, <1>b, <2>1 DEF SeedSound
    <2>11. OpenBridges'
        BY <1>a, <1>b, <2>1 DEF OpenBridges
    <2>12. CloseDone'
        BY <1>a, <1>b, <2>1 DEF CloseDone
    <2>13. Turn'
        BY <1>a, <1>b, <2>1 DEF Turn
    <2>14. EngineSurvives'
        BY <1>a, <1>b, <2>1 DEF EngineSurvives
    <2> QED BY <2>3, <2>4, <2>5, <2>6, <2>7, <2>8, <2>9, <2>10, <2>11, <2>12, <2>13, <2>14 DEF Inv
<1>27. CASE CloseRaises
    <2>1. /\ phase \in {"between", "dead"} /\ shutdown = "none" /\ phase' = "closed"
          /\ shutdown' = "raised" /\ worker.prefillPending /\ waiting' = waiting
          /\ running' = running /\ length' = length /\ prefilled' = prefilled
          /\ rounds' = rounds /\ finishedIds' = finishedIds /\ streak' = streak
          /\ credit' = credit /\ lastChunk' = lastChunk /\ dropped' = dropped /\ step' = step
          /\ route' = route /\ ended' = ended /\ worker' = worker /\ open' = open
          /\ pending' = pending /\ fault' = fault
        BY <1>27 DEF CloseRaises
    <2>3. TypeOK'
        BY <1>a, <1>b, <2>1 DEF TypeOK, WorkerRecord
    <2>4. QueueSound'
        BY <1>a, <1>b, <2>1 DEF QueueSound, Ending, Live
    <2>5. RoundsBounded'
        BY <1>a, <1>b, <2>1 DEF RoundsBounded, Live
    <2>6. WorkerSound'
        BY <1>a, <1>b, <2>1 DEF WorkerSound, Working
    <2>7. BridgesServe'
        BY <1>a, <1>b, <2>1 DEF BridgesServe, Working, New, Ending
    <2>8. GateHeld'
        BY <1>a, <1>b, <2>1 DEF GateHeld, Working, New, Ending, Partials, ChunkStep
    <2>9. StepSound'
        BY <1>a, <1>b, <2>1 DEF StepSound, ChunkDue, DecodeDue, AdmissionDue, Decodes, Partials
    <2>10. SeedSound'
        BY <1>a, <1>b, <2>1 DEF SeedSound
    <2>11. OpenBridges'
        BY <1>a, <1>b, <2>1 DEF OpenBridges
    <2>12. CloseDone'
        BY <1>a, <1>b, <2>1 DEF CloseDone
    <2>13. Turn'
        BY <1>a, <1>b, <2>1 DEF Turn
    <2>14. EngineSurvives'
        BY <1>a, <1>b, <2>1 DEF EngineSurvives
    <2> QED BY <2>3, <2>4, <2>5, <2>6, <2>7, <2>8, <2>9, <2>10, <2>11, <2>12, <2>13, <2>14 DEF Inv
<1>28. CASE UNCHANGED vars
    <2>1. /\ waiting' = waiting /\ running' = running /\ length' = length
          /\ prefilled' = prefilled /\ rounds' = rounds /\ finishedIds' = finishedIds
          /\ streak' = streak /\ credit' = credit /\ lastChunk' = lastChunk
          /\ dropped' = dropped /\ phase' = phase /\ step' = step /\ route' = route
          /\ ended' = ended /\ worker' = worker /\ open' = open /\ pending' = pending
          /\ fault' = fault /\ shutdown' = shutdown
        BY <1>28 DEF vars
    <2>3. TypeOK'
        BY <2>1 DEF TypeOK
    <2>4. QueueSound'
        BY <1>a, <1>b, <2>1 DEF QueueSound, Ending, Live
    <2>5. RoundsBounded'
        BY <1>a, <1>b, <2>1 DEF RoundsBounded, Live
    <2>6. WorkerSound'
        BY <1>a, <1>b, <2>1 DEF WorkerSound, Working
    <2>7. BridgesServe'
        BY <1>a, <1>b, <2>1 DEF BridgesServe, Working, New, Ending
    <2>8. GateHeld'
        BY <1>a, <1>b, <2>1 DEF GateHeld, Working, New, Ending, Partials, ChunkStep
    <2>9. StepSound'
        BY <1>a, <1>b, <2>1 DEF StepSound, ChunkDue, DecodeDue, AdmissionDue, Decodes, Partials
    <2>10. SeedSound'
        BY <1>a, <1>b, <2>1 DEF SeedSound
    <2>11. OpenBridges'
        BY <1>a, <1>b, <2>1 DEF OpenBridges
    <2>12. CloseDone'
        BY <1>a, <1>b, <2>1 DEF CloseDone
    <2>13. Turn'
        BY <1>a, <1>b, <2>1 DEF Turn
    <2>14. EngineSurvives'
        BY <1>a, <1>b, <2>1 DEF EngineSurvives
    <2> QED BY <2>3, <2>4, <2>5, <2>6, <2>7, <2>8, <2>9, <2>10, <2>11, <2>12, <2>13, <2>14 DEF Inv
<1> QED BY <1>1, <1>2, <1>3, <1>4, <1>5, <1>6, <1>7, <1>8, <1>9, <1>10, <1>11, <1>12, <1>13, <1>14, <1>15, <1>16, <1>17, <1>18, <1>19, <1>20, <1>21, <1>22, <1>23, <1>24, <1>25, <1>26, <1>27, <1>28
    DEF Next, Client, EngineStep, Schedule, Execute, Sample


(* The engine starts idle, with nothing queued. *)
LEMMA InvInit ==
    ASSUME Init
    PROVE  Inv
<1>1. Elements(waiting) = {} /\ Live = {} /\ Ending = {} /\ Distinct(waiting) /\ waiting \in Seq(Request)
    BY DEF Init, Elements, Live, Ending, Distinct
<1>2. /\ 0 \in 0..MaxChunks /\ 0 \in 0..MaxRounds /\ 0 \in 0..DecodeSteps /\ NoCapture \in -1..MaxChunks
      /\ NoRequest \in Ids /\ NoRequest \notin Request
    BY RequestAssumption, LengthAssumption DEF Ids, NoCapture
<1>3. Idle \in WorkerRecord
    BY <1>2 DEF Idle, WorkerRecord
<1>4. NoStep \in [new : SUBSET Request, cached : SUBSET Request, finished : SUBSET Request]
    BY DEF NoStep
<1>5. TypeOK
    BY <1>1, <1>2, <1>3, <1>4 DEF Init, TypeOK, WorkerRecord, Routes
<1>6. Sound(Idle)
    BY DEF Idle, Sound, Elements
<1>7. QueueSound
    BY <1>1 DEF Init, QueueSound
<1>8. RoundsBounded /\ WorkerSound
    BY <1>1, <1>6 DEF Init, RoundsBounded, WorkerSound
<1>9. BridgesServe
    BY DEF Init, BridgesServe, Idle, New
<1>10. GateHeld
    BY <1>2 DEF Init, GateHeld, Idle, Partials
<1>11. StepSound /\ SeedSound
    BY DEF Init, StepSound, SeedSound, Idle
<1>12. OpenBridges /\ CloseDone /\ Turn /\ EngineSurvives
    BY DEF Init, OpenBridges, CloseDone, Turn, EngineSurvives, Idle
<1> QED BY <1>5, <1>7, <1>8, <1>9, <1>10, <1>11, <1>12 DEF Inv

(* The inductive invariant holds of every behaviour of the engine loop. *)
THEOREM Invariant == Spec => []Inv
<1>1. Init => Inv
    BY InvInit
<1>2. Inv /\ [Next]_vars => Inv'
    BY InvStep
<1> QED BY <1>1, <1>2, PTL DEF Spec

(* Type correctness: the queues, the lifecycle's record and the step always hold values of their
   types; in particular no request exceeds its prompt or its rounds. *)
THEOREM TypeCorrect == Spec => []TypeOK
<1>1. Inv => TypeOK
    BY DEF Inv
<1> QED BY <1>1, Invariant, PTL

(* FastServingLifecycle, the hook and ordered_tickets never refuse a step the scheduler builds:
   the engine dies only of an exception of its environment, or of a finished request that no step
   ever named. *)
THEOREM NeverRefuses == Spec => []EngineSurvives
<1>1. Inv => EngineSurvives
    BY DEF Inv
<1> QED BY <1>1, Invariant, PTL

(* Between steps the hook's bridges are those of the decoding requests, and of requests whose end
   the next step names, as long as no finished request was dropped from every step. *)
THEOREM BridgesAreDecodes == Spec => []BridgesMatchDecodes
<1>1. ASSUME Inv PROVE BridgesMatchDecodes
    <2> SUFFICES ASSUME phase = "between", dropped = {}
                 PROVE  /\ worker.bridges = Elements(worker.decodingIds)
                        /\ Decodes \subseteq worker.bridges
                        /\ worker.bridges \subseteq Decodes \cup finishedIds
        BY DEF BridgesMatchDecodes
    <2>1. Sound(worker) /\ pending = {} /\ ended = {} /\ NoRequest \notin Request /\ running \subseteq Request
        BY <1>1, RequestAssumption DEF Inv, WorkerSound, Working, SeedSound, TypeOK
    <2>2. /\ running \ {worker.requestId} \subseteq worker.bridges
          /\ worker.bridges \subseteq running \cup finishedIds
          /\ Partials \subseteq {worker.requestId}
        BY <1>1, <2>1 DEF Inv, BridgesServe, GateHeld, Working, New, Ending
    <2>3. worker.requestId \in running => worker.requestId \in Partials
        <3> SUFFICES ASSUME worker.requestId \in running PROVE worker.requestId \in Partials
            OBVIOUS
        <3>1. worker.capture = prefilled[worker.requestId] - 0 /\ worker.capture < length[worker.requestId]
            BY <1>1 DEF Inv, GateHeld, Working, ChunkStep
        <3>2. prefilled[worker.requestId] \in Nat
            BY <1>1, <2>1, LengthAssumption DEF Inv, TypeOK
        <3> QED BY <3>1, <3>2 DEF Partials
    <2>4. worker.requestId \notin worker.bridges /\ worker.bridges = Elements(worker.decodingIds)
        BY <2>1 DEF Sound
    <2> QED BY <2>2, <2>3, <2>4 DEF Decodes
<1> QED BY <1>1, Invariant, PTL

(* Between steps a partial prompt owns the gate and its capture has recorded every chunk the
   scheduler gave it. *)
THEOREM CaptureIsLevel == Spec => []CaptureFollowsPrompt
<1>1. ASSUME Inv PROVE CaptureFollowsPrompt
    <2> SUFFICES ASSUME phase = "between", NEW r \in Partials
                 PROVE  worker.requestId = r /\ worker.capture = prefilled[r]
        BY DEF CaptureFollowsPrompt
    <2>1. worker.requestId = r /\ r \in running
        BY <1>1 DEF Inv, GateHeld, Working, New, Partials
    <2>2. worker.capture = prefilled[r] - 0
        BY <1>1, <2>1 DEF Inv, GateHeld, Working, ChunkStep
    <2>3. prefilled[r] \in Nat
        BY <1>1, <2>1, LengthAssumption DEF Inv, TypeOK
    <2> QED BY <2>1, <2>2, <2>3
<1> QED BY <1>1, Invariant, PTL

(* attach_runtime's finally block: the lifecycle's close raises only over a seed the native sampler
   left pending, and otherwise every bridge is closed, unless one refused its own close. *)
THEOREM CloseIsComplete == Spec => []ShutdownComplete
<1>1. Inv => ShutdownComplete
    BY DEF Inv, CloseDone, SeedSound, OpenBridges, ShutdownComplete
<1> QED BY <1>1, Invariant, PTL

(* What one executed step does to the bridges and to the prefill's gate. *)
LEMMA ReleaseStep ==
    ASSUME Inv, [Next]_vars, phase = "execute", ~worker'.failed
    PROVE  /\ open \ open' \subseteq step.finished
           /\ worker.capture # NoCapture /\ worker.requestId \notin step.finished
                => worker'.requestId = worker.requestId /\ worker'.capture >= worker.capture
<1> DEFINE Own == /\ open \ open' \subseteq step.finished
                  /\ worker.capture # NoCapture /\ worker.requestId \notin step.finished
                       => worker'.requestId = worker.requestId /\ worker'.capture >= worker.capture
<1>1. /\ Settled \in WorkerRecord /\ Sound(Settled) /\ SettledFields(worker, step.finished, Settled)
      /\ ClosedBySettling = worker.bridges \cap step.finished
    BY ClosesFinished
<1>2. Sound(worker) /\ worker \in WorkerRecord /\ worker.capture \in Int
    BY LengthAssumption DEF Inv, WorkerSound, Working, TypeOK, WorkerRecord
<1>3. /\ open \ (open \ ClosedBySettling) \subseteq step.finished
      /\ worker.requestId \notin step.finished
           => Settled.requestId = worker.requestId /\ Settled.capture = worker.capture
    BY <1>1 DEF SettledFields
<1>4. ASSUME worker' = Settled, open' = open \ ClosedBySettling PROVE Own
    BY <1>2, <1>3, <1>4
<1>5. CASE ExecuteDecode \/ RefuseRound \/ ExecuteOriginal
    BY <1>4, <1>5 DEF ExecuteDecode, RefuseRound, ExecuteOriginal, ExecuteEnds
<1>6. CASE ExecuteAdmission
    <2>1. PICK h \in Request : AdmissionDue(h)
        BY <1>6, RouteIsExpected DEF ExecuteAdmission, Executing
    <2>2. worker.capture = NoCapture
        BY <1>2, <2>1 DEF AdmissionDue, Sound
    <2>3. open' = open \ ClosedBySettling
        BY <1>6 DEF ExecuteAdmission, ExecuteEnds
    <2> QED BY <1>3, <2>2, <2>3
<1>7. CASE ContinuePrefill
    <2>1. worker' = AfterChunk(Settled) /\ open' = open \ ClosedBySettling
        BY <1>7 DEF ContinuePrefill, ExecuteEnds
    <2>2. worker'.requestId = Settled.requestId /\ worker'.capture = Settled.capture + 1
        BY <1>1, <2>1 DEF AfterChunk, WorkerRecord
    <2>3. worker.requestId \notin step.finished
            => worker'.requestId = worker.requestId /\ worker'.capture >= worker.capture
        BY <1>2, <1>3, <2>2
    <2> QED BY <1>3, <2>1, <2>3
<1>8. CASE ExecuteRefused \/ ExecuteFails \/ DetachFails
    <2>1. worker'.failed = TRUE
        <3>1. CASE ExecuteRefused
            <4>1. worker' = [(IF Unexecutable THEN worker ELSE Settled) EXCEPT !.failed = TRUE]
                BY <3>1 DEF ExecuteRefused
            <4> QED BY <1>1, <1>2, <4>1 DEF WorkerRecord
        <3>2. CASE ExecuteFails
            <4> DEFINE w == IF step.new = {} THEN Settled
                            ELSE Admitted(Settled, CHOOSE r \in step.new : TRUE, FALSE)
            <4>1. DOMAIN w = DOMAIN Settled
                BY <1>1 DEF Admitted, WorkerRecord
            <4> HIDE DEF w
            <4>2. worker' = [w EXCEPT !.failed = TRUE]
                BY <3>2 DEF ExecuteFails, w
            <4> QED BY <1>1, <4>1, <4>2 DEF WorkerRecord
        <3>3. CASE DetachFails
            <4>1. \E ids, held : worker' = [worker EXCEPT !.failed = TRUE, !.decodingIds = ids, !.bridges = held]
                BY <3>3, Zenon DEF DetachFails
            <4> QED BY <1>2, <4>1 DEF WorkerRecord
        <3> QED BY <1>8, <3>1, <3>2, <3>3
    <2> QED BY <2>1
<1>9. CASE Client \/ Schedule \/ Sample \/ Update \/ CloseLifecycle \/ CloseRaises
    BY <1>9 DEF Client, Arrive, Abort, Schedule, ScheduleDecode, SchedulePrefill, ScheduleFallback,
         Sample, SampleMidPrompt, SampleEnds, SampleQuarantined, SampleBridged, SamplerFails,
         BridgeFails, SeedDue, Update, CloseLifecycle, CloseRaises
<1>10. CASE UNCHANGED vars
    BY <1>2, <1>10 DEF vars
<1> QED BY <1>5, <1>6, <1>7, <1>8, <1>9, <1>10 DEF Next, EngineStep, Execute

(* The two releases are independent: a step closes only bridges of requests it names as finished,
   and leaves the capture of an unfinished prompt alone. *)
THEOREM ReleasesOnlyItsOwn == Spec => ReleaseTouchesOnlyOwn
<1>1. Inv /\ [Next]_vars =>
        [ phase = "execute" /\ ~worker'.failed
            => /\ open \ open' \subseteq step.finished
               /\ worker.capture # NoCapture /\ worker.requestId \notin step.finished
                    => worker'.requestId = worker.requestId /\ worker'.capture >= worker.capture
        ]_vars
    BY ReleaseStep
<1> QED BY <1>1, Invariant, PTL DEF Spec, ReleaseTouchesOnlyOwn

(* What one scheduled step carries after a chunk, while somebody decodes. *)
LEMMA TurnStep ==
    ASSUME Inv, Next, phase = "between", phase' = "execute", Decodes # {}, lastChunk # NoRequest
    PROVE  lastChunk' # lastChunk
<1>1. ScheduleDecode \/ SchedulePrefill \/ ScheduleFallback
    BY DEF Next, Client, Arrive, Abort, EngineStep, Schedule, Execute, Sample, Executing,
         ExecuteAdmission, ContinuePrefill, ExecuteDecode, RefuseRound, ExecuteOriginal,
         ExecuteRefused, ExecuteFails, DetachFails, SampleMidPrompt, SampleEnds,
         SampleQuarantined, SampleBridged, SamplerFails, BridgeFails, SeedDue, Update,
         CloseLifecycle, CloseRaises
<1>2. CASE ScheduleDecode \/ ScheduleFallback
    BY <1>2 DEF ScheduleDecode, ScheduleFallback
<1>3. CASE SchedulePrefill
    <2>1. prefilled[lastChunk] >= 1 /\ streak /\ credit = 0 /\ DecodeSteps \in Nat \ {0}
        BY LengthAssumption DEF Inv, Turn
    <2>2. Partials = {}
        <3>1. Partials # {} => YieldsDecode
            BY <2>1 DEF YieldsDecode
        <3> QED BY <1>3, <3>1 DEF SchedulePrefill
    <2>3. CASE Fresh = {}
        BY <1>3, <2>2, <2>3 DEF SchedulePrefill
    <2>4. CASE Fresh # {}
        <3>1. waiting # <<>> /\ Fresh = {Head(waiting)} /\ waiting \in Seq(Request)
            BY <2>4 DEF Fresh, Inv, TypeOK
        <3>2. Head(waiting) \in Request /\ Head(waiting) \in Elements(waiting)
            BY <3>1, HeadAndTail
        <3>3. prefilled[Head(waiting)] = 0
            BY <3>2 DEF Inv, QueueSound
        <3>4. lastChunk' = Head(waiting)
            BY <1>3, <2>2, <3>1, <3>2 DEF SchedulePrefill
        <3> QED BY <2>1, <3>3, <3>4
    <2> QED BY <2>3, <2>4
<1> QED BY <1>1, <1>2, <1>3

(* The alternation graft: while somebody decodes, a prompt's chunk never follows directly on its
   previous chunk. *)
THEOREM DecodersAreServed == Spec => DecodersGetATurn
<1>1. Inv /\ [Next]_vars =>
        [ phase = "between" /\ phase' = "execute" /\ Decodes # {} /\ lastChunk # NoRequest
            => lastChunk' # lastChunk ]_vars
    BY TurnStep
<1> QED BY <1>1, Invariant, PTL DEF Spec, DecodersGetATurn

=============================================================================
