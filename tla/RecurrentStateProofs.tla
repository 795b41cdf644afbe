--------------------------- MODULE RecurrentStateProofs ---------------------------
(***************************************************************************)
(* Proofs about RecurrentState for every pool size, set of requests, row   *)
(* count and setting of the flags: every verify runs on its own request's  *)
(* state, the residency flag is never optimistic, the carries stand at     *)
(* the frontier, and no deferral or undecided segment outlives its step.   *)
(***************************************************************************)
EXTENDS RecurrentState, TLAPS

\* A prompt in its prefill has a request; when its seed is due the state is where the last
\* chunk put it, and no round is on the stack.
SeedInPlace ==
    /\ prefill.stage # "none" => prefill.req \in Request
    /\ prefill.stage = "due" =>
          round.kind = "none" /\ native[prefill.row] = Prefilled(prefill.req)

\* An engine that serves has a request.
ServesARequest == \A s \in Slots : s \in Live => engine[s].req \in Request

\* A round on the stack serves live engines, one verified ticket at a time.
RoundServesLive ==
    /\ round.todo \subseteq Live
    /\ round.kind \in {"none", "drafts"} => round.todo = {}
    /\ round.kind # "none" => ~failed
    /\ \A s, t \in Slots : engine[s].phase = "verified" =>
          s \in round.todo /\ (engine[t].phase = "verified" => t = s)

\* A segment still to be served was verified from its request's state; nothing of it is
\* deferred.  The undecided segments are the entries still to be served.
SegmentsInRound ==
    /\ round.kind = "packed" =>
          /\ \A s \in round.todo : block.base[s] = Own(s) /\ block.deferred[s] = 0
          /\ block.pending = round.todo
          /\ round.todo = {} => block.phase = "idle"
    /\ round.kind # "packed" =>
          block.phase # "verified" /\ (block.phase = "idle" => block.pending = {})

\* Commits are deferred only inside a packed round and its drafts.
DeferralsInRound ==
    /\ round.kind \in {"none", "sequential"} => block.deferred = NothingDeferred /\ ~block.deferring
    /\ round.kind = "none" /\ ~failed => ~block.armed
    /\ ~GdnAfterPairs => block.deferred = NothingDeferred /\ ~block.deferring /\ ~block.armed

\* The inductive invariant: the safety invariants and what they rest on.
Inductive ==
    /\ TypeOK /\ VerifiedOnOwnState /\ ResidentOwnsRow /\ CarryAtFrontier
    /\ SeedInPlace /\ ServesARequest /\ RoundServesLive /\ SegmentsInRound /\ DeferralsInRound

-----------------------------------------------------------------------------
(* Types of the records the actions build *)

\* The states the actions build are states.
LEMMA StateTypes ==
    /\ NoState \in State
    /\ \A r \in Request \cup {NoRequest} : Prefilled(r) \in State
    /\ \A x \in State, n \in Nat : Advance(x, n) \in State
<1>1. NoState \in State BY SMT DEF NoState, State
<1>2. \A r \in Request \cup {NoRequest} : Prefilled(r) \in State BY SMT DEF Prefilled, State
<1>3. ASSUME NEW x \in State, NEW n \in Nat PROVE Advance(x, n) \in State
  <2>1. x.rows + n \in Nat BY SMT DEF State
  <2>2. [x EXCEPT !.rows = x.rows + n] \in State BY <2>1, Zenon DEF State
  <2> QED BY <2>2, <1>1 DEF Advance
<1> QED BY <1>1, <1>2, <1>3

\* Advancing the state of a request adds the rows to its frontier.
LEMMA AdvanceOwn ==
    ASSUME NEW r \in Request, NEW k \in Nat, NEW n \in Nat
    PROVE  Advance([req |-> r, rows |-> k], n) = [req |-> r, rows |-> k + n]
<1>1. [req |-> r, rows |-> k] # NoState BY RequestAssumption, SMT DEF NoState
<1> QED BY <1>1, SMT DEF Advance

\* The records the actions put on a slot are engines.
LEMMA EngineTypes ==
    ASSUME TypeOK, NEW s \in Slots
    PROVE  /\ NoEngine \in EngineType /\ ParkedEngine \in EngineType /\ Failing(s) \in EngineType
           /\ \A x \in State : Verifying(s, x) \in EngineType
           /\ \A n \in Nat : Published(s, n) \in EngineType
           /\ \A b \in BOOLEAN : Serving(b) \in EngineType
<1>0. engine[s] \in EngineType BY DEF TypeOK
<1>1. NoEngine \in EngineType BY StateTypes, SMT DEF NoEngine, EngineType
<1>2. ParkedEngine \in EngineType BY <1>1, Zenon DEF ParkedEngine, EngineType
<1>3. Failing(s) \in EngineType BY <1>0, Zenon DEF Failing, EngineType
<1>4. \A x \in State : Verifying(s, x) \in EngineType BY <1>0, Zenon DEF Verifying, EngineType
<1>5. ASSUME NEW n \in Nat PROVE Published(s, n) \in EngineType
  <2>1. engine[s].position + n \in Nat BY <1>0, SMT DEF EngineType
  <2> QED BY <1>0, <2>1, StateTypes, Zenon DEF Published, EngineType
<1>6. \A b \in BOOLEAN : Serving(b) \in EngineType
  <2>1. prefill.req \in Request \cup {NoRequest} BY DEF TypeOK, PrefillType
  <2> QED BY <2>1, StateTypes, SMT DEF Serving, EngineType
<1> QED BY <1>1, <1>2, <1>3, <1>4, <1>5, <1>6

\* What the field updates of an engine leave and change.
LEMMA EngineFields ==
    ASSUME TypeOK, NEW s \in Slots
    PROVE  /\ Failing(s).phase = "failed"
           /\ \A x : /\ Verifying(s, x).phase = "verified" /\ Verifying(s, x).base = x
                     /\ Verifying(s, x).req = engine[s].req
                     /\ Verifying(s, x).position = engine[s].position
           /\ \A n : /\ Published(s, n).phase = "idle" /\ Published(s, n).req = engine[s].req
                     /\ Published(s, n).position = engine[s].position + n
<1>0. engine[s] \in EngineType BY DEF TypeOK
<1>1. Failing(s).phase = "failed" BY <1>0, SMT DEF Failing, EngineType
<1>2. ASSUME NEW x
      PROVE /\ Verifying(s, x).phase = "verified" /\ Verifying(s, x).base = x
            /\ Verifying(s, x).req = engine[s].req /\ Verifying(s, x).position = engine[s].position
  BY <1>0, SMT DEF Verifying, EngineType
<1>3. ASSUME NEW n
      PROVE /\ Published(s, n).phase = "idle" /\ Published(s, n).req = engine[s].req
            /\ Published(s, n).position = engine[s].position + n
  BY <1>0, SMT DEF Published, EngineType
<1> QED BY <1>1, <1>2, <1>3

\* The carry of a slot, its deferred commit counted in, is a state.
LEMMA FlushedType == ASSUME TypeOK, NEW s \in Slots PROVE Flushed(s) \in State
<1>1. /\ carry[s] \in State /\ block.base[s] \in State /\ block.deferred[s] \in Nat
  BY SMT, RowsAssumption DEF TypeOK, BlockType
<1> QED BY <1>1, StateTypes DEF Flushed

\* The records the actions make of the block.
LEMMA BlockTypes ==
    ASSUME TypeOK
    PROVE  /\ NothingDeferred \in [Slots -> 0..MaxRows]
           /\ Armed \in BlockType /\ Disarmed \in BlockType
           /\ \A b \in BOOLEAN : BlockAfter(b) \in BlockType
           /\ \A p \in {"idle", "failed"} : [block EXCEPT !.phase = p] \in BlockType
           /\ [block EXCEPT !.armed = FALSE] \in BlockType
           /\ [Disarmed EXCEPT !.phase = "failed"] \in BlockType
           /\ [Disarmed EXCEPT !.phase = "closed", !.pending = {}] \in BlockType
<1>0. block \in BlockType BY DEF TypeOK
<1>1. NothingDeferred \in [Slots -> 0..MaxRows] BY RowsAssumption, SMT DEF NothingDeferred
<1>2. GdnAfterPairs \in BOOLEAN BY FlagAssumption
<1>3. Armed \in BlockType BY <1>0, <1>2, Zenon DEF Armed, BlockType
<1>4. Disarmed \in BlockType BY <1>0, <1>1, Zenon DEF Disarmed, BlockType
<1>5. ASSUME NEW b \in BOOLEAN PROVE BlockAfter(b) \in BlockType
  <2> DEFINE p == IF b THEN "failed" ELSE "idle"
  <2>1. p \in {"idle", "verified", "failed", "closed"} OBVIOUS
  <2> HIDE DEF p
  <2>2. [block EXCEPT !.phase = p, !.pending = {}, !.armed = FALSE, !.deferring = FALSE,
                      !.deferred = NothingDeferred] \in BlockType
    BY <1>0, <1>1, <2>1, Zenon DEF BlockType
  <2> QED BY <2>2 DEF BlockAfter, p
<1>6. \A p \in {"idle", "failed"} : [block EXCEPT !.phase = p] \in BlockType
  BY <1>0, Zenon DEF BlockType
<1>7. [block EXCEPT !.armed = FALSE] \in BlockType BY <1>0, Zenon DEF BlockType
<1>8. [Disarmed EXCEPT !.phase = "failed"] \in BlockType BY <1>4, Zenon DEF BlockType
<1>9. [Disarmed EXCEPT !.phase = "closed", !.pending = {}] \in BlockType
  BY <1>4, Zenon DEF BlockType
<1> QED BY <1>1, <1>3, <1>4, <1>5, <1>6, <1>7, <1>8, <1>9

\* What the field updates of the block leave and change.
LEMMA BlockFields ==
    ASSUME TypeOK
    PROVE  /\ Armed.phase = block.phase /\ Armed.base = block.base /\ Armed.pending = block.pending
           /\ Armed.deferring = block.deferring /\ Armed.deferred = block.deferred
           /\ Armed.armed = GdnAfterPairs
           /\ Disarmed.phase = block.phase /\ Disarmed.base = block.base
           /\ Disarmed.pending = block.pending /\ Disarmed.deferring = FALSE
           /\ Disarmed.armed = FALSE /\ Disarmed.deferred = NothingDeferred
           /\ \A b \in BOOLEAN :
                /\ BlockAfter(b).phase = (IF b THEN "failed" ELSE "idle")
                /\ BlockAfter(b).pending = {} /\ BlockAfter(b).armed = FALSE
                /\ BlockAfter(b).deferring = FALSE /\ BlockAfter(b).deferred = NothingDeferred
<1>0. block \in BlockType BY DEF TypeOK
<1>1. /\ Armed.phase = block.phase /\ Armed.base = block.base /\ Armed.pending = block.pending
      /\ Armed.deferring = block.deferring /\ Armed.deferred = block.deferred
      /\ Armed.armed = GdnAfterPairs
  BY <1>0, SMT DEF Armed, BlockType
<1>2. /\ Disarmed.phase = block.phase /\ Disarmed.base = block.base
      /\ Disarmed.pending = block.pending /\ Disarmed.deferring = FALSE
      /\ Disarmed.armed = FALSE /\ Disarmed.deferred = NothingDeferred
  BY <1>0, SMT DEF Disarmed, BlockType
<1>3. ASSUME NEW b \in BOOLEAN
      PROVE /\ BlockAfter(b).phase = (IF b THEN "failed" ELSE "idle")
            /\ BlockAfter(b).pending = {} /\ BlockAfter(b).armed = FALSE
            /\ BlockAfter(b).deferring = FALSE /\ BlockAfter(b).deferred = NothingDeferred
  BY <1>0, SMT DEF BlockAfter, BlockType
<1> QED BY <1>1, <1>2, <1>3

\* The block after a segment's decision.
LEMMA CommitUserFields ==
    ASSUME TypeOK, NEW s \in Slots, NEW n \in 0..MaxRows, CommitUser(s, n)
    PROVE  /\ block' \in BlockType /\ carry' \in [Slots -> State] /\ native' \in [0..1 -> State]
           /\ block'.base = block.base /\ block'.pending = block.pending \ {s}
           /\ block'.phase = (IF block.pending = {s} THEN "idle" ELSE block.phase)
           /\ block'.armed = block.armed /\ block'.deferring = block.deferring
           /\ block'.deferred = IF block.deferring THEN [block.deferred EXCEPT ![s] = n] ELSE block.deferred
<1> DEFINE left == block.pending \ {s}
           phase == IF block.pending = {s} THEN "idle" ELSE block.phase
           deferred == IF block.deferring THEN [block.deferred EXCEPT ![s] = n] ELSE block.deferred
<1>0. block \in BlockType BY DEF TypeOK
<1>1. block' = [block EXCEPT !.pending = left, !.phase = phase, !.deferred = deferred]
  BY <1>0, SMT DEF CommitUser, BlockType
<1>2. phase \in {"idle", "verified", "failed", "closed"} /\ left \in SUBSET Slots
  BY <1>0, SMT DEF BlockType
<1>3. deferred \in [Slots -> 0..MaxRows] BY <1>0, SMT DEF BlockType
<1>4. carry' \in [Slots -> State] /\ native' \in [0..1 -> State]
  <2>1. n \in Nat /\ block.base[s] \in State BY <1>0, SMT DEF BlockType
  <2>2. Advance(block.base[s], n) \in State BY <2>1, StateTypes
  <2> QED BY <2>2, SMT DEF TypeOK, CommitUser
<1> HIDE DEF left, phase, deferred
<1>5. block' \in BlockType BY <1>0, <1>1, <1>2, <1>3, Zenon DEF BlockType
<1>6. /\ block'.base = block.base /\ block'.pending = left /\ block'.phase = phase
      /\ block'.armed = block.armed /\ block'.deferring = block.deferring
      /\ block'.deferred = deferred
  BY <1>0, <1>1, SMT DEF BlockType
<1> QED BY <1>4, <1>5, <1>6 DEF left, phase, deferred

-----------------------------------------------------------------------------
(* Type correctness of every step *)

\* The initial state is typed.
LEMMA TypeInit == Init => TypeOK
<1> SUFFICES ASSUME Init PROVE TypeOK OBVIOUS
<1>1. native \in [0..1 -> State] /\ carry \in [Slots -> State] BY StateTypes, SMT DEF Init
<1>2. engine \in [Slots -> EngineType]
  <2>1. NoEngine \in EngineType BY StateTypes, SMT DEF NoEngine, EngineType
  <2>2. ParkedEngine \in EngineType BY <2>1, Zenon DEF ParkedEngine, EngineType
  <2> QED BY <2>1, <2>2, SMT DEF Init
<1>3. block \in BlockType
  <2>1. NothingDeferred \in [Slots -> 0..MaxRows] BY RowsAssumption, SMT DEF NothingDeferred
  <2>2. [s \in Slots |-> NoState] \in [Slots -> State] BY StateTypes
  <2> QED BY <2>1, <2>2, SMT DEF Init, BlockType
<1>4. round \in RoundType /\ prefill \in PrefillType
  BY SMT DEF Init, NoRound, RoundType, NoPrefill, PrefillType
<1>5. resident \in Slots \cup {NoSlot} /\ arrived \subseteq Request /\ failed \in BOOLEAN /\ closed \in BOOLEAN
  BY DEF Init
<1> QED BY <1>1, <1>2, <1>3, <1>4, <1>5 DEF TypeOK

\* The empty round and the empty prefill are typed.
LEMMA EmptyTypes == NoRound \in RoundType /\ NoPrefill \in PrefillType
BY SMT DEF NoRound, RoundType, NoPrefill, PrefillType

\* A prefill chunk keeps the types of the native rows and of the prefill.
LEMMA ChunkTypes ==
    ASSUME TypeOK, NEW r \in Request \cup {NoRequest}, NEW row \in 0..1, NEW last \in BOOLEAN, ChunkWrites(r, row, last)
    PROVE  native' \in [0..1 -> State] /\ prefill' \in PrefillType
<1>1. native' \in [0..1 -> State] BY StateTypes, SMT DEF TypeOK, ChunkWrites
<1>2. prefill' \in PrefillType BY SMT DEF ChunkWrites, PrefillType
<1> QED BY <1>1, <1>2

\* Adopting the prefill slot keeps the types of the rows, the carries and the engines.
LEMMA BindTypes ==
    ASSUME TypeOK, NEW s \in Slots, NEW b \in BOOLEAN, Bind(s, b)
    PROVE  TypeOK'
<1>1. prefill.row \in 0..1 BY DEF TypeOK, PrefillType
<1>2. native[prefill.row] \in State BY <1>1 DEF TypeOK
<1>3. Serving(b) \in EngineType BY EngineTypes
<1> QED BY <1>2, <1>3, EmptyTypes, SMT DEF Bind, TypeOK


\* Every action keeps the types.
LEMMA TypeStep == TypeOK /\ [Next]_vars => TypeOK'
<1> SUFFICES ASSUME TypeOK, [Next]_vars PROVE TypeOK' OBVIOUS
<1>1. CASE PrefillBegins
  <2>1. PICK r \in Request \ arrived, row \in 0..1, last \in BOOLEAN :
          ChunkWrites(r, row, last) /\ arrived' = arrived \cup {r}
    BY <1>1 DEF PrefillBegins
  <2> QED BY <1>1, <2>1, ChunkTypes, SMT DEF PrefillBegins, TypeOK
<1>2. CASE PrefillContinues
  <2>1. PICK row \in 0..1, last \in BOOLEAN :
          /\ ChunkWrites(prefill.req, row, last)
          /\ resident' = IF row = 0 THEN NoSlot ELSE resident
    BY <1>2 DEF PrefillContinues
  <2>2. prefill.req \in Request \cup {NoRequest} BY DEF TypeOK, PrefillType
  <2> QED BY <1>2, <2>1, <2>2, ChunkTypes, SMT DEF PrefillContinues, TypeOK
<1>3. CASE PrefillFails BY <1>3, StateTypes, SMT DEF PrefillFails, TypeOK
<1>4. CASE PrefillAborted BY <1>4, EmptyTypes, SMT DEF PrefillAborted, TypeOK
<1>5. CASE EndsAtSeed BY <1>5, EmptyTypes, SMT DEF EndsAtSeed, TypeOK
<1>6. CASE SampleFails BY <1>6, SMT DEF SampleFails, TypeOK
<1>7. CASE BuildEngine BY <1>7, BindTypes DEF BuildEngine
<1>8. CASE RebindEngine BY <1>8, BindTypes DEF RebindEngine
<1>9. CASE AdoptionFails
  <2>1. prefill.row \in 0..1 BY DEF TypeOK, PrefillType
  <2> QED BY <1>9, <2>1, StateTypes, EmptyTypes, SMT DEF AdoptionFails, TypeOK
<1>10. CASE BindFails BY <1>10, StateTypes, EmptyTypes, EngineTypes, SMT DEF BindFails, TypeOK
<1>11. CASE BeginSequential
  <2>1. PICK entries \in (SUBSET Idle) \ {{}} : round' = [kind |-> "sequential", todo |-> entries]
    BY <1>11 DEF BeginSequential
  <2>2. entries \in SUBSET Slots BY DEF Idle
  <2>3. round' \in RoundType BY <2>1, <2>2, SMT DEF RoundType
  <2> QED BY <1>11, <2>3, BlockTypes DEF BeginSequential, TypeOK
<1>12. CASE PackedVerify
  <2>1. PICK entries \in (SUBSET Idle) \ {{}} :
          /\ round' = [kind |-> "packed", todo |-> entries]
          /\ block' = [phase |-> "verified", base |-> [s \in Slots |-> Flushed(s)], pending |-> entries,
                       armed |-> FALSE, deferring |-> GdnAfterPairs, deferred |-> NothingDeferred]
    BY <1>12 DEF PackedVerify
  <2>2. entries \in SUBSET Slots BY DEF Idle
  <2>3. round' \in RoundType BY <2>1, <2>2, SMT DEF RoundType
  <2>4. [s \in Slots |-> Flushed(s)] \in [Slots -> State] BY FlushedType
  <2>5. block' \in BlockType BY <2>1, <2>2, <2>4, BlockTypes, FlagAssumption, SMT DEF BlockType
  <2> QED BY <1>12, <2>3, <2>4, <2>5, StateTypes, SMT DEF PackedVerify, TypeOK
<1>13. CASE PackedVerifyFails
  <2>1. block' \in BlockType BY <1>13, BlockTypes, Zenon DEF PackedVerifyFails
  <2>2. native' \in [0..1 -> State] BY <1>13, StateTypes, SMT DEF PackedVerifyFails, TypeOK
  <2> QED BY <1>13, <2>1, <2>2 DEF PackedVerifyFails, TypeOK
<1>14. CASE StepReturns
  <2>1. round' \in RoundType BY <1>14, EmptyTypes, SMT DEF StepReturns, RoundType
  <2> QED BY <1>14, <2>1 DEF StepReturns, TypeOK
<1>15. CASE FlushCommits
  <2>1. [s \in Slots |-> Flushed(s)] \in [Slots -> State] BY FlushedType
  <2>2. native' \in [0..1 -> State] /\ resident' \in Slots \cup {NoSlot}
    BY <1>15, FlushedType, SMT DEF FlushCommits, Deferred, TypeOK
  <2> QED BY <1>15, <2>1, <2>2, BlockTypes, EmptyTypes DEF FlushCommits, TypeOK
<1>16. CASE FlushFails
  <2>1. carry' \in [Slots -> State] BY <1>16, FlushedType, StateTypes, SMT DEF FlushFails, TypeOK
  <2>2. native' \in [0..1 -> State] BY <1>16, StateTypes, SMT DEF FlushFails, TypeOK
  <2> QED BY <1>16, <2>1, <2>2, BlockTypes, EmptyTypes DEF FlushFails, TypeOK
<1>17. CASE Shutdown
  <2>1. engine' \in [Slots -> EngineType] BY <1>17, StateTypes, SMT DEF Shutdown, NoEngine, EngineType
  <2> QED BY <1>17, <2>1, BlockTypes, EmptyTypes DEF Shutdown, TypeOK
<1>18. CASE Stopped BY <1>18 DEF Stopped, vars, TypeOK
<1>19. ASSUME NEW s \in Slots, Verify(s) PROVE TypeOK'
  <2>1. (IF resident = s THEN native[0] ELSE carry[s]) \in State BY SMT DEF TypeOK
  <2> QED BY <1>19, <2>1, EngineTypes, StateTypes, SMT DEF Verify, TypeOK
<1>20. ASSUME NEW s \in Slots, Publish(s) PROVE TypeOK'
  <2>1. PICK n \in Committable(s) :
          /\ native' = [native EXCEPT ![0] = Advance(engine[s].base, n)]
          /\ carry' = [carry EXCEPT ![s] = Advance(engine[s].base, n)]
          /\ engine' = [engine EXCEPT ![s] = Published(s, n)]
    BY <1>20 DEF Publish
  <2>2. n \in Nat BY RowsAssumption, SMT DEF Committable
  <2>3. engine[s].base \in State BY DEF TypeOK, EngineType
  <2>4. Advance(engine[s].base, n) \in State /\ Published(s, n) \in EngineType
    BY <2>2, <2>3, StateTypes, EngineTypes
  <2>5. round' \in RoundType BY <1>20, SMT DEF Publish, TypeOK, RoundType
  <2> QED BY <1>20, <2>1, <2>4, <2>5, SMT DEF Publish, TypeOK
<1>21. ASSUME NEW s \in Slots, StepAnswered(s) PROVE TypeOK'
  <2>1. round' \in RoundType BY <1>21, SMT DEF StepAnswered, TypeOK, RoundType
  <2> QED BY <1>21, <2>1 DEF StepAnswered, TypeOK
<1>22. ASSUME NEW s \in Slots, StepFails(s) PROVE TypeOK'
  <2>1. block' \in BlockType BY <1>22, BlockTypes, Zenon DEF StepFails
  <2>2. native' \in [0..1 -> State] /\ carry' \in [Slots -> State] /\ resident' \in Slots \cup {NoSlot}
    BY <1>22, StateTypes, SMT DEF StepFails, TypeOK
  <2>3. engine' \in [Slots -> EngineType] BY <1>22, EngineTypes, SMT DEF StepFails, TypeOK
  <2> QED BY <1>22, <2>1, <2>2, <2>3, EmptyTypes DEF StepFails, TypeOK
<1>23. ASSUME NEW s \in Slots, AdoptPacked(s) PROVE TypeOK'
  <2>1. block.base[s] \in State BY DEF TypeOK, BlockType
  <2> QED BY <1>23, <2>1, EngineTypes, SMT DEF AdoptPacked, TypeOK
<1>24. ASSUME NEW s \in Slots, PublishPacked(s) PROVE TypeOK'
  <2>1. PICK n \in Committable(s) : CommitUser(s, n) /\ engine' = [engine EXCEPT ![s] = Published(s, n)]
    BY <1>24 DEF PublishPacked
  <2>2. n \in 0..MaxRows /\ n \in Nat BY RowsAssumption, SMT DEF Committable
  <2>3. resident' = NoSlot BY <2>1 DEF CommitUser
  <2>4. round' \in RoundType BY <1>24, SMT DEF PublishPacked, TypeOK, RoundType
  <2>5. Published(s, n) \in EngineType BY <2>2, EngineTypes
  <2>6. engine' \in [Slots -> EngineType] BY <2>1, <2>5 DEF TypeOK
  <2>7. block' \in BlockType /\ carry' \in [Slots -> State] /\ native' \in [0..1 -> State]
    BY <2>1, <2>2, CommitUserFields
  <2> QED BY <1>24, <2>3, <2>4, <2>6, <2>7 DEF PublishPacked, TypeOK
<1>25. ASSUME NEW s \in Slots, FailRound(s) PROVE TypeOK'
  <2>1. [t \in Slots |-> Flushed(t)] \in [Slots -> State] BY FlushedType
  <2>2. block' \in BlockType BY <1>25, BlockTypes DEF FailRound
  <2>3. [carry EXCEPT ![s] = NoState] \in [Slots -> State] /\ carry \in [Slots -> State]
    BY StateTypes DEF TypeOK
  <2>4. carry' \in [Slots -> State] BY <1>25, <2>1, <2>3, Zenon DEF FailRound
  <2>5. native' \in [0..1 -> State] BY <1>25, StateTypes, SMT DEF FailRound, TypeOK
  <2>6. engine' \in [Slots -> EngineType] BY <1>25, EngineTypes, SMT DEF FailRound, TypeOK
  <2> QED BY <1>25, <2>2, <2>4, <2>5, <2>6, EmptyTypes DEF FailRound, TypeOK
<1>26. ASSUME NEW s \in Slots, ParkEngine(s) PROVE TypeOK'
  BY <1>26, EngineTypes, SMT DEF ParkEngine, Displaced, TypeOK
<1>27. ASSUME NEW s \in Slots, CloseEngine(s) PROVE TypeOK'
  BY <1>27, EngineTypes, SMT DEF CloseEngine, Displaced, TypeOK
<1>28. ASSUME NEW s \in Slots, Repark(s) PROVE TypeOK'
  BY <1>28, EngineTypes, StateTypes, SMT DEF Repark, TypeOK
<1>29. ASSUME NEW s \in Slots, ReparkFails(s) PROVE TypeOK'
  BY <1>29, StateTypes, SMT DEF ReparkFails, Displaced, TypeOK
<1>30. CASE UNCHANGED vars BY <1>30 DEF vars, TypeOK
<1> QED
  BY <1>1, <1>2, <1>3, <1>4, <1>5, <1>6, <1>7, <1>8, <1>9, <1>10, <1>11, <1>12, <1>13, <1>14, <1>15,
     <1>16, <1>17, <1>18, <1>19, <1>20, <1>21, <1>22, <1>23, <1>24, <1>25, <1>26, <1>27, <1>28, <1>29,
     <1>30 DEF Next

-----------------------------------------------------------------------------
(* The parts of the inductive invariant, one lemma each *)

\* One slot's engine is replaced.
LEMMA EngineAt ==
    ASSUME TypeOK, NEW s \in Slots, NEW v, engine' = [engine EXCEPT ![s] = v]
    PROVE  engine'[s] = v /\ \A t \in Slots : t # s => engine'[t] = engine[t]
BY SMT DEF TypeOK

\* An action that builds or rebinds an engine puts it on a free slot.
LEMMA BindSteps ==
    ASSUME BuildEngine \/ RebindEngine
    PROVE  Sampling /\ \E s \in Slots, b \in BOOLEAN : Free(s) /\ Bind(s, b)
BY DEF BuildEngine, RebindEngine, NextSlot

\* The phases of the engines that hold no ticket, and where a new engine stands.
LEMMA IdlePhases ==
    /\ NoEngine.phase = "none" /\ ParkedEngine.phase = "parked"
    /\ \A b \in BOOLEAN : /\ Serving(b).phase = "idle" /\ Serving(b).req = prefill.req
                          /\ Serving(b).position = 0
BY SMT DEF NoEngine, ParkedEngine, Serving

\* Replacing an engine by one that is not verified keeps the verified ones on their state.
LEMMA OwnStateKept ==
    ASSUME TypeOK, VerifiedOnOwnState, NEW s \in Slots, NEW v,
           engine' = [engine EXCEPT ![s] = v], v.phase # "verified"
    PROVE  VerifiedOnOwnState'
BY EngineAt DEF VerifiedOnOwnState, Own

\* A verify takes its base from the resident row or the flushed carry, both its own state.
LEMMA OwnStateStep == ASSUME Inductive, Next PROVE VerifiedOnOwnState'
<1>0. TypeOK /\ VerifiedOnOwnState BY DEF Inductive
<1>1. CASE UNCHANGED engine BY <1>0, <1>1 DEF VerifiedOnOwnState, Own
<1>2. CASE BuildEngine \/ RebindEngine
  <2>1. PICK s \in Slots, b \in BOOLEAN : Bind(s, b) BY <1>2, BindSteps
  <2> QED BY <1>0, <2>1, OwnStateKept, IdlePhases DEF Bind
<1>3. CASE BindFails BY <1>0, <1>3, OwnStateKept, IdlePhases DEF BindFails
<1>4. CASE Shutdown BY <1>4, IdlePhases DEF Shutdown, VerifiedOnOwnState
<1>5. ASSUME NEW s \in Slots, Verify(s) PROVE VerifiedOnOwnState'
  <2> DEFINE base == IF resident = s THEN native[0] ELSE carry[s]
  <2>1. s \in Live /\ ~failed /\ block.deferred = NothingDeferred /\ s # NoSlot
    BY <1>5, RequestAssumption DEF Verify, Inductive, RoundServesLive, DeferralsInRound
  <2>2. carry[s] = Own(s)
    <3>1. block.deferred[s] = 0 BY <2>1 DEF NothingDeferred
    <3> QED BY <2>1, <3>1 DEF Inductive, CarryAtFrontier, Flushed
  <2>3. resident = s => native[0] = Own(s)
    BY <1>5, <2>1 DEF Verify, Inductive, ResidentOwnsRow
  <2>4. base = Own(s) BY <2>2, <2>3
  <2>5. engine' = [engine EXCEPT ![s] = Verifying(s, base)] BY <1>5 DEF Verify
  <2> HIDE DEF base
  <2> QED BY <1>0, <2>4, <2>5, EngineAt, EngineFields DEF VerifiedOnOwnState, Own
<1>6. ASSUME NEW s \in Slots, AdoptPacked(s) PROVE VerifiedOnOwnState'
  <2>1. block.base[s] = Own(s) BY <1>6 DEF AdoptPacked, Inductive, SegmentsInRound
  <2>2. engine' = [engine EXCEPT ![s] = Verifying(s, block.base[s])] BY <1>6 DEF AdoptPacked
  <2> QED BY <1>0, <2>1, <2>2, EngineAt, EngineFields DEF VerifiedOnOwnState, Own
<1>7. ASSUME NEW s \in Slots, Publish(s) \/ PublishPacked(s) PROVE VerifiedOnOwnState'
  <2>1. PICK n : engine' = [engine EXCEPT ![s] = Published(s, n)]
    BY <1>7 DEF Publish, PublishPacked
  <2>2. Published(s, n).phase # "verified" BY <1>0, EngineFields
  <2> QED BY <1>0, <2>1, <2>2, OwnStateKept
<1>8. ASSUME NEW s \in Slots, StepFails(s) \/ FailRound(s) PROVE VerifiedOnOwnState'
  <2>1. engine' = [engine EXCEPT ![s] = Failing(s)] BY <1>8 DEF StepFails, FailRound
  <2>2. Failing(s).phase # "verified" BY <1>0, EngineFields
  <2> QED BY <1>0, <2>1, <2>2, OwnStateKept
<1>9. ASSUME NEW s \in Slots, ParkEngine(s) \/ CloseEngine(s) \/ Repark(s) PROVE VerifiedOnOwnState'
  BY <1>0, <1>9, OwnStateKept, IdlePhases DEF ParkEngine, CloseEngine, Repark
<1> QED
  BY <1>1, <1>2, <1>3, <1>4, <1>5, <1>6, <1>7, <1>8, <1>9
  DEF Next, PrefillBegins, PrefillContinues, PrefillFails, PrefillAborted, EndsAtSeed, SampleFails,
      AdoptionFails, BeginSequential, PackedVerify, PackedVerifyFails, StepReturns, FlushCommits,
      FlushFails, Stopped, vars, StepAnswered, ReparkFails

\* The engines that serve: the request of each, and one verified ticket at a time.
LEMMA ServesStep == ASSUME Inductive, Next PROVE ServesARequest'
<1>0. TypeOK /\ ServesARequest BY DEF Inductive
<1>1. CASE UNCHANGED engine BY <1>0, <1>1 DEF ServesARequest, Live
<1>2. CASE BuildEngine \/ RebindEngine
  <2>1. PICK s \in Slots, b \in BOOLEAN : Bind(s, b) BY <1>2, BindSteps
  <2>2. prefill.req \in Request BY <1>2, BindSteps DEF Sampling, Inductive, SeedInPlace
  <2> QED BY <1>0, <2>1, <2>2, EngineAt, IdlePhases DEF Bind, ServesARequest, Live
<1>3. CASE BindFails BY <1>0, <1>3, EngineAt, IdlePhases DEF BindFails, ServesARequest, Live
<1>4. CASE Shutdown BY <1>4, IdlePhases DEF Shutdown, ServesARequest, Live
<1>5. ASSUME NEW s \in Slots, Verify(s) \/ AdoptPacked(s) PROVE ServesARequest'
  <2>1. s \in Live BY <1>5 DEF Verify, AdoptPacked, Live
  <2>2. PICK x : engine' = [engine EXCEPT ![s] = Verifying(s, x)] BY <1>5 DEF Verify, AdoptPacked
  <2> QED BY <1>0, <2>1, <2>2, EngineAt, EngineFields DEF ServesARequest, Live
<1>6. ASSUME NEW s \in Slots, Publish(s) \/ PublishPacked(s) PROVE ServesARequest'
  <2>1. s \in Live BY <1>6 DEF Publish, PublishPacked, Live
  <2>2. PICK n : engine' = [engine EXCEPT ![s] = Published(s, n)]
    BY <1>6 DEF Publish, PublishPacked
  <2> QED BY <1>0, <2>1, <2>2, EngineAt, EngineFields DEF ServesARequest, Live
<1>7. ASSUME NEW s \in Slots, StepFails(s) \/ FailRound(s) PROVE ServesARequest'
  <2>1. engine' = [engine EXCEPT ![s] = Failing(s)] BY <1>7 DEF StepFails, FailRound
  <2> QED BY <1>0, <2>1, EngineAt, EngineFields DEF ServesARequest, Live
<1>8. ASSUME NEW s \in Slots, ParkEngine(s) \/ CloseEngine(s) \/ Repark(s) PROVE ServesARequest'
  BY <1>0, <1>8, EngineAt, IdlePhases DEF ParkEngine, CloseEngine, Repark, ServesARequest, Live
<1> QED
  BY <1>1, <1>2, <1>3, <1>4, <1>5, <1>6, <1>7, <1>8
  DEF Next, PrefillBegins, PrefillContinues, PrefillFails, PrefillAborted, EndsAtSeed, SampleFails,
      AdoptionFails, BeginSequential, PackedVerify, PackedVerifyFails, StepReturns, FlushCommits,
      FlushFails, Stopped, vars, StepAnswered, ReparkFails

\* From the last chunk to the seed nothing writes the row that holds the prompt's state.
LEMMA SeedStep == ASSUME Inductive, Next PROVE SeedInPlace'
<1>0. TypeOK /\ SeedInPlace BY DEF Inductive
<1>1. CASE UNCHANGED <<native, round, prefill>> BY <1>0, <1>1 DEF SeedInPlace
<1>2. CASE prefill' = NoPrefill BY <1>2, SMT DEF SeedInPlace, NoPrefill
<1>3. CASE UNCHANGED prefill /\ (prefill.stage # "due" \/ round.kind # "none")
  BY <1>0, <1>3 DEF SeedInPlace
<1>4. CASE PrefillBegins
  <2>1. PICK r \in Request, row \in 0..1, last \in BOOLEAN : ChunkWrites(r, row, last)
    BY <1>4 DEF PrefillBegins
  <2>2. round.kind = "none" /\ UNCHANGED round BY <1>4, SMT DEF PrefillBegins, Quiet, NoRound
  <2> QED BY <1>0, <2>1, <2>2, SMT DEF ChunkWrites, SeedInPlace, TypeOK
<1>5. CASE PrefillContinues
  <2>1. PICK row \in 0..1, last \in BOOLEAN : ChunkWrites(prefill.req, row, last)
    BY <1>5 DEF PrefillContinues
  <2>2. round.kind = "none" /\ UNCHANGED round BY <1>5, SMT DEF PrefillContinues, Quiet, NoRound
  <2>3. prefill.req \in Request BY <1>0, <1>5, SMT DEF PrefillContinues, SeedInPlace
  <2> QED BY <1>0, <2>1, <2>2, <2>3, SMT DEF ChunkWrites, SeedInPlace, TypeOK
<1>6. CASE BuildEngine \/ RebindEngine BY <1>2, <1>6, BindSteps DEF Bind
<1>7. CASE \/ PrefillFails \/ BeginSequential \/ PackedVerify \/ PackedVerifyFails
           \/ \E s \in Slots : ParkEngine(s) \/ CloseEngine(s) \/ Repark(s) \/ ReparkFails(s)
  <2>1. UNCHANGED prefill /\ prefill.stage # "due"
    BY <1>7 DEF PrefillFails, BeginSequential, PackedVerify, PackedVerifyFails, ParkEngine, CloseEngine,
                Repark, ReparkFails, Executing, IdleMoment
  <2> QED BY <1>3, <2>1
<1>8. CASE \/ StepReturns \/ FlushCommits \/ FlushFails
           \/ \E s \in Slots : \/ Verify(s) \/ Publish(s) \/ StepAnswered(s) \/ StepFails(s)
                               \/ AdoptPacked(s) \/ PublishPacked(s) \/ FailRound(s)
  <2>1. UNCHANGED prefill /\ round.kind # "none"
    BY <1>8 DEF StepReturns, FlushCommits, FlushFails, Verify, Publish, StepAnswered, StepFails,
                AdoptPacked, PublishPacked, FailRound
  <2> QED BY <1>3, <2>1
<1> QED
  BY <1>1, <1>2, <1>4, <1>5, <1>6, <1>7, <1>8
  DEF Next, PrefillAborted, EndsAtSeed, SampleFails, AdoptionFails, BindFails, Shutdown, Stopped, vars

\* A round that is on the stack still serves live engines.
LEMMA RoundStep == ASSUME Inductive, Next PROVE RoundServesLive'
<1>0. TypeOK /\ RoundServesLive BY DEF Inductive
<1>1. CASE UNCHANGED <<engine, round, failed>> BY <1>0, <1>1 DEF RoundServesLive, Live
<1>2. ASSUME round' = NoRound, \A t \in Slots : engine'[t].phase # "verified" PROVE RoundServesLive'
  BY <1>2, SMT DEF NoRound, RoundServesLive
<1>3. round = NoRound => round.kind = "none" /\ \A t \in Slots : engine[t].phase # "verified"
  BY <1>0, SMT DEF NoRound, RoundServesLive
<1>4. CASE \/ PrefillBegins \/ PrefillContinues \/ PrefillFails \/ PrefillAborted \/ EndsAtSeed
           \/ SampleFails \/ AdoptionFails \/ PackedVerifyFails \/ \E s \in Slots : ReparkFails(s)
  <2>1. round = NoRound /\ UNCHANGED <<engine, round>>
    BY <1>4 DEF PrefillBegins, PrefillContinues, PrefillFails, PrefillAborted, EndsAtSeed, SampleFails,
        AdoptionFails, PackedVerifyFails, ReparkFails, Sampling, Executing, IdleMoment, Quiet
  <2> QED BY <1>2, <1>3, <2>1
<1>5. CASE BuildEngine \/ RebindEngine
  <2>1. PICK s \in Slots, b \in BOOLEAN : Bind(s, b) BY <1>5, BindSteps
  <2>2. round = NoRound /\ UNCHANGED round BY <1>5, <2>1, BindSteps DEF Bind, Sampling, Quiet
  <2>3. engine' = [engine EXCEPT ![s] = Serving(b)] BY <2>1 DEF Bind
  <2>4. \A t \in Slots : engine'[t].phase # "verified" BY <1>0, <1>3, <2>2, <2>3, EngineAt, IdlePhases
  <2> QED BY <1>2, <2>2, <2>4
<1>6. CASE BindFails \/ \E s \in Slots : ParkEngine(s) \/ CloseEngine(s) \/ Repark(s)
  <2>1. round = NoRound /\ UNCHANGED round
    BY <1>6 DEF BindFails, ParkEngine, CloseEngine, Repark, Sampling, Executing, IdleMoment, Quiet
  <2>2. PICK s \in Slots : \E v \in {NoEngine, ParkedEngine} : engine' = [engine EXCEPT ![s] = v]
    BY <1>6 DEF BindFails, ParkEngine, CloseEngine, Repark
  <2>3. \A t \in Slots : engine'[t].phase # "verified" BY <1>0, <1>3, <2>1, <2>2, EngineAt, IdlePhases
  <2> QED BY <1>2, <2>1, <2>3
<1>7. CASE Shutdown BY <1>2, <1>7, IdlePhases DEF Shutdown
<1>8. CASE BeginSequential \/ PackedVerify
  <2>1. round = NoRound /\ ~failed /\ UNCHANGED <<engine, failed>>
    BY <1>8 DEF BeginSequential, PackedVerify, Executing, Quiet
  <2>2. PICK entries \in SUBSET Idle, kind \in {"sequential", "packed"} :
          round' = [kind |-> kind, todo |-> entries]
    BY <1>8 DEF BeginSequential, PackedVerify
  <2>3. entries \subseteq Live BY DEF Idle, Live
  <2> QED BY <1>3, <2>1, <2>2, <2>3, SMT DEF RoundServesLive, Live
<1>9. CASE StepReturns
  <2>1. \A t \in Slots : engine[t].phase # "verified" BY <1>0, <1>9 DEF StepReturns, RoundServesLive
  <2> QED BY <1>0, <1>9, <2>1, SMT DEF StepReturns, RoundServesLive, NoRound
<1>10. CASE FlushCommits \/ FlushFails
  <2>1. \A t \in Slots : engine[t].phase # "verified"
    BY <1>0, <1>10 DEF FlushCommits, FlushFails, RoundServesLive
  <2> QED BY <1>2, <1>10, <2>1 DEF FlushCommits, FlushFails
<1>11. ASSUME NEW s \in Slots, Verify(s) \/ AdoptPacked(s) PROVE RoundServesLive'
  <2>1. /\ s \in round.todo /\ UNCHANGED <<round, failed>>
        /\ \A t \in Slots : engine[t].phase # "verified"
    BY <1>11 DEF Verify, AdoptPacked, NothingVerified
  <2>2. PICK x : engine' = [engine EXCEPT ![s] = Verifying(s, x)] BY <1>11 DEF Verify, AdoptPacked
  <2>3. engine'[s].phase = "verified" /\ \A t \in Slots : t # s => engine'[t] = engine[t]
    <3>1. engine'[s] = Verifying(s, x) /\ \A t \in Slots : t # s => engine'[t] = engine[t]
      BY <1>0, <2>2, EngineAt
    <3>2. Verifying(s, x).phase = "verified" BY <1>0, EngineFields
    <3> QED BY <3>1, <3>2
  <2> QED BY <1>0, <2>1, <2>3 DEF RoundServesLive, Live
<1>12. ASSUME NEW s \in Slots, Publish(s) \/ PublishPacked(s) PROVE RoundServesLive'
  <2>1. /\ s \in round.todo /\ engine[s].phase = "verified" /\ UNCHANGED failed
        /\ round' = [round EXCEPT !.todo = @ \ {s}]
    BY <1>12 DEF Publish, PublishPacked
  <2>2. round'.todo = round.todo \ {s} /\ round'.kind = round.kind BY <1>0, <2>1, SMT DEF TypeOK, RoundType
  <2>3. PICK n : engine' = [engine EXCEPT ![s] = Published(s, n)] BY <1>12 DEF Publish, PublishPacked
  <2>4. engine'[s].phase = "idle" /\ \A t \in Slots : t # s => engine'[t] = engine[t]
    <3>1. engine'[s] = Published(s, n) /\ \A t \in Slots : t # s => engine'[t] = engine[t]
      BY <1>0, <2>3, EngineAt
    <3>2. Published(s, n).phase = "idle" BY <1>0, EngineFields
    <3> QED BY <3>1, <3>2
  <2> QED BY <1>0, <2>1, <2>2, <2>4 DEF RoundServesLive, Live
<1>13. ASSUME NEW s \in Slots, StepAnswered(s) PROVE RoundServesLive'
  <2>1. /\ UNCHANGED <<engine, failed>> /\ round' = [round EXCEPT !.todo = @ \ {s}]
        /\ \A t \in Slots : engine[t].phase # "verified"
    BY <1>13 DEF StepAnswered, NothingVerified
  <2>2. round'.todo = round.todo \ {s} /\ round'.kind = round.kind BY <1>0, <2>1, SMT DEF TypeOK, RoundType
  <2> QED BY <1>0, <2>1, <2>2 DEF RoundServesLive, Live
<1>14. ASSUME NEW s \in Slots, StepFails(s) \/ FailRound(s) PROVE RoundServesLive'
  <2>1. /\ engine[s].phase = "verified" \/ \A t \in Slots : engine[t].phase # "verified"
        /\ engine' = [engine EXCEPT ![s] = Failing(s)] /\ round' = NoRound
    BY <1>14 DEF StepFails, FailRound, NothingVerified
  <2>2. \A t \in Slots : t # s => engine[t].phase # "verified" BY <1>0, <2>1 DEF RoundServesLive
  <2>3. \A t \in Slots : engine'[t].phase # "verified"
    <3>1. engine'[s] = Failing(s) /\ \A t \in Slots : t # s => engine'[t] = engine[t]
      BY <1>0, <2>1, EngineAt
    <3>2. Failing(s).phase = "failed" BY <1>0, EngineFields
    <3> QED BY <2>2, <3>1, <3>2
  <2> QED BY <1>2, <2>1, <2>3
<1> QED
  BY <1>1, <1>4, <1>5, <1>6, <1>7, <1>8, <1>9, <1>10, <1>11, <1>12, <1>13, <1>14 DEF Next, Stopped, vars

\* A block whose phase alone changed.
LEMMA PhaseFields ==
    ASSUME TypeOK, NEW p, block' = [block EXCEPT !.phase = p]
    PROVE  /\ block'.phase = p /\ block'.pending = block.pending /\ block'.base = block.base
           /\ block'.armed = block.armed /\ block'.deferring = block.deferring
           /\ block'.deferred = block.deferred
BY SMT DEF TypeOK, BlockType

\* A block whose deferral alone was disarmed.
LEMMA ArmedFields ==
    ASSUME TypeOK, block' = [block EXCEPT !.armed = FALSE]
    PROVE  /\ block'.phase = block.phase /\ block'.pending = block.pending /\ block'.base = block.base
           /\ block'.armed = FALSE /\ block'.deferring = block.deferring
           /\ block'.deferred = block.deferred
BY SMT DEF TypeOK, BlockType

\* A disarmed block in a last phase.
LEMMA DisarmedFields ==
    ASSUME TypeOK
    PROVE  /\ [Disarmed EXCEPT !.phase = "failed"].phase = "failed"
           /\ [Disarmed EXCEPT !.phase = "failed"].armed = FALSE
           /\ [Disarmed EXCEPT !.phase = "failed"].deferring = FALSE
           /\ [Disarmed EXCEPT !.phase = "failed"].deferred = NothingDeferred
           /\ [Disarmed EXCEPT !.phase = "closed", !.pending = {}].phase = "closed"
           /\ [Disarmed EXCEPT !.phase = "closed", !.pending = {}].armed = FALSE
           /\ [Disarmed EXCEPT !.phase = "closed", !.pending = {}].deferring = FALSE
           /\ [Disarmed EXCEPT !.phase = "closed", !.pending = {}].deferred = NothingDeferred
<1>1. Disarmed \in BlockType BY BlockTypes
<1>2. Disarmed.armed = FALSE /\ Disarmed.deferring = FALSE /\ Disarmed.deferred = NothingDeferred
  BY BlockFields
<1> HIDE DEF Disarmed
<1> QED BY <1>1, <1>2, SMT DEF BlockType

\* The actions between two rounds that leave the block alone.
BetweenRounds ==
    \/ PrefillBegins \/ PrefillContinues \/ PrefillFails \/ PrefillAborted \/ EndsAtSeed
    \/ SampleFails \/ BuildEngine \/ RebindEngine \/ AdoptionFails \/ BindFails
    \/ \E s \in Slots : ParkEngine(s) \/ CloseEngine(s) \/ Repark(s) \/ ReparkFails(s)

\* An action between rounds leaves the block and the round alone.
LEMMA BetweenRoundsFrame == ASSUME BetweenRounds PROVE round.kind = "none" /\ UNCHANGED <<block, round>>
<1>1. CASE \/ PrefillBegins \/ PrefillContinues \/ PrefillFails \/ PrefillAborted \/ EndsAtSeed
           \/ SampleFails \/ AdoptionFails \/ BindFails
           \/ \E s \in Slots : ParkEngine(s) \/ CloseEngine(s) \/ Repark(s) \/ ReparkFails(s)
  <2>1. round = NoRound /\ UNCHANGED <<block, round>>
    BY <1>1 DEF PrefillBegins, PrefillContinues, PrefillFails, PrefillAborted, EndsAtSeed, SampleFails,
        AdoptionFails, BindFails, ParkEngine, CloseEngine, Repark, ReparkFails,
        Sampling, Executing, IdleMoment, Quiet
  <2> QED BY <2>1, SMT DEF NoRound
<1>2. CASE BuildEngine \/ RebindEngine
  <2>1. round = NoRound /\ UNCHANGED <<block, round>> BY <1>2, BindSteps DEF Bind, Sampling, Quiet
  <2> QED BY <2>1, SMT DEF NoRound
<1> QED BY <1>1, <1>2 DEF BetweenRounds

\* The undecided segments stay those of the round on the stack.
LEMMA SegmentsStep == ASSUME Inductive, Next PROVE SegmentsInRound'
<1>0. TypeOK /\ SegmentsInRound BY DEF Inductive
<1>1. CASE BetweenRounds BY <1>0, <1>1, BetweenRoundsFrame DEF SegmentsInRound
<1>2. CASE Stopped BY <1>0, <1>2 DEF Stopped, vars, SegmentsInRound, Own
<1>3. CASE BeginSequential
  <2>1. round.kind = "none" BY <1>3, SMT DEF BeginSequential, Executing, Quiet, NoRound
  <2>2. round'.kind = "sequential" BY <1>3, SMT DEF BeginSequential
  <2>3. block' = Armed BY <1>3 DEF BeginSequential
  <2> QED BY <1>0, <2>1, <2>2, <2>3, BlockFields DEF SegmentsInRound
<1>4. CASE PackedVerify
  <2>1. PICK entries \in (SUBSET Idle) \ {{}} :
          /\ round' = [kind |-> "packed", todo |-> entries]
          /\ block' = [phase |-> "verified", base |-> [s \in Slots |-> Flushed(s)], pending |-> entries,
                       armed |-> FALSE, deferring |-> GdnAfterPairs, deferred |-> NothingDeferred]
    BY <1>4 DEF PackedVerify
  <2>2. /\ round'.kind = "packed" /\ round'.todo = entries /\ block'.pending = entries
        /\ block'.base = [s \in Slots |-> Flushed(s)] /\ block'.deferred = NothingDeferred
    BY <2>1, SMT
  <2>3. \A s \in entries : s \in Slots /\ Flushed(s) = Own(s)
    BY <1>4 DEF PackedVerify, Executing, Quiet, Inductive, CarryAtFrontier, Idle, Live
  <2>4. UNCHANGED engine BY <1>4 DEF PackedVerify
  <2> QED BY <2>2, <2>3, <2>4 DEF SegmentsInRound, NothingDeferred, Own
<1>5. CASE PackedVerifyFails
  <2>1. round.kind = "none" /\ UNCHANGED round /\ block.phase = "idle"
    BY <1>5, SMT DEF PackedVerifyFails, Executing, Quiet, NoRound
  <2>2. PICK p \in {"idle", "failed"} : block' = [block EXCEPT !.phase = p] BY <1>5 DEF PackedVerifyFails
  <2> QED BY <1>0, <2>1, <2>2, PhaseFields DEF SegmentsInRound
<1>6. CASE StepReturns
  <2>1. round'.kind \in {"none", "drafts"} BY <1>6, SMT DEF StepReturns, NoRound
  <2> QED BY <1>0, <1>6, <2>1 DEF StepReturns, SegmentsInRound
<1>7. CASE FlushCommits
  <2>1. round'.kind = "none" BY <1>7, SMT DEF FlushCommits, NoRound
  <2> QED BY <1>0, <1>7, <2>1, BlockFields DEF FlushCommits, SegmentsInRound
<1>8. CASE FlushFails \/ Shutdown
  <2>1. round'.kind = "none" BY <1>8, SMT DEF FlushFails, Shutdown, NoRound
  <2>2. block'.phase \in {"failed", "closed"} BY <1>0, <1>8, DisarmedFields DEF FlushFails, Shutdown
  <2> QED BY <2>1, <2>2 DEF SegmentsInRound
<1>9. ASSUME NEW s \in Slots, Verify(s) \/ Publish(s) \/ StepAnswered(s) PROVE SegmentsInRound'
  <2>1. UNCHANGED block /\ round.kind = "sequential" BY <1>9 DEF Verify, Publish, StepAnswered
  <2>2. round'.kind = round.kind
    BY <1>0, <1>9, SMT DEF Verify, Publish, StepAnswered, TypeOK, RoundType
  <2> QED BY <1>0, <2>1, <2>2 DEF SegmentsInRound
<1>10. ASSUME NEW s \in Slots, StepFails(s) PROVE SegmentsInRound'
  <2>1. round.kind = "sequential" /\ block' = [block EXCEPT !.armed = FALSE] BY <1>10 DEF StepFails
  <2>2. round'.kind = "none" BY <1>10, SMT DEF StepFails, NoRound
  <2> QED BY <1>0, <2>1, <2>2, ArmedFields DEF SegmentsInRound
<1>11. ASSUME NEW s \in Slots, AdoptPacked(s) PROVE SegmentsInRound'
  <2>1. engine' = [engine EXCEPT ![s] = Verifying(s, block.base[s])] /\ UNCHANGED <<block, round>>
    BY <1>11 DEF AdoptPacked
  <2>2. engine'[s] = Verifying(s, block.base[s]) /\ \A t \in Slots : t # s => engine'[t] = engine[t]
    BY <1>0, <2>1, EngineAt
  <2>3. /\ Verifying(s, block.base[s]).req = engine[s].req
        /\ Verifying(s, block.base[s]).position = engine[s].position
    BY <1>0, EngineFields
  <2>4. \A t \in Slots : Own(t)' = Own(t) BY <2>2, <2>3 DEF Own
  <2>5. round.todo \subseteq Slots BY <1>0 DEF TypeOK, RoundType
  <2> QED BY <1>0, <2>1, <2>4, <2>5 DEF SegmentsInRound
<1>12. ASSUME NEW s \in Slots, PublishPacked(s) PROVE SegmentsInRound'
  <2>1. PICK n \in Committable(s) : CommitUser(s, n) /\ engine' = [engine EXCEPT ![s] = Published(s, n)]
    BY <1>12 DEF PublishPacked
  <2>2. n \in 0..MaxRows BY SMT DEF Committable
  <2>3. /\ block'.base = block.base /\ block'.pending = block.pending \ {s}
        /\ block'.phase = (IF block.pending = {s} THEN "idle" ELSE block.phase)
        /\ block'.deferred = IF block.deferring THEN [block.deferred EXCEPT ![s] = n] ELSE block.deferred
    BY <1>0, <2>1, <2>2, CommitUserFields
  <2>4. \A t \in Slots : t # s => block'.deferred[t] = block.deferred[t]
    BY <1>0, <2>3, SMT DEF TypeOK, BlockType
  <2>5. round.kind = "packed" /\ s \in round.todo BY <1>12 DEF PublishPacked
  <2>6. round'.kind = "packed" /\ round'.todo = round.todo \ {s}
    BY <1>0, <1>12, SMT DEF PublishPacked, TypeOK, RoundType
  <2>7. \A t \in Slots : t # s => Own(t)' = Own(t) BY <1>0, <2>1, EngineAt DEF Own
  <2>8. block.pending = round.todo /\ round.todo \subseteq Slots
    BY <1>0, <2>5 DEF SegmentsInRound, TypeOK, RoundType
  <2>9. round'.todo = {} => block'.phase = "idle" BY <2>3, <2>5, <2>6, <2>8
  <2>10. \A t \in round'.todo : block'.base[t] = Own(t)' /\ block'.deferred[t] = 0
    BY <1>0, <2>3, <2>4, <2>5, <2>6, <2>7, <2>8 DEF SegmentsInRound
  <2> QED BY <2>3, <2>6, <2>8, <2>9, <2>10 DEF SegmentsInRound
<1>13. ASSUME NEW s \in Slots, FailRound(s) PROVE SegmentsInRound'
  <2>1. PICK b \in BOOLEAN : block' = BlockAfter(b) BY <1>13 DEF FailRound
  <2>2. round'.kind = "none" BY <1>13, SMT DEF FailRound, NoRound
  <2>3. block'.pending = {} /\ block'.phase # "verified" BY <1>0, <2>1, BlockFields
  <2> QED BY <2>2, <2>3 DEF SegmentsInRound
<1> QED
  BY <1>1, <1>2, <1>3, <1>4, <1>5, <1>6, <1>7, <1>8, <1>9, <1>10, <1>11, <1>12, <1>13
  DEF Next, BetweenRounds

\* Deferred commits stay within the round that decided them and its drafts.
LEMMA DeferralsStep == ASSUME Inductive, Next PROVE DeferralsInRound'
<1>0. TypeOK /\ DeferralsInRound BY DEF Inductive
<1>1. CASE BetweenRounds
  <2>1. failed => failed'
    BY <1>1 DEF BetweenRounds, PrefillBegins, PrefillContinues, PrefillFails, PrefillAborted, EndsAtSeed,
        SampleFails, BuildEngine, RebindEngine, Bind, AdoptionFails, BindFails, ParkEngine, CloseEngine,
        Repark, ReparkFails
  <2> QED BY <1>0, <1>1, <2>1, BetweenRoundsFrame DEF DeferralsInRound
<1>2. CASE Stopped BY <1>0, <1>2 DEF Stopped, vars, DeferralsInRound
<1>3. CASE BeginSequential
  <2>1. round.kind = "none" BY <1>3, SMT DEF BeginSequential, Executing, Quiet, NoRound
  <2>2. round'.kind = "sequential" BY <1>3, SMT DEF BeginSequential
  <2>3. block' = Armed BY <1>3 DEF BeginSequential
  <2> QED BY <1>0, <2>1, <2>2, <2>3, BlockFields DEF DeferralsInRound
<1>4. CASE PackedVerify
  <2>1. round'.kind = "packed" BY <1>4, SMT DEF PackedVerify
  <2>2. block'.deferring = GdnAfterPairs /\ block'.armed = FALSE /\ block'.deferred = NothingDeferred
    BY <1>4, SMT DEF PackedVerify
  <2> QED BY <2>1, <2>2 DEF DeferralsInRound
<1>5. CASE PackedVerifyFails
  <2>1. UNCHANGED round /\ failed' BY <1>5 DEF PackedVerifyFails
  <2>2. PICK p \in {"idle", "failed"} : block' = [block EXCEPT !.phase = p] BY <1>5 DEF PackedVerifyFails
  <2> QED BY <1>0, <2>1, <2>2, PhaseFields DEF DeferralsInRound
<1>6. CASE StepReturns
  <2>1. round'.kind = IF GdnAfterPairs THEN "drafts" ELSE "none" BY <1>6, SMT DEF StepReturns, NoRound
  <2> QED BY <1>0, <1>6, <2>1 DEF StepReturns, DeferralsInRound
<1>7. CASE FlushCommits BY <1>0, <1>7, BlockFields DEF FlushCommits, DeferralsInRound
<1>8. CASE FlushFails \/ Shutdown
  BY <1>0, <1>8, DisarmedFields DEF FlushFails, Shutdown, DeferralsInRound
<1>9. ASSUME NEW s \in Slots, Verify(s) \/ Publish(s) \/ StepAnswered(s) PROVE DeferralsInRound'
  <2>1. UNCHANGED <<block, failed>> BY <1>9 DEF Verify, Publish, StepAnswered
  <2>2. round'.kind = round.kind
    BY <1>0, <1>9, SMT DEF Verify, Publish, StepAnswered, TypeOK, RoundType
  <2> QED BY <1>0, <2>1, <2>2 DEF DeferralsInRound
<1>10. ASSUME NEW s \in Slots, StepFails(s) PROVE DeferralsInRound'
  <2>1. round.kind = "sequential" /\ block' = [block EXCEPT !.armed = FALSE] BY <1>10 DEF StepFails
  <2> QED BY <1>0, <2>1, ArmedFields DEF DeferralsInRound
<1>11. ASSUME NEW s \in Slots, AdoptPacked(s) PROVE DeferralsInRound'
  BY <1>0, <1>11 DEF AdoptPacked, DeferralsInRound
<1>12. ASSUME NEW s \in Slots, PublishPacked(s) PROVE DeferralsInRound'
  <2>1. PICK n \in Committable(s) : CommitUser(s, n) BY <1>12 DEF PublishPacked
  <2>2. n \in 0..MaxRows BY SMT DEF Committable
  <2>3. /\ block'.armed = block.armed /\ block'.deferring = block.deferring
        /\ block'.deferred = IF block.deferring THEN [block.deferred EXCEPT ![s] = n] ELSE block.deferred
    BY <1>0, <2>1, <2>2, CommitUserFields
  <2>4. round'.kind = "packed" BY <1>0, <1>12, SMT DEF PublishPacked, TypeOK, RoundType
  <2> QED BY <1>0, <2>3, <2>4 DEF DeferralsInRound
<1>13. ASSUME NEW s \in Slots, FailRound(s) PROVE DeferralsInRound'
  <2>1. PICK b \in BOOLEAN : block' = BlockAfter(b) BY <1>13 DEF FailRound
  <2>2. ~block'.deferring /\ ~block'.armed /\ block'.deferred = NothingDeferred
    BY <1>0, <2>1, BlockFields
  <2> QED BY <2>2 DEF DeferralsInRound
<1> QED
  BY <1>1, <1>2, <1>3, <1>4, <1>5, <1>6, <1>7, <1>8, <1>9, <1>10, <1>11, <1>12, <1>13
  DEF Next, BetweenRounds

\* The state an accepted prefix advances to is the request's own at its new frontier.
LEMMA PublishedOwn ==
    ASSUME Inductive, NEW s \in Slots, s \in Live, NEW n \in Nat,
           engine' = [engine EXCEPT ![s] = Published(s, n)]
    PROVE  Advance(Own(s), n) = Own(s)' /\ (n = 0 => Own(s)' = Own(s))
<1>0. TypeOK BY DEF Inductive
<1>1. engine'[s].req = engine[s].req /\ engine'[s].position = engine[s].position + n
  <2>1. engine'[s] = Published(s, n) BY <1>0, EngineAt
  <2>2. Published(s, n).req = engine[s].req /\ Published(s, n).position = engine[s].position + n
    BY <1>0, EngineFields
  <2> QED BY <2>1, <2>2
<1>2. engine[s].req \in Request BY DEF Inductive, ServesARequest
<1>3. engine[s].position \in Nat BY DEF Inductive, TypeOK, EngineType
<1>4. Advance(Own(s), n) = [req |-> engine[s].req, rows |-> engine[s].position + n]
  BY <1>2, <1>3, AdvanceOwn DEF Own
<1>5. n = 0 => engine[s].position + n = engine[s].position BY <1>3, SMT
<1> QED BY <1>1, <1>4, <1>5 DEF Own

\* The residency flag is cleared, handed to the engine whose state is in the row, or left
\* alone with the row.
LEMMA ResidentStep == ASSUME Inductive, TypeOK', Next PROVE ResidentOwnsRow'
<1>0. TypeOK /\ ResidentOwnsRow BY DEF Inductive
<1>1. CASE failed' \/ resident' = NoSlot BY <1>1 DEF ResidentOwnsRow
<1>2. CASE UNCHANGED <<engine, resident, failed>> /\ native'[0] = native[0]
  BY <1>0, <1>2 DEF ResidentOwnsRow, Own
<1>3. CASE PrefillContinues
  <2>1. PICK row \in 0..1, last \in BOOLEAN :
          /\ ChunkWrites(prefill.req, row, last)
          /\ resident' = IF row = 0 THEN NoSlot ELSE resident
    BY <1>3 DEF PrefillContinues
  <2>2. UNCHANGED <<engine, failed>> BY <1>3 DEF PrefillContinues
  <2>3. CASE row = 0 BY <1>1, <2>1, <2>3
  <2>4. CASE row # 0
    <3>1. native'[0] = native[0] BY <1>0, <2>1, <2>4, SMT DEF ChunkWrites, TypeOK
    <3> QED BY <1>2, <2>1, <2>2, <2>4, <3>1
  <2> QED BY <2>3, <2>4
<1>4. CASE BuildEngine \/ RebindEngine
  <2>1. PICK s \in Slots, b \in BOOLEAN : Bind(s, b) BY <1>4, BindSteps
  <2>2. native[prefill.row] = Prefilled(prefill.req)
    BY <1>4, BindSteps DEF Sampling, Inductive, SeedInPlace
  <2>3. native'[0] = Prefilled(prefill.req) /\ resident' = s
    BY <1>0, <2>1, <2>2, SMT DEF Bind, TypeOK
  <2>4. engine'[s] = Serving(b) BY <1>0, <2>1, EngineAt DEF Bind
  <2>5. Own(s)' = Prefilled(prefill.req) BY <2>4, IdlePhases DEF Own, Prefilled
  <2> QED BY <2>3, <2>4, <2>5, IdlePhases DEF ResidentOwnsRow
<1>5. ASSUME NEW s \in Slots, Verify(s) PROVE ResidentOwnsRow'
  <2>1. PICK x : engine' = [engine EXCEPT ![s] = Verifying(s, x)] BY <1>5 DEF Verify
  <2>2. engine'[s] = Verifying(s, x) BY <1>0, <2>1, EngineAt
  <2>3. Verifying(s, x).phase = "verified" BY <1>0, EngineFields
  <2>4. resident' = s BY <1>5 DEF Verify
  <2> QED BY <2>2, <2>3, <2>4 DEF ResidentOwnsRow
<1>6. ASSUME NEW s \in Slots, AdoptPacked(s) PROVE ResidentOwnsRow'
  <2>1. /\ engine' = [engine EXCEPT ![s] = Verifying(s, block.base[s])]
        /\ UNCHANGED <<native, resident, failed>>
    BY <1>6 DEF AdoptPacked
  <2>2. engine'[s] = Verifying(s, block.base[s]) /\ \A t \in Slots : t # s => engine'[t] = engine[t]
    BY <1>0, <2>1, EngineAt
  <2>3. Verifying(s, block.base[s]).phase = "verified" BY <1>0, EngineFields
  <2>4. resident \in Slots \cup {NoSlot} BY <1>0 DEF TypeOK
  <2> QED BY <1>0, <2>1, <2>2, <2>3, <2>4 DEF ResidentOwnsRow, Own
<1>7. ASSUME NEW s \in Slots, Publish(s) PROVE ResidentOwnsRow'
  <2>1. PICK n \in Committable(s) :
          /\ native' = [native EXCEPT ![0] = Advance(engine[s].base, n)]
          /\ engine' = [engine EXCEPT ![s] = Published(s, n)]
    BY <1>7 DEF Publish
  <2>2. n \in Nat BY RowsAssumption, SMT DEF Committable
  <2>3. engine[s].base = Own(s) /\ s \in Live
    BY <1>7 DEF Publish, Inductive, VerifiedOnOwnState, Live
  <2>4. native'[0] = Own(s)'
    <3>1. Advance(Own(s), n) = Own(s)' BY <2>1, <2>2, <2>3, PublishedOwn
    <3>2. native'[0] = Advance(engine[s].base, n) BY <1>0, <2>1, SMT DEF TypeOK
    <3> QED BY <2>3, <3>1, <3>2
  <2>5. engine'[s] = Published(s, n) BY <1>0, <2>1, EngineAt
  <2>6. Published(s, n).phase = "idle" BY <1>0, EngineFields
  <2>7. resident' = s BY <1>7 DEF Publish
  <2> QED BY <2>4, <2>5, <2>6, <2>7 DEF ResidentOwnsRow
<1>8. CASE FlushCommits
  <2>1. CASE Deferred = {} BY <1>2, <1>8, <2>1 DEF FlushCommits
  <2>2. CASE Deferred # {} BY <1>1, <1>8, <2>2 DEF FlushCommits
  <2> QED BY <2>1, <2>2
<1>9. ASSUME NEW s \in Slots, ParkEngine(s) \/ CloseEngine(s) PROVE ResidentOwnsRow'
  <2>1. PICK v : engine' = [engine EXCEPT ![s] = v] BY <1>9 DEF ParkEngine, CloseEngine
  <2>2. \A t \in Slots : t # s => engine'[t] = engine[t] BY <1>0, <2>1, EngineAt
  <2>3. UNCHANGED <<native, failed>> /\ resident' = Displaced(s) BY <1>9 DEF ParkEngine, CloseEngine
  <2>4. resident \in Slots \cup {NoSlot} BY <1>0 DEF TypeOK
  <2>5. CASE resident = s BY <1>1, <2>3, <2>5 DEF Displaced
  <2>6. CASE resident # s BY <1>0, <2>2, <2>3, <2>4, <2>6 DEF Displaced, ResidentOwnsRow, Own
  <2> QED BY <2>5, <2>6
<1>10. ASSUME NEW s \in Slots, ReparkFails(s) PROVE ResidentOwnsRow'
  <2>1. ~failed /\ \A t \in Slots : engine[t].phase \in {"none", "parked"}
    BY <1>10 DEF ReparkFails, IdleMoment, Quiet, Free
  <2>2. resident \in Slots \cup {NoSlot} BY <1>0 DEF TypeOK
  <2>3. resident = NoSlot BY <1>0, <2>1, <2>2, SMT DEF ResidentOwnsRow
  <2>4. resident' = NoSlot BY <1>10, <2>3 DEF ReparkFails, Displaced
  <2> QED BY <1>1, <2>4
<1>11. CASE \/ PrefillBegins \/ PrefillFails \/ SampleFails \/ AdoptionFails \/ BindFails \/ PackedVerify
            \/ PackedVerifyFails \/ FlushFails \/ Shutdown
            \/ \E s \in Slots : StepFails(s) \/ PublishPacked(s) \/ FailRound(s) \/ Repark(s)
  <2>1. CASE PrefillBegins \/ PackedVerify \/ Shutdown BY <1>1, <2>1 DEF PrefillBegins, PackedVerify, Shutdown
  <2>2. CASE \E s \in Slots : PublishPacked(s) \/ Repark(s)
    <3>1. ASSUME NEW s \in Slots, PublishPacked(s) PROVE resident' = NoSlot
      <4>1. PICK n \in Committable(s) : CommitUser(s, n) BY <3>1 DEF PublishPacked
      <4> QED BY <4>1 DEF CommitUser
    <3>2. ASSUME NEW s \in Slots, Repark(s) PROVE resident' = NoSlot BY <3>2 DEF Repark
    <3> QED BY <1>1, <2>2, <3>1, <3>2
  <2>3. CASE PrefillFails \/ SampleFails \/ AdoptionFails \/ BindFails \/ PackedVerifyFails \/ FlushFails
    BY <1>1, <2>3 DEF PrefillFails, SampleFails, AdoptionFails, BindFails, PackedVerifyFails, FlushFails
  <2>4. CASE \E s \in Slots : StepFails(s) \/ FailRound(s) BY <1>1, <2>4 DEF StepFails, FailRound
  <2> QED BY <1>11, <2>1, <2>2, <2>3, <2>4
<1>12. CASE \/ PrefillAborted \/ EndsAtSeed \/ BeginSequential \/ StepReturns \/ Stopped
            \/ \E s \in Slots : StepAnswered(s)
  BY <1>2, <1>12 DEF PrefillAborted, EndsAtSeed, BeginSequential, StepReturns, Stopped, vars, StepAnswered
<1> QED
  BY <1>3, <1>4, <1>5, <1>6, <1>7, <1>8, <1>9, <1>10, <1>11, <1>12 DEF Next

\* Every commit, run or deferred, takes the carry to the new frontier; nothing else moves it.
LEMMA CarryStep == ASSUME Inductive, TypeOK', Next PROVE CarryAtFrontier'
<1>0. TypeOK /\ CarryAtFrontier BY DEF Inductive
<1>1. CASE failed' BY <1>1 DEF CarryAtFrontier
<1>2. CASE UNCHANGED <<carry, engine, block, failed>> BY <1>0, <1>2 DEF CarryAtFrontier, Flushed, Own, Live
<1>3. ASSUME \A t \in Slots : t \notin Live' PROVE CarryAtFrontier' BY <1>3 DEF CarryAtFrontier, Live
<1>4. CASE BuildEngine \/ RebindEngine
  <2>1. PICK s \in Slots, b \in BOOLEAN : Bind(s, b) BY <1>4, BindSteps
  <2>2. native[prefill.row] = Prefilled(prefill.req)
    BY <1>4, BindSteps DEF Sampling, Inductive, SeedInPlace
  <2>3. block.deferred = NothingDeferred
    <3>1. round.kind = "none" BY <1>4, BetweenRoundsFrame DEF BetweenRounds
    <3> QED BY <3>1 DEF Inductive, DeferralsInRound
  <2>4. /\ carry'[s] = Prefilled(prefill.req) /\ UNCHANGED <<block, failed>>
        /\ \A t \in Slots : t # s => carry'[t] = carry[t]
    BY <1>0, <2>1, <2>2, SMT DEF Bind, TypeOK
  <2>5. engine'[s] = Serving(b) /\ \A t \in Slots : t # s => engine'[t] = engine[t]
    BY <1>0, <2>1, EngineAt DEF Bind
  <2>6. Own(s)' = Prefilled(prefill.req) BY <2>5, IdlePhases DEF Own, Prefilled
  <2>7. Flushed(s)' = Prefilled(prefill.req) BY <2>3, <2>4 DEF Flushed, NothingDeferred
  <2>8. \A t \in Slots : t # s => Flushed(t)' = Flushed(t) /\ Own(t)' = Own(t)
    BY <2>4, <2>5 DEF Flushed, Own
  <2> QED BY <1>0, <2>4, <2>5, <2>6, <2>7, <2>8 DEF CarryAtFrontier, Live
<1>5. CASE BeginSequential
  <2>1. block' = Armed /\ UNCHANGED <<carry, engine, failed>> BY <1>5 DEF BeginSequential
  <2>2. block'.base = block.base /\ block'.deferred = block.deferred BY <1>0, <2>1, BlockFields
  <2> QED BY <1>0, <2>1, <2>2 DEF CarryAtFrontier, Flushed, Own, Live
<1>6. CASE PackedVerify \/ FlushCommits
  <2>1. carry' = [s \in Slots |-> Flushed(s)] /\ UNCHANGED <<engine, failed>>
    BY <1>6 DEF PackedVerify, FlushCommits
  <2>2. block'.deferred = NothingDeferred
    BY <1>0, <1>6, BlockFields, SMT DEF PackedVerify, FlushCommits
  <2>3. \A s \in Slots : Flushed(s)' = Flushed(s) BY <2>1, <2>2 DEF Flushed, NothingDeferred
  <2> QED BY <1>0, <2>1, <2>3 DEF CarryAtFrontier, Own, Live
<1>7. ASSUME NEW s \in Slots, Verify(s) \/ AdoptPacked(s) PROVE CarryAtFrontier'
  <2>1. PICK x : engine' = [engine EXCEPT ![s] = Verifying(s, x)] BY <1>7 DEF Verify, AdoptPacked
  <2>2. UNCHANGED <<carry, block, failed>> /\ s \in Live BY <1>7 DEF Verify, AdoptPacked, Live
  <2>3. engine'[s] = Verifying(s, x) /\ \A t \in Slots : t # s => engine'[t] = engine[t]
    BY <1>0, <2>1, EngineAt
  <2>4. Verifying(s, x).req = engine[s].req /\ Verifying(s, x).position = engine[s].position
    BY <1>0, EngineFields
  <2>5. \A t \in Slots : Own(t)' = Own(t) /\ Flushed(t)' = Flushed(t) /\ (t \in Live' => t \in Live)
    BY <2>2, <2>3, <2>4 DEF Own, Flushed, Live
  <2> QED BY <1>0, <2>2, <2>5 DEF CarryAtFrontier, Live
<1>8. ASSUME NEW s \in Slots, Publish(s) PROVE CarryAtFrontier'
  <2>1. PICK n \in Committable(s) :
          /\ carry' = [carry EXCEPT ![s] = Advance(engine[s].base, n)]
          /\ engine' = [engine EXCEPT ![s] = Published(s, n)]
    BY <1>8 DEF Publish
  <2>2. n \in Nat BY RowsAssumption, SMT DEF Committable
  <2>3. engine[s].base = Own(s) /\ s \in Live /\ UNCHANGED <<block, failed>>
    BY <1>8 DEF Publish, Inductive, VerifiedOnOwnState, Live
  <2>4. carry'[s] = Own(s)' /\ \A t \in Slots : t # s => carry'[t] = carry[t]
    BY <1>0, <2>1, <2>2, <2>3, PublishedOwn DEF TypeOK
  <2>5. block.deferred = NothingDeferred BY <1>8 DEF Publish, Inductive, DeferralsInRound
  <2>6. \A t \in Slots : t # s => engine'[t] = engine[t] BY <1>0, <2>1, EngineAt
  <2>7. Flushed(s)' = Own(s)' BY <2>3, <2>4, <2>5 DEF Flushed, NothingDeferred
  <2>8. \A t \in Slots : t # s => Flushed(t)' = Flushed(t) /\ Own(t)' = Own(t)
    BY <2>3, <2>4, <2>6 DEF Flushed, Own
  <2> QED BY <1>0, <2>3, <2>6, <2>7, <2>8 DEF CarryAtFrontier, Live
<1>9. ASSUME NEW s \in Slots, PublishPacked(s) PROVE CarryAtFrontier'
  <2>1. PICK n \in Committable(s) : CommitUser(s, n) /\ engine' = [engine EXCEPT ![s] = Published(s, n)]
    BY <1>9 DEF PublishPacked
  <2>2. n \in 0..MaxRows /\ n \in Nat BY RowsAssumption, SMT DEF Committable
  <2>3. /\ block'.base = block.base
        /\ block'.deferred = IF block.deferring THEN [block.deferred EXCEPT ![s] = n] ELSE block.deferred
    BY <1>0, <2>1, <2>2, CommitUserFields
  <2>4. block.base[s] = Own(s) /\ block.deferred[s] = 0 /\ s \in Live /\ ~failed /\ UNCHANGED failed
    BY <1>9 DEF PublishPacked, Inductive, SegmentsInRound, RoundServesLive, Live
  <2>5. carry[s] = Own(s) BY <1>0, <2>4 DEF CarryAtFrontier, Flushed
  <2>6. Advance(Own(s), n) = Own(s)' /\ (n = 0 => Own(s)' = Own(s)) BY <2>1, <2>2, <2>4, PublishedOwn
  <2>7. Flushed(s)' = Own(s)'
    <3>1. CASE block.deferring
      <4>1. block.deferred \in [Slots -> 0..MaxRows] BY <1>0 DEF TypeOK, BlockType
      <4>2. block'.deferred[s] = n BY <2>3, <3>1, <4>1
      <4>3. UNCHANGED carry BY <2>1, <3>1 DEF CommitUser
      <4> QED BY <2>3, <2>4, <2>5, <2>6, <4>2, <4>3 DEF Flushed
    <3>2. CASE ~block.deferring
      <4>1. block'.deferred[s] = 0 BY <2>3, <2>4, <3>2
      <4>2. CASE n = 0
        <5>1. UNCHANGED carry BY <2>1, <4>2, SMT DEF CommitUser
        <5> QED BY <2>5, <2>6, <4>1, <4>2, <5>1 DEF Flushed
      <4>3. CASE n # 0
        <5>1. n > 0 BY <2>2, <4>3, SMT
        <5>2. carry' = [carry EXCEPT ![s] = Advance(block.base[s], n)] BY <2>1, <3>2, <5>1 DEF CommitUser
        <5>3. carry'[s] = Own(s)' BY <1>0, <2>4, <2>6, <5>2 DEF TypeOK
        <5> QED BY <4>1, <5>3 DEF Flushed
      <4> QED BY <4>2, <4>3
    <3> QED BY <3>1, <3>2
  <2>8. \A t \in Slots : t # s => carry'[t] = carry[t] BY <1>0, <2>1, SMT DEF CommitUser, TypeOK
  <2>9. \A t \in Slots : t # s => block'.deferred[t] = block.deferred[t]
    BY <1>0, <2>3, SMT DEF TypeOK, BlockType
  <2>10. \A t \in Slots : t # s => engine'[t] = engine[t] BY <1>0, <2>1, EngineAt
  <2>11. \A t \in Slots : t # s => Flushed(t)' = Flushed(t) /\ Own(t)' = Own(t)
    BY <2>3, <2>8, <2>9, <2>10 DEF Flushed, Own
  <2> QED BY <1>0, <2>4, <2>7, <2>10, <2>11 DEF CarryAtFrontier, Live
<1>10. ASSUME NEW s \in Slots, ParkEngine(s) \/ CloseEngine(s) PROVE CarryAtFrontier'
  <2>1. PICK v \in {NoEngine, ParkedEngine} : engine' = [engine EXCEPT ![s] = v]
    BY <1>10 DEF ParkEngine, CloseEngine
  <2>2. engine'[s] = v /\ \A t \in Slots : t # s => engine'[t] = engine[t] BY <1>0, <2>1, EngineAt
  <2>3. UNCHANGED <<carry, block, failed>> BY <1>10 DEF ParkEngine, CloseEngine
  <2>4. \A t \in Slots : t \in Live' => t \in Live /\ Flushed(t)' = Flushed(t) /\ Own(t)' = Own(t)
    BY <2>1, <2>2, <2>3, IdlePhases DEF Live, Flushed, Own
  <2> QED BY <1>0, <2>3, <2>4 DEF CarryAtFrontier, Live
<1>11. ASSUME NEW s \in Slots, Repark(s) \/ ReparkFails(s) PROVE CarryAtFrontier'
  <2>1. \A t \in Slots : engine[t].phase \in {"none", "parked"}
    BY <1>11 DEF Repark, ReparkFails, IdleMoment, Free
  <2>2. engine' = engine \/ engine' = [engine EXCEPT ![s] = ParkedEngine] BY <1>11 DEF Repark, ReparkFails
  <2>3. \A t \in Slots : engine'[t] = engine[t] \/ engine'[t] = ParkedEngine BY <1>0, <2>2, EngineAt
  <2>4. \A t \in Slots : t \notin Live' BY <2>1, <2>3, IdlePhases DEF Live
  <2> QED BY <1>3, <2>4
<1>12. CASE Shutdown
  <2>1. \A t \in Slots : engine'[t].phase = "none" BY <1>12, IdlePhases DEF Shutdown
  <2>2. \A t \in Slots : t \notin Live' BY <2>1 DEF Live
  <2> QED BY <1>3, <2>2
<1>13. CASE \/ PrefillFails \/ SampleFails \/ AdoptionFails \/ BindFails \/ PackedVerifyFails \/ FlushFails
            \/ \E s \in Slots : StepFails(s) \/ FailRound(s)
  BY <1>1, <1>13 DEF PrefillFails, SampleFails, AdoptionFails, BindFails, PackedVerifyFails, FlushFails,
      StepFails, FailRound
<1>14. CASE \/ PrefillBegins \/ PrefillContinues \/ PrefillAborted \/ EndsAtSeed \/ StepReturns \/ Stopped
            \/ \E s \in Slots : StepAnswered(s)
  BY <1>2, <1>14 DEF PrefillBegins, PrefillContinues, PrefillAborted, EndsAtSeed, StepReturns, Stopped,
      vars, StepAnswered
<1> QED
  BY <1>4, <1>5, <1>6, <1>7, <1>8, <1>9, <1>10, <1>11, <1>12, <1>13, <1>14 DEF Next

-----------------------------------------------------------------------------
(* The theorems *)

\* The invariant holds when the server starts.
LEMMA InductiveInit == Init => Inductive
<1> SUFFICES ASSUME Init PROVE Inductive OBVIOUS
<1>1. TypeOK BY TypeInit
<1>2. \A s \in Slots : engine[s].phase \in {"none", "parked"} BY IdlePhases DEF Init
<1>3. round.kind = "none" /\ round.todo = {} /\ prefill.stage = "none" /\ resident = NoSlot
  BY SMT DEF Init, NoRound, NoPrefill
<1>4. /\ block.phase = "idle" /\ block.pending = {} /\ block.armed = FALSE /\ block.deferring = FALSE
      /\ block.deferred = NothingDeferred
  BY SMT DEF Init
<1>5. VerifiedOnOwnState /\ ServesARequest /\ CarryAtFrontier
  BY <1>2 DEF VerifiedOnOwnState, ServesARequest, CarryAtFrontier, Live
<1>6. ResidentOwnsRow /\ SeedInPlace BY <1>3 DEF ResidentOwnsRow, SeedInPlace
<1>7. RoundServesLive BY <1>2, <1>3 DEF RoundServesLive
<1>8. SegmentsInRound /\ DeferralsInRound BY <1>3, <1>4 DEF SegmentsInRound, DeferralsInRound
<1> QED BY <1>1, <1>5, <1>6, <1>7, <1>8 DEF Inductive

\* Every step, and stuttering, keeps the invariant.
LEMMA InductiveStep == Inductive /\ [Next]_vars => Inductive'
<1> SUFFICES ASSUME Inductive, [Next]_vars PROVE Inductive' OBVIOUS
<1>1. CASE Next
  <2>1. TypeOK' BY <1>1, TypeStep DEF Inductive
  <2> QED BY <1>1, <2>1, OwnStateStep, ServesStep, SeedStep, RoundStep, SegmentsStep, DeferralsStep,
             ResidentStep, CarryStep DEF Inductive
<1>2. CASE UNCHANGED vars
  BY <1>2 DEF vars, Inductive, TypeOK, VerifiedOnOwnState, ResidentOwnsRow, CarryAtFrontier, SeedInPlace,
     ServesARequest, RoundServesLive, SegmentsInRound, DeferralsInRound, Live, Own, Flushed
<1> QED BY <1>1, <1>2

\* The invariant holds in every reachable state.
LEMMA Invariance == Spec => []Inductive
BY InductiveInit, InductiveStep, PTL DEF Spec

\* Every variable keeps its type, for every pool size and both settings of the flags.
THEOREM TypeCorrect == Spec => []TypeOK
<1>1. Inductive => TypeOK BY DEF Inductive
<1> QED BY <1>1, Invariance, PTL

\* Every verify runs from its own request's state at exactly the rows it has committed,
\* for every number of users and requests (VerifierEngine.verify, adopt_packed).
THEOREM VerifySound == Spec => []VerifiedOnOwnState
<1>1. Inductive => VerifiedOnOwnState BY DEF Inductive
<1> QED BY <1>1, Invariance, PTL

\* An engine that would skip the restore of its carry finds its own state in the working
\* row (VerifierEngine.restore_carry).
THEOREM ResidencySound == Spec => []ResidentOwnsRow
<1>1. Inductive => ResidentOwnsRow BY DEF Inductive
<1> QED BY <1>1, Invariance, PTL

\* The carries, with the deferred commits counted in, stand at the requests' frontiers.
THEOREM CarriesCurrent == Spec => []CarryAtFrontier
<1>1. Inductive => CarryAtFrontier BY DEF Inductive
<1> QED BY <1>1, Invariance, PTL

\* No deferral outlives the execute_model that armed it (EarlyDraft.execute).
THEOREM DeferralsFlushed == Spec => []DeferralsStayInStep
<1>1. Inductive => DeferralsStayInStep
  <2>1. round = NoRound => round.kind = "none" BY SMT DEF NoRound
  <2> QED BY <2>1 DEF Inductive, DeferralsInRound, DeferralsStayInStep
<1> QED BY <1>1, Invariance, PTL

\* However a round ends, every segment of the block is decided (fail_round).
THEOREM SegmentsDecided == Spec => []BlockDecided
<1>1. Inductive => BlockDecided
  <2>1. round = NoRound => round.kind = "none" BY SMT DEF NoRound
  <2> QED BY <2>1 DEF Inductive, SegmentsInRound, BlockDecided
<1> QED BY <1>1, Invariance, PTL

-----------------------------------------------------------------------------
(* The refinement: what the requests decode from is private *)

\* No two engines serve one request, and the prompt in its prefill is nobody's yet: a
\* request arrives once and is bound once (ServingLifecycle._execute, _sample).
RequestsDistinct ==
    ~failed =>
      /\ prefill.stage # "none" => prefill.req \in arrived /\ \A s \in Live : engine[s].req # prefill.req
      /\ \A s \in Live : engine[s].req \in arrived
      /\ \A s, t \in Live : engine[s].req = engine[t].req => s = t

\* An engine served on, possibly after some rows of a verify were published.
ServedOn(s, n) ==
    /\ engine'[s].phase \in {"idle", "verified"}
    /\ engine'[s].req = engine[s].req /\ engine'[s].position = engine[s].position + n
    /\ \A t \in Slots : t # s => engine'[t] = engine[t]

\* The slot of an engine, and of no other, was vacated or parked on.
Vacated(s) ==
    /\ engine'[s].phase \in {"none", "parked"}
    /\ \A t \in Slots : t # s => engine'[t] = engine[t]

\* What a step that does not fail can do to the engines.
LEMMA EngineMoves ==
    ASSUME Inductive, Next, ~failed'
    PROVE  /\ ~failed
           /\ \/ UNCHANGED engine
              \/ \E s \in Slots, b \in BOOLEAN : Sampling /\ Free(s) /\ Bind(s, b)
              \/ \E s \in Live, n \in 0..MaxRows : ServedOn(s, n)
              \/ \E s \in Slots : Vacated(s)
              \/ \A s \in Slots : engine'[s].phase = "none"
<1>0. TypeOK BY DEF Inductive
<1>1. CASE UNCHANGED <<engine, failed>> BY <1>1
<1>2. CASE BuildEngine \/ RebindEngine
  <2>1. PICK s \in Slots, b \in BOOLEAN : Sampling /\ Free(s) /\ Bind(s, b) BY <1>2, BindSteps
  <2>2. ~failed BY <2>1 DEF Bind
  <2> QED BY <2>1, <2>2
<1>3. ASSUME NEW s \in Slots, Verify(s) \/ AdoptPacked(s)
      PROVE  ~failed /\ s \in Live /\ \E n \in 0..MaxRows : ServedOn(s, n)
  <2>1. s \in Live /\ ~failed BY <1>3 DEF Verify, AdoptPacked, Live
  <2>2. PICK x : engine' = [engine EXCEPT ![s] = Verifying(s, x)] BY <1>3 DEF Verify, AdoptPacked
  <2>3. engine'[s] = Verifying(s, x) /\ \A t \in Slots : t # s => engine'[t] = engine[t] BY <1>0, <2>2, EngineAt
  <2>4. /\ Verifying(s, x).phase = "verified" /\ Verifying(s, x).req = engine[s].req
        /\ Verifying(s, x).position = engine[s].position
    BY <1>0, EngineFields
  <2>5. engine[s].position \in Nat BY <1>0 DEF TypeOK, EngineType
  <2>6. engine[s].position = engine[s].position + 0 BY <2>5, SMT
  <2>7. ServedOn(s, 0) /\ 0 \in 0..MaxRows BY <2>3, <2>4, <2>6, RowsAssumption, SMT DEF ServedOn
  <2> QED BY <2>1, <2>7
<1>4. ASSUME NEW s \in Slots, Publish(s) \/ PublishPacked(s)
      PROVE  ~failed /\ s \in Live /\ \E n \in 0..MaxRows : ServedOn(s, n)
  <2>1. s \in Live /\ ~failed BY <1>4 DEF Publish, PublishPacked, Live
  <2>2. PICK n \in Committable(s) : engine' = [engine EXCEPT ![s] = Published(s, n)]
    BY <1>4 DEF Publish, PublishPacked
  <2>3. n \in 0..MaxRows BY <2>2 DEF Committable
  <2>4. engine'[s] = Published(s, n) /\ \A t \in Slots : t # s => engine'[t] = engine[t] BY <1>0, <2>2, EngineAt
  <2>5. /\ Published(s, n).phase = "idle" /\ Published(s, n).req = engine[s].req
        /\ Published(s, n).position = engine[s].position + n
    BY <1>0, EngineFields
  <2> QED BY <2>1, <2>3, <2>4, <2>5 DEF ServedOn
<1>5. ASSUME NEW s \in Slots, ParkEngine(s) \/ CloseEngine(s) \/ Repark(s) PROVE ~failed /\ Vacated(s)
  <2>1. PICK v \in {NoEngine, ParkedEngine} : engine' = [engine EXCEPT ![s] = v]
    BY <1>5 DEF ParkEngine, CloseEngine, Repark
  <2>2. engine'[s] = v /\ \A t \in Slots : t # s => engine'[t] = engine[t] BY <1>0, <2>1, EngineAt
  <2>3. ~failed BY <1>5 DEF ParkEngine, CloseEngine, Repark
  <2> QED BY <2>2, <2>3, IdlePhases DEF Vacated
<1>6. CASE Shutdown BY <1>6, IdlePhases DEF Shutdown
<1>7. CASE \/ PrefillFails \/ SampleFails \/ AdoptionFails \/ BindFails \/ PackedVerifyFails \/ FlushFails
           \/ \E s \in Slots : StepFails(s) \/ FailRound(s)
  BY <1>7 DEF PrefillFails, SampleFails, AdoptionFails, BindFails, PackedVerifyFails, FlushFails,
      StepFails, FailRound
<1>8. CASE \/ PrefillBegins \/ PrefillContinues \/ PrefillAborted \/ EndsAtSeed \/ BeginSequential
           \/ PackedVerify \/ StepReturns \/ FlushCommits \/ Stopped
           \/ \E s \in Slots : StepAnswered(s) \/ ReparkFails(s)
  BY <1>1, <1>8 DEF PrefillBegins, PrefillContinues, PrefillAborted, EndsAtSeed, BeginSequential,
      PackedVerify, StepReturns, FlushCommits, Stopped, vars, StepAnswered, ReparkFails
<1> QED BY <1>2, <1>3, <1>4, <1>5, <1>6, <1>7, <1>8 DEF Next

\* What a step does to the prompt in its prefill: a new request begins one, or the one
\* there is goes on or is dropped.
LEMMA PrefillMoves ==
    ASSUME Inductive, Next
    PROVE  \/ /\ UNCHANGED engine
              /\ \E r \in Request \ arrived : prefill'.req = r /\ arrived' = arrived \cup {r}
           \/ /\ UNCHANGED arrived
              /\ prefill'.stage = "none" \/ (prefill.stage # "none" /\ prefill'.req = prefill.req)
<1>0. NoPrefill.stage = "none" BY SMT DEF NoPrefill
<1>1. CASE PrefillBegins
  <2>1. PICK r \in Request \ arrived, row \in 0..1, last \in BOOLEAN :
          ChunkWrites(r, row, last) /\ arrived' = arrived \cup {r}
    BY <1>1 DEF PrefillBegins
  <2>2. prefill'.req = r BY <2>1, SMT DEF ChunkWrites
  <2> QED BY <1>1, <2>1, <2>2 DEF PrefillBegins
<1>2. CASE PrefillContinues
  <2>1. PICK row \in 0..1, last \in BOOLEAN : ChunkWrites(prefill.req, row, last)
    BY <1>2 DEF PrefillContinues
  <2>2. prefill'.req = prefill.req BY <2>1, SMT DEF ChunkWrites
  <2>3. prefill.stage # "none" BY <1>2, SMT DEF PrefillContinues
  <2> QED BY <1>2, <2>2, <2>3 DEF PrefillContinues
<1>3. CASE BuildEngine \/ RebindEngine
  <2>1. PICK s \in Slots, b \in BOOLEAN : Bind(s, b) BY <1>3, BindSteps
  <2> QED BY <1>0, <2>1, SMT DEF Bind
<1>4. CASE PrefillAborted \/ EndsAtSeed \/ AdoptionFails \/ BindFails \/ Shutdown
  BY <1>0, <1>4, SMT DEF PrefillAborted, EndsAtSeed, AdoptionFails, BindFails, Shutdown
<1>5. CASE UNCHANGED <<prefill, arrived>> BY <1>5
<1> QED
  BY <1>1, <1>2, <1>3, <1>4, <1>5
  DEF Next, PrefillFails, SampleFails, BeginSequential, PackedVerify, PackedVerifyFails, StepReturns,
      FlushCommits, FlushFails, Stopped, vars, Verify, Publish, StepAnswered, StepFails, AdoptPacked,
      PublishPacked, FailRound, ParkEngine, CloseEngine, Repark, ReparkFails

\* Requests stay distinct: the engine a prompt is bound to is the first to serve it.
LEMMA DistinctStep == ASSUME Inductive, RequestsDistinct, Next PROVE RequestsDistinct'
<1> SUFFICES ASSUME ~failed' PROVE RequestsDistinct' BY DEF RequestsDistinct
<1>0. TypeOK BY DEF Inductive
<1>1. ~failed BY EngineMoves
<1>2. /\ prefill.stage # "none" => prefill.req \in arrived /\ \A s \in Live : engine[s].req # prefill.req
      /\ \A s \in Live : engine[s].req \in arrived
      /\ \A s, t \in Live : engine[s].req = engine[t].req => s = t
  BY <1>1 DEF RequestsDistinct
<1>3. ASSUME \A t \in Slots : t \in Live' => t \in Live /\ engine'[t].req = engine[t].req PROVE RequestsDistinct'
  <2>1. \A t \in Live' : t \in Live /\ engine'[t].req = engine[t].req BY <1>3 DEF Live
  <2>2. CASE \E r \in Request \ arrived : prefill'.req = r /\ arrived' = arrived \cup {r}
    BY <1>2, <2>1, <2>2 DEF RequestsDistinct
  <2>3. CASE /\ UNCHANGED arrived
             /\ prefill'.stage = "none" \/ (prefill.stage # "none" /\ prefill'.req = prefill.req)
    BY <1>2, <2>1, <2>3 DEF RequestsDistinct
  <2> QED BY <2>2, <2>3, PrefillMoves
<1>4. CASE UNCHANGED engine BY <1>3, <1>4 DEF Live
<1>5. ASSUME NEW s \in Slots, NEW b \in BOOLEAN, Sampling, Bind(s, b) PROVE RequestsDistinct'
  <2>1. engine'[s] = Serving(b) /\ \A t \in Slots : t # s => engine'[t] = engine[t] BY <1>0, <1>5, EngineAt DEF Bind
  <2>2. engine'[s].req = prefill.req BY <2>1, IdlePhases
  <2>3. \A t \in Live' : t # s => t \in Live /\ engine'[t].req = engine[t].req BY <2>1 DEF Live
  <2>4. prefill'.stage = "none" /\ UNCHANGED arrived BY <1>5, SMT DEF Bind, NoPrefill
  <2>5. prefill.stage # "none" BY <1>5, SMT DEF Sampling
  <2>6. prefill.req \in arrived /\ \A t \in Live : engine[t].req # prefill.req BY <1>2, <2>5
  <2>7. \A t \in Live' : engine'[t].req \in arrived' BY <1>2, <2>2, <2>3, <2>4, <2>6
  <2>8. \A t, u \in Live' : engine'[t].req = engine'[u].req => t = u BY <1>2, <2>2, <2>3, <2>6
  <2> QED BY <2>4, <2>7, <2>8 DEF RequestsDistinct
<1>6. ASSUME NEW s \in Live, NEW n \in 0..MaxRows, ServedOn(s, n) PROVE RequestsDistinct'
  BY <1>3, <1>6 DEF ServedOn, Live
<1>7. ASSUME NEW s \in Slots, Vacated(s) PROVE RequestsDistinct'
  BY <1>3, <1>7 DEF Vacated, Live
<1>8. CASE \A s \in Slots : engine'[s].phase = "none" BY <1>3, <1>8 DEF Live
<1> QED BY <1>4, <1>5, <1>6, <1>7, <1>8, EngineMoves

\* The states the requests decode from: the flushed carries of the live engines.
Decoded == [s \in Slots |-> IF ~failed /\ s \in Live THEN Flushed(s) ELSE NoState]

\* While nothing failed they are the requests' own states.
LEMMA DecodedIsOwn ==
    ASSUME Inductive, ~failed
    PROVE  \A s \in Slots : Decoded[s] = IF s \in Live THEN Own(s) ELSE NoState
BY DEF Inductive, CarryAtFrontier, Decoded

\* Every step, in terms of the requests' states.
LEMMA PrivateStep ==
    ASSUME Inductive, Inductive', RequestsDistinct, Next
    PROVE  [Private!Next]_<<Decoded, failed>>
<1>0. TypeOK BY DEF Inductive
<1>1. CASE failed'
  <2>1. Decoded' = [s \in Slots |-> NoState] /\ failed' = TRUE
    BY <1>1 DEF Decoded, Inductive, TypeOK
  <2>2. Private!Lose BY <2>1 DEF Private!Lose, Private!Nothing, NoState, Decoded
  <2> QED BY <2>2 DEF Private!Next
<1>2. CASE ~failed'
  <2>0. ~failed /\ failed' = failed BY <1>2, EngineMoves DEF Inductive, TypeOK
  <2>1. \A t \in Slots : Decoded[t] = IF t \in Live THEN Own(t) ELSE NoState BY <2>0, DecodedIsOwn
  <2>2. \A t \in Slots : Decoded'[t] = IF t \in Live' THEN Own(t)' ELSE NoState
    <3>1. \A t \in Slots : Decoded'[t] = IF t \in Live' THEN Flushed(t)' ELSE NoState
      BY <1>2 DEF Decoded
    <3>2. \A t \in Slots : t \in Live' => Flushed(t)' = Own(t)' BY <1>2 DEF Inductive, CarryAtFrontier
    <3> QED BY <3>1, <3>2
  <2>3. Decoded' = [t \in Slots |-> Decoded'[t]] BY DEF Decoded
  <2>4. Decoded = [t \in Slots |-> Decoded[t]] BY DEF Decoded
  <2>5. \A t \in Slots : engine'[t] = engine[t] => Decoded'[t] = Decoded[t]
    BY <2>1, <2>2 DEF Live, Own
  <2>6. ASSUME UNCHANGED engine PROVE Decoded' = Decoded BY <2>3, <2>4, <2>5, <2>6
  <2>7. ASSUME NEW s \in Slots, NEW b \in BOOLEAN, Sampling, Free(s), Bind(s, b) PROVE Private!Start(s)
    <3>1. engine'[s] = Serving(b) /\ \A t \in Slots : t # s => engine'[t] = engine[t]
      BY <1>0, <2>7, EngineAt DEF Bind
    <3>2. Decoded[s] = NoState BY <2>1, <2>7, SMT DEF Free, Live
    <3>3. s \in Live' /\ Own(s)' = [req |-> prefill.req, rows |-> 0] BY <3>1, IdlePhases DEF Live, Own
    <3>4. Decoded' = [Decoded EXCEPT ![s] = [req |-> prefill.req, rows |-> 0]]
      BY <2>2, <2>3, <2>4, <2>5, <3>1, <3>3
    <3>5. prefill.stage # "none" BY <2>7, SMT DEF Sampling
    <3>6. prefill.req \in Request /\ \A t \in Live : engine[t].req # prefill.req
      BY <2>0, <3>5 DEF Inductive, SeedInPlace, RequestsDistinct
    <3>7. NoState.req # prefill.req BY <3>6, RequestAssumption, SMT DEF NoState
    <3>8. \A t \in Slots : Own(t).req = engine[t].req BY SMT DEF Own
    <3>9. \A t \in Slots : Decoded[t].req # prefill.req BY <2>1, <3>6, <3>7, <3>8
    <3> QED BY <2>0, <3>2, <3>4, <3>6, <3>9 DEF Private!Start, Private!Nothing, NoState, Decoded
  <2>8. ASSUME NEW s \in Live, NEW n \in 0..MaxRows, ServedOn(s, n)
        PROVE  Decoded' = Decoded \/ Private!Extend(s)
    <3>1. s \in Slots /\ s \in Live' /\ engine[s].req \in Request /\ engine[s].position \in Nat
      BY <2>8 DEF Live, ServedOn, Inductive, ServesARequest, TypeOK, EngineType
    <3>2. Decoded[s] = [req |-> engine[s].req, rows |-> engine[s].position] BY <2>1, <2>8, <3>1 DEF Own
    <3>3. Decoded'[s] = [req |-> engine[s].req, rows |-> engine[s].position + n]
      BY <2>2, <2>8, <3>1 DEF Own, ServedOn
    <3>4. \A t \in Slots : t # s => Decoded'[t] = Decoded[t] BY <2>5, <2>8 DEF ServedOn
    <3>5. CASE n = 0
      <4>1. Decoded'[s] = Decoded[s] BY <3>1, <3>2, <3>3, <3>5, SMT
      <4> QED BY <2>3, <2>4, <3>4, <4>1
    <3>6. CASE n # 0
      <4>1. n \in 1..MaxRows BY <3>6, RowsAssumption, SMT
      <4>2. Decoded[s] # NoState BY <3>1, <3>2, RequestAssumption, SMT DEF NoState
      <4>3. Decoded'[s] = [Decoded[s] EXCEPT !.rows = @ + n] BY <3>2, <3>3, SMT
      <4>4. Decoded' = [Decoded EXCEPT ![s].rows = @ + n] BY <2>3, <2>4, <3>1, <3>4, <4>3
      <4> QED BY <2>0, <4>1, <4>2, <4>4 DEF Private!Extend, Private!Nothing, NoState, Decoded
    <3> QED BY <3>5, <3>6
  <2>9. ASSUME NEW s \in Slots, Vacated(s) PROVE Private!Stop(s)
    <3>1. Decoded'[s] = NoState BY <2>2, <2>9, SMT DEF Vacated, Live
    <3>2. \A t \in Slots : t # s => Decoded'[t] = Decoded[t] BY <2>5, <2>9 DEF Vacated
    <3>3. Decoded' = [Decoded EXCEPT ![s] = NoState] BY <2>3, <2>4, <3>1, <3>2
    <3> QED BY <2>0, <3>3 DEF Private!Stop, Private!Nothing, NoState, Decoded
  <2>10. ASSUME \A s \in Slots : engine'[s].phase = "none" PROVE Private!StopAll
    <3>1. \A t \in Slots : Decoded'[t] = NoState BY <2>2, <2>10, SMT DEF Live
    <3>2. Decoded' = [t \in Slots |-> NoState] BY <2>3, <3>1
    <3> QED BY <2>0, <3>2 DEF Private!StopAll, Private!Nothing, NoState, Decoded
  <2> QED BY <2>0, <2>6, <2>7, <2>8, <2>9, <2>10, EngineMoves DEF Private!Next, Live
<1> QED BY <1>1, <1>2

\* Sharing is invisible: working row, carries, residency flag and packed block together
\* implement a recurrent state private to every decoding request, which starts at its
\* prompt and moves only by the rows its own verifies accepted.
THEOREM StatesArePrivate == Spec => ImplementsPrivateState
<1>1. Init => Private!Init /\ RequestsDistinct
  <2> SUFFICES ASSUME Init PROVE Private!Init /\ RequestsDistinct OBVIOUS
  <2>1. \A s \in Slots : engine[s].phase \in {"none", "parked"} BY IdlePhases DEF Init
  <2>2. \A s \in Slots : s \notin Live BY <2>1, SMT DEF Live
  <2>3. prefill.stage = "none" /\ ~failed /\ failed = FALSE BY SMT DEF Init, NoPrefill
  <2>4. RequestsDistinct BY <2>2, <2>3 DEF RequestsDistinct, Live
  <2> QED BY <2>2, <2>3, <2>4 DEF Private!Init, Private!Nothing, NoState
<1>2. RequestsDistinct /\ Inductive /\ [Next]_vars => RequestsDistinct'
  <2>1. UNCHANGED vars /\ RequestsDistinct => RequestsDistinct' BY DEF vars, RequestsDistinct, Live
  <2> QED BY <2>1, DistinctStep
<1>3. Inductive /\ Inductive' /\ RequestsDistinct /\ [Next]_vars => [Private!Next]_<<Decoded, failed>>
  <2>1. UNCHANGED vars => UNCHANGED <<Decoded, failed>> BY DEF vars, Decoded, Live, Flushed
  <2> QED BY <2>1, PrivateStep
<1> QED
  BY <1>1, <1>2, <1>3, Invariance, PTL DEF Spec, ImplementsPrivateState, Private!Spec, Decoded

===================================================================================
