------------------------------ MODULE RecurrentState ------------------------------
(***************************************************************************)
(* Who owns the recurrent (GDN) state, and when.  Every decoding request   *)
(* keeps its committed state in the carry of its pool slot, but the        *)
(* captured traces of every engine, every prefill and every packed block   *)
(* run through one working row of the model, native slot 0.  The module    *)
(* global verifier_engine._resident says whose state that row holds; an    *)
(* engine that is resident skips the restore of its carry.                 *)
(*                                                                         *)
(* A step of the lifecycle is a prefill chunk, the sampling of a seed, a   *)
(* decode round, a detach or an idle moment; nothing runs concurrently,    *)
(* but steps of different requests follow one another in any order and     *)
(* every one of them may raise.  A raise that leaves the lifecycle's step  *)
(* makes it failed for good (ServingLifecycle._check).                     *)
(***************************************************************************)
EXTENDS Integers, FiniteSets

CONSTANTS
    Users,          \* pool slots, which are also the segments of the packed block
    Request,        \* the requests that ever arrive
    NoRequest,
    NoSlot,
    MaxRows,        \* rows of a ticket, the most one verify commits
    Budget,         \* bound: rows a request commits after its prefill
    PaddedMin,      \* padded_min_users, Users when no round is padded
    GdnAfterPairs,  \* QWEN_FAST_GDN_AFTER_PAIRS: commit traces wait for the drafts
    ParkedEngines   \* QWEN_FAST_PARKED_ENGINES: engines outlive their requests

Slots == 0..(Users - 1)

ASSUME UsersAssumption == Users \in Nat \ {0} /\ PaddedMin \in 1..Users
ASSUME RequestAssumption == NoRequest \notin Request /\ NoSlot \notin Slots
ASSUME RowsAssumption == MaxRows \in Nat \ {0} /\ Budget \in Nat
ASSUME FlagAssumption == GdnAfterPairs \in BOOLEAN /\ ParkedEngines \in BOOLEAN

VARIABLES
    native,    \* the model's native state rows: 0 is the working row, 1 any other
    carry,     \* the carry of each pool slot
    resident,  \* verifier_engine._resident, by the pool slot of the engine
    engine,    \* the engine on each slot: phase, request, position, and the state the
               \* verified rows started from
    block,     \* the packed block: phase, segment states at verify, undecided segments,
               \* deferred commits
    round,     \* the decode step on the stack and its entries still to be served
    prefill,   \* the request in its prefill and the native row its last chunk wrote
    arrived,   \* requests whose prefill has begun
    failed,    \* ServingLifecycle.failed
    closed     \* the attach was torn down

vars == <<native, carry, resident, engine, block, round, prefill, arrived, failed, closed>>

\* A recurrent state is a request's prompt advanced by the rows committed since, or
\* nothing any request may continue from: zeros, a partial prompt, speculative rows.
NoState == [req |-> NoRequest, rows |-> 0]
State == [req : Request \cup {NoRequest}, rows : Nat]
Prefilled(r) == [req |-> r, rows |-> 0]
Advance(state, n) == IF state = NoState THEN NoState ELSE [state EXCEPT !.rows = @ + n]

NoEngine == [phase |-> "none", req |-> NoRequest, position |-> 0, base |-> NoState, parkable |-> FALSE]
ParkedEngine == [NoEngine EXCEPT !.phase = "parked", !.parkable = TRUE]
NoPrefill == [stage |-> "none", req |-> NoRequest, row |-> 0]
NoRound == [kind |-> "none", todo |-> {}]
NothingDeferred == [s \in Slots |-> 0]

Live == {s \in Slots : engine[s].phase \in {"idle", "verified"}}
Idle == {s \in Slots : engine[s].phase = "idle"}
Own(s) == [req |-> engine[s].req, rows |-> engine[s].position]

\* The lifecycle accepts a call: sample_tokens when a seed is due, execute_model otherwise.
Quiet == ~failed /\ ~closed /\ round = NoRound
Sampling == Quiet /\ prefill.stage = "due"
Executing == Quiet /\ prefill.stage # "due"

\* ParkedEngineSet.build parked an engine on the slots the DRAM split held, lowest first.
Init ==
    /\ native = [row \in 0..1 |-> NoState]
    /\ carry = [s \in Slots |-> NoState]
    /\ resident = NoSlot
    /\ \E parked \in IF ParkedEngines THEN 0..Users ELSE {0} :
         engine = [s \in Slots |-> IF s < parked THEN ParkedEngine ELSE NoEngine]
    /\ block = [phase |-> "idle", base |-> [s \in Slots |-> NoState], pending |-> {},
                armed |-> FALSE, deferring |-> FALSE, deferred |-> NothingDeferred]
    /\ round = NoRound /\ prefill = NoPrefill /\ arrived = {}
    /\ failed = FALSE /\ closed = FALSE

-----------------------------------------------------------------------------
(* Prefill *)

\* A chunk leaves a snapshot of the prompt so far in the native row the plugin gave it.
ChunkWrites(r, row, last) ==
    /\ native' = [native EXCEPT ![row] = IF last THEN Prefilled(r) ELSE NoState]
    /\ prefill' = [stage |-> IF last THEN "due" ELSE "chunks", req |-> r, row |-> row]

\* _execute admits one fresh prompt: note_prefill, then its first or only chunk.
PrefillBegins ==
    /\ Quiet /\ prefill.stage = "none"
    /\ \E r \in Request \ arrived :
         /\ \E row \in 0..1, last \in BOOLEAN : ChunkWrites(r, row, last)
         /\ arrived' = arrived \cup {r}
    /\ resident' = NoSlot
    /\ UNCHANGED <<carry, engine, block, round, failed, closed>>

\* _continue_prefill and _displace_after_continuation: the plugin may give a later chunk
\* the working row, and only then is the resident engine displaced.
PrefillContinues ==
    /\ Quiet /\ prefill.stage = "chunks"
    /\ \E row \in 0..1, last \in BOOLEAN :
         /\ ChunkWrites(prefill.req, row, last)
         /\ resident' = IF row = 0 THEN NoSlot ELSE resident
    /\ UNCHANGED <<carry, engine, block, round, arrived, failed, closed>>

\* The chunk raised in the runner: a continuation has displaced nobody yet.  A first chunk
\* that raises ends in the same state, one step earlier.
PrefillFails ==
    /\ Quiet /\ prefill.stage = "chunks"
    /\ \E row \in 0..1 : native' = [native EXCEPT ![row] = NoState]
    /\ failed' = TRUE
    /\ UNCHANGED <<carry, resident, engine, block, round, prefill, arrived, closed>>

\* _release_prefill: the prompt was aborted between two chunks.
PrefillAborted ==
    /\ Quiet /\ prefill.stage = "chunks"
    /\ prefill' = NoPrefill
    /\ UNCHANGED <<native, carry, resident, engine, block, round, arrived, failed, closed>>

\* _sample: the seed ends the request, or a host check refuses it (RequestRefused) before
\* anything of it touched the device beyond its prefill.
EndsAtSeed ==
    /\ Sampling
    /\ prefill' = NoPrefill
    /\ UNCHANGED <<native, carry, resident, engine, block, round, arrived, failed, closed>>

\* The native sampler raised: the seed stays due, so the lifecycle cannot even close.
SampleFails ==
    /\ Sampling
    /\ failed' = TRUE
    /\ UNCHANGED <<native, carry, resident, engine, block, round, prefill, arrived, closed>>

-----------------------------------------------------------------------------
(* Admission: from_prefill *)

\* ServingBufferPool.acquire and ParkedEngineSet.peek both give the lowest free slot.
Free(s) == engine[s].phase \in {"none", "parked"}
NextSlot(s) == s \in Slots /\ Free(s) /\ \A t \in 0..(s - 1) : ~Free(t)

\* An engine at the end of the prefilled prompt.
Serving(parkable) == [phase |-> "idle", req |-> prefill.req, position |-> 0,
                      base |-> NoState, parkable |-> parkable]

\* Mutant: the engine saves the working row without the adoption.
BindUnadopted(s, parkable) ==
    /\ UNCHANGED native
    /\ carry' = [carry EXCEPT ![s] = native[0]]
    /\ resident' = s
    /\ engine' = [engine EXCEPT ![s] = Serving(parkable)]
    /\ prefill' = NoPrefill
    /\ UNCHANGED <<block, round, arrived, failed, closed>>

\* adopt_prefill_slot, then the engine saves the working row: its initial snapshot, put
\* back after the last capture, and its carry.
Bind(s, parkable) ==
    /\ native' = [native EXCEPT ![0] = native[prefill.row]]
    /\ carry' = [carry EXCEPT ![s] = native[prefill.row]]
    /\ resident' = s
    /\ engine' = [engine EXCEPT ![s] = Serving(parkable)]
    /\ prefill' = NoPrefill
    /\ UNCHANGED <<block, round, arrived, failed, closed>>

\* VerifierEngine.__init__ on a slot without a parked engine.
BuildEngine ==
    /\ Sampling
    /\ \E s \in Slots : NextSlot(s) /\ engine[s].phase = "none" /\ Bind(s, FALSE)

\* VerifierEngine.rebind of the slot's parked engine.
RebindEngine ==
    /\ Sampling
    /\ \E s \in Slots : NextSlot(s) /\ engine[s].phase = "parked" /\ Bind(s, TRUE)

\* The adoption raised half way, or every slot is lent: residency was not touched yet.
AdoptionFails ==
    /\ Sampling
    /\ \E left \in {NoState, native[prefill.row]} : native' = [native EXCEPT ![0] = left]
    /\ prefill' = NoPrefill /\ failed' = TRUE
    /\ UNCHANGED <<carry, resident, engine, block, round, arrived, closed>>

\* The build or the rebind raised after note_prefill: the engine is closed, a parked
\* slot unparked.
BindFails ==
    /\ Sampling
    /\ \E s \in Slots :
         /\ NextSlot(s)
         /\ carry' = [carry EXCEPT ![s] = NoState]
         /\ engine' = [engine EXCEPT ![s] = NoEngine]
    /\ native' = [native EXCEPT ![0] = NoState]
    /\ resident' = NoSlot
    /\ prefill' = NoPrefill /\ failed' = TRUE
    /\ UNCHANGED <<block, round, arrived, closed>>

-----------------------------------------------------------------------------
(* A sequential round: FastRequest.step of each entry in turn *)

Verifying(s, base) == [engine[s] EXCEPT !.phase = "verified", !.base = base]
Failing(s) == [engine[s] EXCEPT !.phase = "failed"]
NothingVerified == \A s \in Slots : engine[s].phase # "verified"

\* EarlyDraft.execute arms the block for every decode step when commits may be deferred.
Armed == [block EXCEPT !.armed = GdnAfterPairs]

\* packed_device_step hands the entries to sequential_packed_step.
BeginSequential ==
    /\ Executing
    /\ \E entries \in (SUBSET Idle) \ {{}} : round' = [kind |-> "sequential", todo |-> entries]
    /\ block' = Armed
    /\ UNCHANGED <<native, carry, resident, engine, prefill, arrived, failed, closed>>

\* VerifierEngine.verify: restore_carry unless resident, then the trace runs the ticket's
\* rows through the working row.
Verify(s) ==
    /\ round.kind = "sequential" /\ s \in round.todo /\ engine[s].phase = "idle"
    /\ engine[s].position < Budget /\ NothingVerified
    /\ engine' = [engine EXCEPT ![s] = Verifying(s, IF resident = s THEN native[0] ELSE carry[s])]
    /\ resident' = s
    /\ native' = [native EXCEPT ![0] = NoState]
    /\ UNCHANGED <<carry, block, round, prefill, arrived, failed, closed>>

Committable(s) == {n \in 0..MaxRows : engine[s].position + n <= Budget}
Published(s, n) == [engine[s] EXCEPT !.phase = "idle", !.position = @ + n, !.base = NoState]

\* VerifierEngine.publish on the engine's own capture: the retained block writes the
\* accepted prefix into the working row, save_carry copies it out.
Publish(s) ==
    /\ round.kind = "sequential" /\ s \in round.todo /\ engine[s].phase = "verified"
    /\ \E n \in Committable(s) :
         /\ native' = [native EXCEPT ![0] = Advance(engine[s].base, n)]
         /\ carry' = [carry EXCEPT ![s] = Advance(engine[s].base, n)]
         /\ engine' = [engine EXCEPT ![s] = Published(s, n)]
    /\ resident' = s
    /\ round' = [round EXCEPT !.todo = @ \ {s}]
    /\ UNCHANGED <<block, prefill, arrived, failed, closed>>

\* FastRequest.step answers a cancelled or finished request without the device.
StepAnswered(s) ==
    /\ round.kind = "sequential" /\ s \in round.todo /\ engine[s].phase = "idle" /\ NothingVerified
    /\ round' = [round EXCEPT !.todo = @ \ {s}]
    /\ UNCHANGED <<native, carry, resident, engine, block, prefill, arrived, failed, closed>>

\* verify raised before or after restore_carry claimed the row, or publish raised with the
\* carry perhaps half written.
StepFails(s) ==
    /\ round.kind = "sequential" /\ s \in round.todo
    /\ engine[s].phase = "verified" \/ NothingVerified
    /\ engine' = [engine EXCEPT ![s] = Failing(s)]
    /\ \/ engine[s].phase = "idle" /\ UNCHANGED <<native, resident, carry>>
       \/ /\ native' = [native EXCEPT ![0] = NoState]
          /\ resident' = s
          /\ \/ UNCHANGED carry
             \/ engine[s].phase = "verified" /\ carry' = [carry EXCEPT ![s] = NoState]
    /\ block' = [block EXCEPT !.armed = FALSE]
    /\ round' = NoRound /\ failed' = TRUE
    /\ UNCHANGED <<prefill, arrived, closed>>

-----------------------------------------------------------------------------
(* A packed round: run_verified_block *)

\* ineligible and PackedVerifierEngine.segments: all users, or enough for a padded round.
Servable(entries) == Cardinality(entries) >= PaddedMin

\* The carries once the deferred commit traces ran: each writes the rows accepted on
\* top of the state its segment was verified from.
Flushed(s) == IF block.deferred[s] = 0 THEN carry[s] ELSE Advance(block.base[s], block.deferred[s])
Deferred == {s \in Slots : block.deferred[s] > 0}

\* PackedVerifierEngine.verify: deferred commits go first (the backstop), then one trace
\* restores every segment from its carry.  The idle segments of a padded round decide
\* nothing at once, before any live commit.
PackedVerify ==
    /\ Executing /\ block.phase = "idle"
    /\ \E entries \in (SUBSET Idle) \ {{}} :
         /\ Servable(entries) /\ \A s \in entries : engine[s].position < Budget
         /\ round' = [kind |-> "packed", todo |-> entries]
         /\ block' = [phase |-> "verified", base |-> [s \in Slots |-> Flushed(s)], pending |-> entries,
                      armed |-> FALSE, deferring |-> GdnAfterPairs, deferred |-> NothingDeferred]
    /\ carry' = [s \in Slots |-> Flushed(s)]
    /\ resident' = NoSlot
    /\ native' = [native EXCEPT ![0] = NoState]
    /\ UNCHANGED <<engine, prefill, arrived, failed, closed>>

\* The verify refused its entries on the host, or raised while staging or in its trace.
PackedVerifyFails ==
    /\ Executing /\ block.phase = "idle"
    /\ \E entries \in (SUBSET Idle) \ {{}} : Servable(entries)
    /\ \E phase \in {"idle", "failed"} : block' = [block EXCEPT !.phase = phase]
    /\ \E left \in {native[0], NoState} : native' = [native EXCEPT ![0] = left]
    /\ resident' = NoSlot
    /\ failed' = TRUE
    /\ UNCHANGED <<carry, engine, round, prefill, arrived, closed>>

\* commit_entry: VerifierEngine.adopt_packed.
AdoptPacked(s) ==
    /\ round.kind = "packed" /\ s \in round.todo /\ engine[s].phase = "idle" /\ NothingVerified
    /\ block.phase = "verified" /\ s \in block.pending
    /\ engine' = [engine EXCEPT ![s] = Verifying(s, block.base[s])]
    /\ UNCHANGED <<native, carry, resident, block, round, prefill, arrived, failed, closed>>

\* Mutant: the deferred trace is recorded without the rows it commits.
CommitUserForgets(s, n) ==
    /\ block' = [block EXCEPT !.pending = @ \ {s},
                              !.phase = IF block.pending = {s} THEN "idle" ELSE @]
    /\ IF n > 0 /\ ~block.deferring
       THEN /\ carry' = [carry EXCEPT ![s] = Advance(block.base[s], n)]
            /\ native' = [native EXCEPT ![0] = Advance(block.base[s], n)]
       ELSE UNCHANGED <<carry, native>>
    /\ resident' = NoSlot

\* PackedVerifierEngine.commit_user and execute_commit: prefix 0 runs nothing, otherwise
\* the commit trace runs now or waits for the flush; the last decision frees the block.
CommitUser(s, n) ==
    /\ block' = [block EXCEPT !.pending = @ \ {s},
                              !.phase = IF block.pending = {s} THEN "idle" ELSE @,
                              !.deferred = IF block.deferring THEN [@ EXCEPT ![s] = n] ELSE @]
    /\ IF n > 0 /\ ~block.deferring
       THEN /\ carry' = [carry EXCEPT ![s] = Advance(block.base[s], n)]
            /\ native' = [native EXCEPT ![0] = Advance(block.base[s], n)]
       ELSE UNCHANGED <<carry, native>>
    /\ resident' = NoSlot

\* VerifierEngine.publish of an adopted ticket, accepted or aborted (n = 0).
PublishPacked(s) ==
    /\ round.kind = "packed" /\ s \in round.todo /\ engine[s].phase = "verified"
    /\ \E n \in Committable(s) :
         /\ CommitUser(s, n)
         /\ engine' = [engine EXCEPT ![s] = Published(s, n)]
    /\ round' = [round EXCEPT !.todo = @ \ {s}]
    /\ UNCHANGED <<prefill, arrived, failed, closed>>

\* The state of the block after the round is failed: broken by a commit, or with every
\* undecided segment released at prefix 0; then the early draft flushes or drops the
\* deferred commits.
BlockAfter(broken) ==
    [block EXCEPT !.phase = IF broken THEN "failed" ELSE "idle", !.pending = {},
                  !.armed = FALSE, !.deferring = FALSE, !.deferred = NothingDeferred]

\* Mutant: the undecided segments of a failed round are left as they are.
FailRoundUndecided(s) ==
    /\ round.kind = "packed" /\ s \in round.todo
    /\ engine[s].phase = "verified" \/ NothingVerified
    /\ engine' = [engine EXCEPT ![s] = Failing(s)]
    /\ \E broken \in BOOLEAN :
         block' = IF broken THEN BlockAfter(TRUE) ELSE [BlockAfter(FALSE) EXCEPT !.phase = block.phase]
    /\ carry' = [t \in Slots |-> Flushed(t)]
    /\ native' = [native EXCEPT ![0] = NoState]
    /\ resident' = NoSlot /\ round' = NoRound /\ failed' = TRUE
    /\ UNCHANGED <<prefill, arrived, closed>>

\* An entry's adoption or publication raised: fail_round, then the quiet flush.  Entries
\* already committed keep their commit unless the block broke while it was deferred.
FailRound(s) ==
    /\ round.kind = "packed" /\ s \in round.todo
    /\ engine[s].phase = "verified" \/ NothingVerified
    /\ engine' = [engine EXCEPT ![s] = Failing(s)]
    /\ \/ /\ block' = BlockAfter(FALSE)
          /\ carry' = [t \in Slots |-> Flushed(t)]
       \/ /\ block' = BlockAfter(TRUE)
          /\ carry' = IF engine[s].phase = "verified" /\ ~block.deferring
                      THEN [carry EXCEPT ![s] = NoState] ELSE carry
    /\ native' = [native EXCEPT ![0] = NoState]
    /\ resident' = NoSlot /\ round' = NoRound /\ failed' = TRUE
    /\ UNCHANGED <<prefill, arrived, closed>>

-----------------------------------------------------------------------------
(* The end of a round: early_draft.EarlyDraft.execute *)

\* Mutant: the step returns without the flush.
StepReturnsUnflushed ==
    /\ round.kind \in {"sequential", "packed"} /\ round.todo = {}
    /\ round' = NoRound
    /\ UNCHANGED <<native, carry, resident, engine, block, prefill, arrived, failed, closed>>

\* Every entry is served; under the early draft the next proposals are drafted before
\* execute_model returns, which touches no recurrent state.
StepReturns ==
    /\ round.kind \in {"sequential", "packed"} /\ round.todo = {}
    /\ round' = IF GdnAfterPairs THEN [kind |-> "drafts", todo |-> {}] ELSE NoRound
    /\ UNCHANGED <<native, carry, resident, engine, block, prefill, arrived, failed, closed>>

Disarmed == [block EXCEPT !.armed = FALSE, !.deferring = FALSE, !.deferred = NothingDeferred]

\* Mutant: the flush enqueues the trace of one segment only.
FlushCommitsLast ==
    /\ round.kind = "drafts"
    /\ block' = Disarmed
    /\ IF Deferred = {} THEN UNCHANGED <<native, carry, resident>>
       ELSE /\ \E last \in Deferred :
                 /\ native' = [native EXCEPT ![0] = Flushed(last)]
                 /\ carry' = [carry EXCEPT ![last] = Flushed(last)]
            /\ resident' = NoSlot
    /\ round' = NoRound
    /\ UNCHANGED <<engine, prefill, arrived, failed, closed>>

\* flush_commits after the pairs' readback or at the end of the early draft.
FlushCommits ==
    /\ round.kind = "drafts"
    /\ block' = Disarmed
    /\ carry' = [s \in Slots |-> Flushed(s)]
    /\ IF Deferred = {} THEN UNCHANGED <<native, resident>>
       ELSE /\ \E last \in Deferred : native' = [native EXCEPT ![0] = Flushed(last)]
            /\ resident' = NoSlot
    /\ round' = NoRound
    /\ UNCHANGED <<engine, prefill, arrived, failed, closed>>

\* A commit trace of the flush raised: the round of carries is half enqueued.
FlushFails ==
    /\ round.kind = "drafts"
    /\ \E written \in SUBSET Deferred : \E torn \in Deferred \ written :
         carry' = [s \in Slots |-> IF s = torn THEN NoState ELSE IF s \in written THEN Flushed(s) ELSE carry[s]]
    /\ block' = [Disarmed EXCEPT !.phase = "failed"]
    /\ native' = [native EXCEPT ![0] = NoState]
    /\ resident' = NoSlot /\ round' = NoRound /\ failed' = TRUE
    /\ UNCHANGED <<engine, prefill, arrived, closed>>

-----------------------------------------------------------------------------
(* Detach, idle moments and shutdown *)

Displaced(s) == IF resident = s THEN NoSlot ELSE resident

\* FastRequest.close of a rebound engine: park_engine, park_drafter.
ParkEngine(s) ==
    /\ Executing /\ engine[s].phase = "idle" /\ engine[s].parkable
    /\ engine' = [engine EXCEPT ![s] = ParkedEngine]
    /\ resident' = Displaced(s)
    /\ UNCHANGED <<native, carry, block, round, prefill, arrived, failed, closed>>

\* FastRequest.close of an engine that was built for its request, or could not park.
CloseEngine(s) ==
    /\ Executing /\ engine[s].phase = "idle"
    /\ engine' = [engine EXCEPT ![s] = NoEngine]
    /\ resident' = Displaced(s)
    /\ UNCHANGED <<native, carry, block, round, prefill, arrived, failed, closed>>

\* ServingLifecycle.idle: nothing decodes and nothing prefills.
IdleMoment == Quiet /\ ParkedEngines /\ prefill.stage = "none" /\ \A s \in Slots : Free(s)
Unparked(s) == engine[s].phase = "none" /\ \A t \in 0..(s - 1) : engine[t].phase # "none"

\* repark_idle: build_slot zeroes the carry, restores the working row from it, builds a
\* synthetic engine and parks it.
Repark(s) ==
    /\ IdleMoment /\ Unparked(s)
    /\ carry' = [carry EXCEPT ![s] = NoState]
    /\ native' = [native EXCEPT ![0] = NoState]
    /\ engine' = [engine EXCEPT ![s] = ParkedEngine]
    /\ resident' = NoSlot
    /\ UNCHANGED <<block, round, prefill, arrived, failed, closed>>

\* build_slot raised: what it built is closed, the engine goes on serving unparked.
ReparkFails(s) ==
    /\ IdleMoment /\ Unparked(s)
    /\ carry' = [carry EXCEPT ![s] = NoState]
    /\ native' = [native EXCEPT ![0] = NoState]
    /\ resident' = Displaced(s)
    /\ UNCHANGED <<engine, block, round, prefill, arrived, failed, closed>>

\* Lifecycle, parked engines and packed block are closed in this order; the block
\* refuses while a segment of it is undecided.
Shutdown ==
    /\ ~closed /\ round = NoRound /\ prefill.stage # "due"
    /\ block.phase \in {"idle", "failed"}
    /\ engine' = [s \in Slots |-> NoEngine]
    /\ resident' = NoSlot /\ prefill' = NoPrefill
    /\ block' = [Disarmed EXCEPT !.phase = "closed", !.pending = {}]
    /\ closed' = TRUE
    /\ UNCHANGED <<native, carry, round, arrived, failed>>

\* The process ends: closed, or failed with no one left to close it.
Stopped == (closed \/ failed) /\ UNCHANGED vars

Next ==
    \/ PrefillBegins \/ PrefillContinues \/ PrefillFails \/ PrefillAborted
    \/ EndsAtSeed \/ SampleFails
    \/ BuildEngine \/ RebindEngine \/ AdoptionFails \/ BindFails
    \/ BeginSequential \/ PackedVerify \/ PackedVerifyFails
    \/ StepReturns \/ FlushCommits \/ FlushFails \/ Shutdown \/ Stopped
    \/ \E s \in Slots :
         \/ Verify(s) \/ Publish(s) \/ StepAnswered(s) \/ StepFails(s)
         \/ AdoptPacked(s) \/ PublishPacked(s) \/ FailRound(s)
         \/ ParkEngine(s) \/ CloseEngine(s) \/ Repark(s) \/ ReparkFails(s)

Spec == Init /\ [][Next]_vars

-----------------------------------------------------------------------------
(* Properties *)

EngineType == [phase : {"none", "idle", "verified", "failed", "parked"},
               req : Request \cup {NoRequest}, position : Nat, base : State, parkable : BOOLEAN]
BlockType == [phase : {"idle", "verified", "failed", "closed"}, base : [Slots -> State],
              pending : SUBSET Slots, armed : BOOLEAN, deferring : BOOLEAN,
              deferred : [Slots -> 0..MaxRows]]
RoundType == [kind : {"none", "sequential", "packed", "drafts"}, todo : SUBSET Slots]
PrefillType == [stage : {"none", "chunks", "due"}, req : Request \cup {NoRequest}, row : 0..1]

\* Every variable has its type: the phases each class assigns, no carry, engine or segment
\* without its slot.
TypeOK ==
    /\ native \in [0..1 -> State] /\ carry \in [Slots -> State]
    /\ resident \in Slots \cup {NoSlot}
    /\ engine \in [Slots -> EngineType]
    /\ block \in BlockType
    /\ round \in RoundType
    /\ prefill \in PrefillType
    /\ arrived \subseteq Request /\ failed \in BOOLEAN /\ closed \in BOOLEAN

\* Every verify, on the engine's own trace or in a packed segment, ran from the state of
\* its own request at exactly the rows it had committed - whatever prefills, rounds, parks
\* and rebinds of other requests came before (verifier_engine.verify, adopt_packed).
VerifiedOnOwnState == \A s \in Slots : engine[s].phase = "verified" => engine[s].base = Own(s)

\* The residency flag is never optimistic: an idle engine that would skip the restore of
\* its carry finds its own committed state in the working row (restore_carry).
ResidentOwnsRow ==
    ~failed /\ resident # NoSlot =>
        /\ engine[resident].phase \in {"idle", "verified"}
        /\ engine[resident].phase = "idle" => native[0] = Own(resident)

\* Once the deferred commits of the round are counted in, the carry of every decoding
\* request is its state at its frontier (save_carry, commit_user, flush_commits).  A flush that
\* raised ends the lifecycle, and with it this claim: RoundFences follows the carries it leaves.
CarryAtFrontier == ~failed => \A s \in Live : Flushed(s) = Own(s)

\* No deferred commit and no armed deferral outlives the execute_model that decided it,
\* so no detach, rebind or prefill can come between a decision and its trace
\* (early_draft.EarlyDraft.execute, "R1").
DeferralsStayInStep ==
    round = NoRound => block.deferred = NothingDeferred /\ ~block.deferring /\ (~failed => ~block.armed)

\* However a round ends, the block is left idle or failed, never with a segment undecided:
\* a verified block refuses the next round and refuses to close (fail_round).
BlockDecided == round = NoRound => block.phase # "verified" /\ (block.phase = "idle" => block.pending = {})

\* What a request sees of the shared rows, the carries and the block.
Private == INSTANCE PrivateState WITH
    state <- [s \in Slots |-> IF ~failed /\ s \in Live THEN Flushed(s) ELSE NoState],
    lost <- failed

\* Sharing is invisible: every step of the detailed system is, for the states the requests
\* decode from, a start, an extension by accepted rows, an end, the loss of everything or
\* no change at all - never one request's state moving because another's did.
ImplementsPrivateState == Private!Spec
===================================================================================
