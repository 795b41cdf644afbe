# Verification of the speculative-decoding serving core

TLA+ models of the host-side control logic that serves Qwen3.8-27B on Tenstorrent
Blackhole cards with a speculative drafter, and of the three device protocols in which cores
wait for one another, with TLC configurations that check them on small instances and
TLAPS proofs for every value of the constants.

The repository holds 383 000 lines of Python and C++, most of them kernels, experiments,
benchmarks and rig gates. The program's own logic - who may draft, verify, publish, emit,
prefill, fail and release, and in which order - lives in `speculative-decoding/harness/`
and the `serving_*`, `dflash_*`, `verifier_engine` and `packed_verifier` files of
`scripts/ci/`, in the grafts it puts into vLLM's scheduler and runner, and in the prefix cache.
That logic is what these modules are about, with the cross-core protocols of the prefill and
decode attention kernels. The host part runs in one worker process: vLLM's engine loop calls `sample_tokens`, `execute_model` and
`take_draft_token_ids` on the wrapped model runner, one after the other. There are no
threads on these paths; what is hard is that one decode round mutates five objects and
the device in sequence, any call may raise in between, several requests share one
recurrent-state slot and one packed block, and scheduler and worker each keep their own
idea of what is pending.

## Inventory

| Component | State it keeps | Operations | Hard behaviour |
|---|---|---|---|
| Greedy session (`greedy_session`, `greedy_verify`) | phase, epoch, position, seed, emitted stream, pending ticket | propose, narrow, commit, abort, fail_verification, close | late holders of an old ticket; a publication callback that raises half way |
| Draft proposers (`hybrid_draft`, `lookup_draft`, `dflash_request_runtime`, `dflash_device`) | runtime phase and position, drafter history and its prepared publication | propose, prepare, commit and discard a publication | lookup and neural rounds interleave, the runtime's phase must follow both |
| Captured verifier (`verifier_engine`) | phase, position, verified ticket, captures, carry; the shared slot-0 resident | verify, adopt_packed, publish, park, rebind, close | slot 0 of the recurrent cache is shared by every request |
| Request driver (`serving_fast_request`, `serving_runner_bridge`, `serving_packed_bridge`) | busy, cancelled, closed, failed | prepare, step, cancel, close | exception paths between verify and publish |
| Runner state (`serving_vllm_state`, `serving_vllm_contract`, `serving_vllm_packed`) | output tokens, computed tokens, reserved slots | validate, apply the committed block | the scheduler optimistically counts every reserved slot |
| Page binding (`serving_page_binding`) | device page table, failed flag | refresh before every step | a partly written table |
| Packed round (`serving_packed_step`, `serving_worker_hook`, `serving_sequential_step`) | tickets of all decoders, the packed block, per-entry outcomes | width policy, discard, narrow, verify block, commit each entry, refuse, fail | one entry fails after another has committed |
| Packed block (`packed_verifier`) | stage, written segments, user bindings | bind, verify, commit_user, refuse, release | commits of several users after one verify |
| Lifecycle (`serving_lifecycle`, `serving_worker_hook`) | prefilling request and its capture, decoding requests, chunk in flight, pending seed, failed | execute_model, sample_tokens, finish, close | prefill of one request while another decodes; finish and abort in any order |
| Request quarantine (`serving_request_quarantine`) | ids the worker ended on its own | register, abort_quarantined | the scheduler goes on scheduling them until it hears |
| Prefill admission and alternation (`serving_prefill_admission`, `serving_one_in_flight`, `lever_n_model_patch`) | hidden queue, carried finished ids, streak and credit | hide, hold for DRAM, carry, yield to decodes | a discarded pass has already taken the finished ids |
| Buffer pool and parked engines (`serving_buffer_pool`, `serving_parked_engines`) | slots leased to requests, engines kept captured | acquire, release, park, rebind, evict | an engine parked with another request's addresses |
| Request factory and runtime attachment (`serving_request_factory`, `serving_runtime`) | built request and its parts | build, unwind | construction that fails half way |
| Prefix cache (`qwen_prefix_registry`, `_scheduler_patch`, `_model_patch`) | checkpoints with pins, grants staged and committed per step, blocks published in this step, kill switch | trim, plan, cap, commit, put, evict, reset, free; restore, capture | K/V and recurrent state are kept by two owners with different evictions; the same step publishes and hits |
| Prefill window (`dflash_prefill_window`) | hidden-state window of the drafter | append, slide, seal | windows shorter than the prompt |
| Round fences, early draft and prestaging (`gdn_records`, `verify_prestage`, `early_draft`) | decisions and debts of the retained block, deferred commit traces, snapshot of staged inputs and its epoch, cached drafts and their key | commit, defer, flush, fence, replay, pre-stage, draft, take | the device runs behind the host; whatever was staged or drafted early may be stale when used |
| K/V chain of the prefill attention (`sdpa_prefill_chain/reader_interleaved_qwen_chain.cpp`) | per core: circular buffers, credit and VALID semaphores, messages in flight | reserve, credit, receive, push, forward, relay, exit | three processors per core and a network that delays every message; equality waits that a doubled credit would jump over |
| K/V share of the decode attention (`sdpa_decode_slice/reader_decode_qwen_slice.cpp`) | rings of leader and twins, READY and VALID semaphores, multicasts in flight | read, read ahead, multicast, barrier, announce, signal, exit | a leader that overruns a slow twin, a READY lost in the reset |
| Tree reduction of the decode attention (`writer_decode_qwen_slice.cpp`, `sdpa_flash_decode_qwen.cpp`) | per core: partial results, one buffer used in both directions, nibbles of a semaphore | receive, combine, send, write | every core works out the plan on its own; one disagreement and somebody waits for ever |
| Other device kernels, TTNN ops, simulators, gates, benchmarks, workflows | - | - | numerics and I/O, not control: not modelled |

Components interact by direct calls inside one step. The lifecycle owns the hook, the hook
owns one bridge per decoding request, a bridge owns a `FastRequest`, and that owns session,
runtime and engine. The shared state is the recurrent cache (slot 0, `_resident`), the
packed block, the buffer pool, the prefill gate and the runner's request table.

What makes each part correct: the emitted stream is the target's own greedy stream; the
five frontiers of a request agree whenever it is between steps; no token is exposed before
every state that must contain it was published; a sequential verify always replays from the
state of its own request; one request's end never disturbs another; a failed request never
emits again; every request is eventually released.

The device protocols are separate: the host factory groups cores that share a list of units, a
page-table row or a head, and from then on the cores of a group talk to each other only. What
makes them correct: every core computes on the bytes of the chunk it believes it has, nobody
waits for ever, and a semaphore is left as the next program expects it.

## Modules

| Module | Models | Composed with |
|---|---|---|
| `RequestTransaction` | one request through its decode rounds | `GreedyDecode` (abstract specification) |
| `GreedyDecode` | what a client may see: the target's greedy stream, block by block | - |
| `RecurrentState` | all requests of the worker around the one recurrent working row, the carries and the packed block | `PrivateState` (abstract specification) |
| `PrivateState` | every decoding request has a state of its own | - |
| `ServingEngine` | the engine loop: scheduler passes with their grafts, lifecycle, hook, quarantine, clients | - |
| `RoundFences` | consecutive packed rounds between host and command queue: commits, fences, staged inputs, early drafts | - |
| `PrefixCache` | prefix reuse between vLLM's blocks, the checkpoint registry and the model's prefill loop | - |
| `KvChain` | the cores of one prefill chain, their compute kernels and the network between them | - |
| `KvShare` | a leader and its twins in the decode attention, their compute kernels and the network | - |
| `TreePlan`, `TreeReduce` | the host's plan of the reduction tree and the shares of the cores; the kernels that run it | `TreeReduce` extends `TreePlan` |
| `RequestTransactionProofs`, `RecurrentStateProofs`, `KvChainProofs`, `KvShareProofs`, `ServingEngineProofs`, `RoundFencesProofs`, `PrefixCacheProofs`, `TreeReduceProofs` | the proofs | the modules above |
| `MC...` | instances for TLC | the modules above |

`RequestTransaction` is one request in depth; `RecurrentState` and `RoundFences` are several requests
around what they share on the device; `ServingEngine` is who is scheduled, admitted and
released at all. They meet at the same calls: a step of `ServingEngine` (`ExecuteDecode`) is a round
of `RecurrentState`, and each entry of that round is a step of `RequestTransaction`. They are
not composed into one specification, whose states TLC could not enumerate.

### RequestTransaction

The state of every object of a request is one variable: `session` is `GreedySession`,
`runtime` is `DFlashRequestRuntime`, `engine` is `VerifierEngine` (with the tokens its
recurrent state has consumed), `drafter` is the published history of `DFlashDevice`,
`request` is `FastRequest`, `bridge` is `FastRunnerBridge.failed` and
`VerifierPageBinding.failed`, `runner` is vLLM's request state, and `frame` holds the locals
of the step in progress. `target` is the stream the target model would emit alone. It is
chosen once in `Init` among all streams, so each property is checked against every target.

A step of the code that calls a device or another object is one action, and a call that
raises is an action of its own: `DraftFromLookup`, `DraftFromNeural`, `DraftFails` (propose);
`DiscardStaleTicket`, `Narrow` (what the packed hook does to a ticket made earlier);
`RefreshFails`, `CancelBeforeVerify`, `Verify`, `VerifyFails`, `AdoptPacked`,
`PackedVerifyFails`; `BeginCommit`, `BeginAbort` (`GreedySession.commit` and `abort` up to the
publication callback); `PublishTarget`, `CommitHistory`, `PublicationFails` (the callback);
`CompleteCommit`, `CompleteCancel`, `CompleteRefusal`; `Deliver` (`apply_committed_output`);
`PartnerFails` (another entry of the same packed step raised); `Close`.

A token is a model value, what a drafter proposes is arbitrary, and the verifier's
predictions are those of the target after the tokens it was given.

### RecurrentState

A recurrent state is a request's prompt advanced by a number of rows, or `NoState`: zeros, a
partial prompt or speculative rows. `native` is the model's rows (row 0 is the working row
all traces run through), `carry` one saved state per pool slot, `resident` the module global
`verifier_engine._resident`, `engine` the engine on each slot, `block` the packed block with
its undecided segments and deferred commits, `round` the decode step on the stack, `prefill`
the request in its prefill. Steps of different requests follow one another in any order.
`PrefillBegins`, `PrefillContinues`, `PrefillFails`, `PrefillAborted`, `EndsAtSeed`,
`SampleFails`, `BuildEngine`, `RebindEngine`, `AdoptionFails` and `BindFails` are the life of a
request up to its first decode; `BeginSequential`, `Verify`, `Publish`, `StepAnswered`,
`StepFails` the sequential step; `PackedVerify`, `PackedVerifyFails`, `AdoptPacked`,
`PublishPacked`, `FailRound`, `StepReturns`, `FlushCommits`, `FlushFails` the packed one;
`ParkEngine`, `CloseEngine`, `Repark`, `ReparkFails`, `Shutdown` the release.

`packed_step.refuse_round` answers without raising and leaves the recurrent state as
`BeginSequential` followed by `StepAnswered` does, so it has no action of its own. A packed
round clears `_resident` several times over; the model clears it wherever the code does.

### KvChain

A chunk is the number of its round. Per core: `pc` and `round` (where the reader stands),
`kslot` and `vslot` (what the circular buffers hold), `kpushed`...`qpopped` (what the reader
pushed and the compute kernel popped), `credit` (sender semaphore) and `flag` (receiver
semaphore is VALID). `credits` and `writes` are the messages of a core in flight. The reader
is `Reserve`, `CreditPrev`, `ReceiveK`, `PushQ`, `ReceiveV`, `Forward`, `Relay`, `Exit`; the
injector's own reads are `InjectK` and `InjectV`; the compute kernel is `PopK` and `PopV`
(from its model in `pf_protocol_model.py`); `CreditLands`, `DataLands` and `FlagLands` deliver
in any order. Data that lands is read from the source slot at that moment, so a sender that
reuses a slot too early corrupts what it sent. `TestHang` is flag 0x200 of the kernel.

### ServingEngine

One engine step is `schedule`, `execute_model`, `sample_tokens`, `update_from_output`; `phase` says
which comes next, and clients act only `"between"` steps. `waiting`, `running`, `prefilled`, `rounds` and
`finishedIds` are the scheduler's, `streak` and `credit` the alternation graft's, `worker` is
`FastServingLifecycle` with its hook, `open` the bridges built and not closed, `pending` the
quarantine. `Hidden`, `DramHold`, `Fresh`, `PassDiscarded`, `Carried` and `YieldsDecode` are the conditions of
the scheduler's passes; `ScheduleDecode`, `SchedulePrefill` and `ScheduleFallback` the passes. `Settle`
is what the start of `execute_model` does with the finished ids; `Route` is its dispatch, and
`ExecuteAdmission`, `ContinuePrefill`, `ExecuteDecode`, `RefuseRound`, `ExecuteOriginal`, `ExecuteRefused` the
branches; `ExecuteFails` and `DetachFails` are the exceptions. `SampleMidPrompt`, `SampleEnds`,
`SampleQuarantined`, `SampleBridged`, `SamplerFails`, `BridgeFails` are `sample_tokens`; `Update` is
`update_from_output` with the abort of the quarantined; `CloseLifecycle` and `CloseRaises` the
end of `attach_runtime`. `dropped` is a history variable: requests whose end no step ever
named to the worker. The same ids could be lost for a head of the queue blocked by K/V
pressure, which the model leaves out, as it does preemption; the plugin's sampler always defers
the token of a mid-prompt chunk, so no other sampler is modelled.

### RoundFences

The host is one thread (`pc`), the device takes commit traces from `queue` in order and at any
time (`DeviceRuns`). `blk` is `PackedVerifierEngine`, `ret` its `RetainedGDNBlock`, `carry` and `recs`
what the device holds, `snap` and `buf` the pre-staged inputs and the buffers they were
written to, `draft` the early drafts with their key, `handed` what vLLM was given. A decode step
is `DecodeStep`, then `SequentialUser` or `VerifyStages`/`StagingFails`, `Replay`, `CommitUser`/`CommitFails`,
then the drafts: `Draft`, `DraftFails`, `DraftRefused`, `Window`/`WindowFails` (fence token and pre-stage),
`Fence`, `ReadBack`/`ReadBackFails`, `Drafted`, `EarlyEnds`/`EarlyEndFails`, and `Take`. `StepBegins`, `PrefillStep`,
`BookkeepingStep`, `Abort` and `Detach` are what comes between two rounds. The epoch of
`verify_prestage` is kept as "nothing has bumped it since the snapshot", and the commit serial as
current or stale. A fence drains the queue in one step. The verify's token inputs are never
pre-staged and are left out; a prefill may or may not overwrite the staged buffers.
A replay the code refuses would be a round that cannot run: `RoundCanRun` says there is none.

### PrefixCache

One unit of length is one K/V block, and a hash is the prefix it stands for. `cached`, `kv` and `table`
are vLLM's blocks, with who wrote what each holds; `entries` and `ckpt` the registry; `staged`,
`committed` and `sameStep` the grants and publications of a step; `row`, `scratch` and `slot` the
model. `BeginStep`, `Trim`, `Discard`, `Admit`, `Decode`, `Preempt`, `Commit` are one `schedule()` with the graft's wrappers;
`StartRow`, `RunChunk`, `RunTail`, `EndStep` the model's prefill; `FreeRequest`, `ResetPrefixCache` the rest.
`Coupled` is the hook on vLLM's eviction, `EnforceBudget` the store's, `CapLimit` what a request may
publish. Which free block vLLM takes is open, admissions may be attempted again in the same step and
after a preemption: the model allows more than vLLM does. Hashes do not collide, so the
registry's token comparison has one outcome.

### KvShare, TreePlan and TreeReduce

A NoC write is issued in one step and lands later, in any order, with the bytes its source holds
when it lands; only a barrier orders. In `KvShare` the leader is `ReadStart`, `ReadEnd`, `WaitReady`,
`ResetReady`, `Multicast`, `LeaderMask`, `WriteBarrier`, `SendValid`, `LeaderExit`, a twin `Reserve`, `ClearValid`,
`SignalReady`, `WaitValid`, `TwinMask`, `TwinExit`, the compute kernel `ComputeK`, `ComputeMask`, `ComputeV`. In
`TreePlan` the host's tree (`Parent`, `Child`) and the cores' shares (`ChunkStart`, `ChunkEnd`) are the
code's arithmetic. In `TreeReduce` a partial result is the set of cores it covers; the writer is `Poll`,
`GiveO`, `Give`, `Send`, `Announce`, `SenderReturns`, `WriteOutput`, the compute kernel `LocalAttention`, `TakeL`,
`TakeO`, `TakeM`, `MoveO`, `Move`. The circular buffer c_16, which carries results both ways, holds
one result at a time.

### Settings

Where a program is built or started in several ways, the setting is a variable that `Init` chooses
and no step changes: `build` of `KvShare` (read-ahead or stage 3), `profile` of `RoundFences` (the
`QWEN_FAST_*` flags), `load` of `PrefixCache` (server and workload), `cores` and `chunks` of `TreePlan`,
`target` of `RequestTransaction`. One run then covers them all.

## Runs

| Run | Instance | Distinct states | What it shows |
|---|---|---|---|
| `request` | 3 tokens, one of them EOS, streams of 5, tickets of up to 3 rows | 465,372 | the client's stream is the target's (`ImplementsGreedyDecode`), the frontiers agree, nothing is exposed before it is published, a request that failed, was cancelled or was closed stays silent (`DeadStaysDead`), and every request is released unless a partial page upload poisoned its engine |
| `poisoned_close` | 2 tokens, widths 1, 2 and 4 | 25,700 | the exception of the run above is real (see Findings) |
| `recurrent_deferred` | 2 slots, 3 requests, 2 rows, parked engines, deferred commits, padded rounds | 412,065 | no request ever decodes from a state that is not its own; `PrivateState` is implemented; a flush that raises ends the run of the model, so the half-written carries are followed in `rounds_deferred` |
| `serving_chunked` | 4 requests, prompts of up to 2 chunks, 3 seats, every fault | 305,466 | releases touch only their own, every chunk runs under its own capture, decoders get their turn, the engine dies only of a fault or of an end it never heard of; while no end was lost that way, bridges and decoding requests agree; a shutdown leaves nothing open, the sampler's own exception and a bridge that refuses its close excepted (two gaps of the code that `ShutdownComplete` states and does not rule out) |
| `serving_served` | 3 requests, unsplit prompts, DRAM for one engine | 7,033 | under a fair loop every accepted request is served to its end |
| `aborted_prefill` | 3 requests, prompts of up to 2 chunks | 68,057 | an aborted prompt can keep the gate (see Findings) |
| `rounds_deferred` | 2 users, 3 rounds, all flags off, or commits deferred (enqueued or blocking), up to 2 failures | 2,393,029 | the device reads only committed carries, also where a flush was half written, every replay is fenced, no round is refused, cached drafts are those of the sessions |
| `rounds_prestaged` | 2 users, 2 rounds, all flags on, page refreshes and prefills in between | 4,740,252 | a verify reads the inputs of its own round |
| `prefix_cache` | a conversation, siblings with an un-salted stranger, sticky sessions | 747,568 | a resumed prompt ends in the state of a cold one, the model accepts every row it is given, a grant keeps its checkpoint, a checkpoint keeps its K/V |
| `kv_chain` | 3 cores, 5 rounds in 3 units, 2 slots | 55,104 | chunks arrive intact, nobody hangs, semaphores are left clean |
| `kv_share` | leader and 2 twins, 2 heads of 3 chunks, both builds | 242,675 | the same for the share |
| `tree_reduce` | plans of up to 40 cores and 50 chunks; groups of up to 5 cores run | 21,668 | the rules of the cores agree; no result is sent before it is combined, the output covers all, every kernel returns |

Bounds. Five tokens and three rows let a request have rejected drafts, a fully accepted
block, an EOS inside a block, at its end and after a correction, and a budget that ends inside
a block, over at least two rounds. `MaxStale = 1` lets every ticket position be discarded or
narrowed once; a second discard starts from the state the first one leaves. Two slots are
what sharing needs, three requests make a slot be used twice, and two rows separate a
partial from a full acceptance. Requests are interchangeable, so `MCRecurrentState` uses
symmetry, as do `MCServingEngine` and `MCRoundFences` in their safety runs; the runs with liveness
use none. In `ServingEngine` four requests on three seats are a prompt in its prefill, a decoder that
ends, one that stays and one that waits; two chunks make a prompt straddle a step. In
`RoundFences` a trace deferred in round 1 is flushed before round 2, and what round 2 leaves is read by
round 3; the second user is the one whose commit, failure or release must not touch the first.
Its flushes of leftover commits at the start of a step and before a verify are safety nets that no
behaviour needs: nothing is ever deferred there (`DeferredInStep`).
Three turns, one checkpoint and six blocks make `PrefixCache` evict from both stores; the pinned
entry that `put` keeps over a new one is not reached with these budgets. Three cores of a chain are an injector, a core that receives
and forwards, and a sink; five rounds wrap the two slots twice, and units of one and two
rounds meet both values of every test on `First`. Two heads of three chunks use each slot of
`KvShare` again within a head and across heads; five cores in `TreeReduce` are two levels, an inner node
and an orphan of the root.

Deadlock is checked in the host models: `Over` and `Stopped` are the only states where nothing
is left to do, and the bounded models of rounds and prefix reuse stop only where their bound
says so. In the kernels' models the kernels end, so the configurations turn the check off;
`EverybodyEnds` is stronger. `ServingEngine` stops when all requests came and went, or when the
engine is dead or closed.

Fairness. `RequestTransaction`: vLLM's engine loop keeps scheduling a request that has work,
a step that began runs to its end or raises, and the lifecycle releases what ended: weak
fairness of the steps together, and of `Close`. Nothing is assumed of failures, cancellation,
discards or narrowing. `ServingEngine`: vLLM's loop runs while there is work: weak fairness of
the engine's steps together; clients, faults and the shutdown are free. The kernels: each
reader, writer and compute kernel has a processor of its own that spins in its waits, and the
network delivers what it accepted: weak fairness of each of them, and none between them. No strong fairness is used.

## Findings

`poisoned_close`: when `VerifierPageBinding.refresh` raises half way it marks the engine
failed while the session still holds a ticket. `FastRequest.close` fails a pending ticket only
on an idle engine, so it closes the engine, releases the drafter and then raises in
`session.close`. The request is never closed, and every later `close` raises again.

`aborted_prefill`: the prompt that holds the prefill gate is aborted between two chunks while one user
decodes and another prompt waits. The scheduler's prefill pass takes the finished ids, schedules
nothing because the gate hides the queue, and is discarded for a decode pass that names nobody.
`carry_finished` puts such ids back only after a DRAM hold. The lifecycle never hears of the abort, the
gate keeps naming a request that is gone and nobody is admitted again. With unsplit prompts the
gate is never held between steps, and `serving_served` shows that everyone is served.

## Proofs

The theorems hold for every value of the constants that satisfies the named assumptions of
the modules, which only say that sizes are positive numbers and that the null values are not
elements of the sets they stand beside.

`RequestTransactionProofs`: `TypeCorrect`, `FrontiersMeet`, `ConsumedIsTheStream`,
`PublicationFirst`, `TicketsAreFresh`, `TheDeadStayDead` and the refinement `ImplementsGreedy`. The
types are not inductive on their own: a commit indexes the predictions by the length of the ticket and
names the next seed. `Shape` adds what is needed: a seed exists until the stream ends, a verified
block has a prediction per row and a cap within it, and the decided prefix lies within the ticket.
The rest rests on `IInv`, which says where everybody stands at every point of a round.
`PhasesAgree` is the program counter: which phases session, draft runtime, engine and bridge can be in
together. `StreamOnTarget`, `TicketAtFrontier`, `PredictionsOnTarget` and `DecisionOnTarget` follow the tokens from
the target's answers through the decision into the stream; `EngineAtFrontier` and `DrafterAtFrontier`
place the two device frontiers before or a decided prefix behind the session's; `RunnerOnTarget`
and `PublishedWhatIsDue` say that what is shown, with what the step hands over next, is the
stream and is behind every publication. A request cancelled together with its verify is back in the phases of an
idle one, so `TheDeadStayDead` needs `DeadIsQuiet` besides: no step of a cancelled or released request is
under way or holds tokens for the runner. That each block shown is the next part of the greedy stream is the
step simulation of `ImplementsGreedy`, for any drafter and any acceptance.

`RecurrentStateProofs`: `TypeCorrect`, `VerifySound`, `ResidencySound`, `CarriesCurrent`,
`DeferralsFlushed`, `SegmentsDecided`. The three statements about states need each other (a
restore is skipped because residency is right; the carry is right because the verify ran from
the right state; residency is right because every writer of the working row displaces it) and
five supporting facts: the prefilled state is in place when a seed is due (`SeedInPlace`), a
live engine has a request (`ServesARequest`), a round's entries are live and at most one of
them is verified at a time (`RoundServesLive`), the undecided segments of the block are the
entries still to be served, verified from their own state (`SegmentsInRound`), and commits
are deferred only inside a packed round and its drafts (`DeferralsInRound`). The refinement
`StatesArePrivate` follows with one fact more: no two engines serve one request, and the prompt in its prefill
is nobody's yet (`RequestsDistinct`). A state is mapped to what the next step of its request
would read, wherever that is (working row, carry, or a carry with a deferred commit pending);
each action then changes the mapped state of at most one request, by that request's own tokens.

`KvChainProofs`: `TypeCorrect`, `SlotsSound`, `LandsReserved`, `CreditNeverDoubled`,
`ExitClean`, `NeverStuck`, for chains of every length, buffers of every size and every list of units. The
argument is conservation on each link (`Link`): every round the receiver asked for is taken
by the sender or is a credit in the network or in the semaphore; every round the sender
relayed is pushed by the receiver or is a flag in flight or up. A receiver asks for at most
one round more than it pushed, so at most one of these can be outstanding, and its place tells
where both ends stand: `CreditOut`, `Forwarding` and `Announced` are those consequences.
`Buffers` ties the counters to the reader's place and says that a reserved slot is free;
`Contents` says where the chunk of a round is while it travels. Two rounds less than a buffer
apart use different slots (`SlotsDiffer`), so a landing or an injected chunk overwrites
nothing that is still to be popped. Steps of one core are checked on that core and its two
links (`Local`), landings on one link (`OnLink`). For `NeverStuck`, `UnitsInTurn` counts the units the
reader has pushed and the compute kernel has released, so that a kernel with nothing to do leaves room
(`ReaderGoesOn`); then a core that waits for a credit waits for one that does, and a core that waits for VALID is
fed by one that waits (`WaitingPasses`), while the sink waits for no credit and the injector for no VALID.

`KvShareProofs`: `TypeCorrect`, `SlotsAreHeld`, `ExitIsClean`, `NeverStuck`, for any number of twins, heads and
chunks and both builds. Every twin is level with the announced chunk or exactly one behind
(`ValidInStep`), and it is behind exactly while a VALID is on its way or set for it. The READY
semaphore counts the twins that ask, less the increments in flight (`ReadyCounts`); once the leader has
seen all of them, they wait for the chunk it multicasts (`Opened`), so whatever is in flight
belongs to that chunk (`FlightsInRound`) and the barrier before VALID makes it complete. `LeaderHolds`
and `TwinHolds` then say what each slot holds while it is pushed and not popped, with the slots
that fill or wait excepted; `MasksInOrder` does the same for the single mask buffer. At the exit the
same counts leave nothing outstanding, and elsewhere nobody waits for good: with everything landed, twins that
wait lack no announced chunk, so the leader has counted all of them (`TwinWaits`, `LeaderWaits`).

`ServingEngineProofs`: `TypeCorrect`, `NeverRefuses`, `BridgesAreDecodes`, `CaptureIsLevel`, `CloseIsComplete`,
`ReleasesOnlyItsOwn`, `DecodersAreServed`, for any number of requests, seats, chunks and rounds. Scheduler and
worker agree because what one has ended and the other has not heard of is always in `Ending`:
finished ids to be told, those in the step, and those a discarded pass dropped. `BridgesServe`
bounds the hook's bridges from both sides by the running requests and `Ending`; `GateHeld` does so
for the prompt in the gate and levels its capture with the scheduler's count; `StepSound` says
that a step is an admission, a chunk or a decode of exactly those; `SeedSound` says what sampling may
find. `WorkerSound` is the agreement of lifecycle and hook (`SettleSound` proves that the releases keep it,
in every branch). `Without`, which drops the finished from a queue, is a recursive function of the model,
and what it returns is proved by a least counterexample (`WithoutIs`, `WithoutProperties`).

`RoundFencesProofs`: `TypeCorrect`, `CarriesAreCommitted`, `ReplaysAreFenced`, `RoundsAreServed`,
`InputsAreCurrent`, `DraftsHold`, `OneCommitInFlight`, for any number of users, rows and rounds and all
flags. `CarriesFollow` says where the committed rows of a served user are: in its carry, or, on top of what
the last verify read, in a trace that is due, enqueued or deferred. That survives the device
running a trace at any time, because a trace writes from the records, not from the carry; a replay
replaces the records, and must find nothing due. `FencedIsRun` and `DeferredInStep` give that: a
block that is ready has an empty queue, and a commit stays deferred no longer than the drafts of its step.
`DecisionsInRound` is the debt of fences (between rounds a block has every decision and is ready or
owed its fence), `BlockInRound` confines a failed block to the failures that caused it, `RoundServesLive` keeps failed
bridges out of rounds, `StagedAsNoted` says that a usable snapshot tells what the buffers hold, and
`DraftsKept` that the cached drafts still have their key. `RunAll` picks the last trace of a user,
which exists by a least-element argument (`RunAllWrites`).

`PrefixCacheProofs`: `TypeCorrect`, `RowsAlwaysAccepted`, `GrantedStay`, `StoredKv`, `ExactResume`, for every workload
that `PrefixAssumption` and `NoneAssumption` allow: any number of requests, blocks and checkpoints, any
texts, chunk size and setting of the flags. The inductive invariant `Invariant` has two halves. The first is
about blocks: one that a prompt has yet to write is in nobody else's table (`PendingOwned`); any other
cached block holds its hash's K/V, written by a whole chunk (`CachedSound`). That the cap publishes whole
chunks of prompts only is what makes the second true, as a tail or a decode kernel then never
writes a published block. An admitted request's hit stays cached because it holds the blocks (`HitsCached`),
and a row's scratch is the state of what it has run (`RowSound`). The second half is about the store: pins
count grants (`CheckpointsSound`), a grant names the checkpoint of the very prefix its request starts at
(`GrantsSound`, `StartsGranted`), and stays stored until it is given back (`GrantsStored`), as the request
holds the block whose eviction would drop it. `StoreFits` bounds the store by the budget unless all it holds is
granted; so there is always a number for a new checkpoint. An eviction's helpers `InOrder` and `Without` are
not recursive, and what they return is proved by ranks (`Ranked`, `InOrderLists`, `WithoutDrops`).
That no block is listed twice rests on `ListedOnce`; for a request's own table it follows, as a written block
tells by its contents which place it has, and one yet to be written has one owner.

`TreeReduceProofs`: `TypeCorrect`, `PlansAgree`, `SentCombined`, `OutputCovers`, `NeverStuck`, for groups of up to 64
cores (six rounds), any length of the cache and any number of running cores. The plan comes first. For the
shares, `DealtShares` puts the even and the uneven deal into one sum and a least counterexample shows that
consecutive shares meet (`SharesCover`); the rule core < chunks is then the same as having a share
(`DataRule`). For the tree, a core whose number ends in t ones is one carry away from its parent
(`OneMore`, `NaturalParent`), and two orphans of one round would be closer than the period of that pattern
allows (`Periods`, `OrphanAlone`), so `ParentAwaits` and `ChildSends` are inverse to each other. The
kernels' invariant `Inv` then needs no arithmetic. Writer and compute kernel of a core are at the same
child (`Level`) or the writer is ahead by one child and at most the next L and M (`Ahead`);
`BuffersHold` derives from the two places what every buffer holds, the shared `c_16` among them;
`SentLands` and `AnnouncedSent` follow a sent result over the network into the parent's block, before its
nibble. `CoversClosed` says that a result covers only cores that have ended, with all they cover. With the
least core that the output misses, whose parent it covers, the coverage follows. `NeverStuck` takes the last
core that waits: its own two kernels do not block each other (`WaitsForChild`), so it waits for a child, which
comes after it and has therefore ended, and has told it so (`ParentTold`).

The proofs hold for both values of `TestHang` (flag 0x200 of the chain kernel), `GdnAfterPairs` and
`ParkedEngines`, which the runs fix at one value each. Each inductive invariant was first checked by
TLC on the instances above.

The three `NeverStuck` theorems are the safety half of `EverybodyEnds`: in every reachable state all have ended
or somebody can go on. As ENABLED is beyond the prover, they restate the guards of the actions; TLC found the
restated guards to hold exactly where `Next` is enabled, on the states of the instances above (of groups of up to
five cores and chunks for the tree, and with one-chunk buffers as well for the chain).

Only model-checked: liveness (`EventuallyReleased`, `EverybodyEnds`, `EveryoneServed`), which is
beyond the prover: that whoever can go on does, and that the going on comes to an end.

## Not modelled

Numerics, DRAM arithmetic, trace capture, address validation, the page arithmetic and every
log, gate and benchmark: none of them decides who may act. Most of the repository is of this
kind: kernels of single cores, probes, rig gates and patches that put numerics into an image.
The host's grouping of cores into chains and bundles is assumed. In the packed round:
`packed_device_rounds` over several blocks, the width policy, the padded KV guards, the fused
commit, four users as two blocks, and the audit of a staged round. In `ServingEngine`: preemption
and K/V pressure. In the prefix cache: counters, the restore warm-up, the audit, and binding and
statistics. In the decode attention: sliding windows, the values of masks and the output layout.
Of the simulators, the hanging writer that `split_model.py` plants. Runtime attachment is
straight-line construction.

## Plan

1. Several packed blocks in `RoundFences`, and preemption in `ServingEngine`.
