---------------------------- MODULE RequestTransaction ----------------------------
(***************************************************************************)
(* One speculative-decoding request as the worker drives it: the host      *)
(* session (greedy_session.GreedySession), the draft runtime               *)
(* (dflash_request_runtime.DFlashRequestRuntime) with its drafter          *)
(* (dflash_device.DFlashDevice), the captured target verifier              *)
(* (verifier_engine.VerifierEngine), the serving driver                    *)
(* (serving_fast_request.FastRequest) and the vLLM runner's bookkeeping    *)
(* (serving_runner_bridge, serving_vllm_state).                            *)
(*                                                                         *)
(* A decode round drafts a ticket, verifies it on the target, decides the  *)
(* accepted prefix and publishes it in three places, one after another:    *)
(* the target's recurrent state, the drafter's history and the session.    *)
(* Any of these steps may raise; the phases of the components are the      *)
(* program counter of the round, so every exception path is an action.     *)
(***************************************************************************)
EXTENDS Integers, Sequences

CONSTANTS
    Token,      \* the target vocabulary
    Eos,        \* eos_ids
    NoToken,    \* session.seed after the stream ended (None)
    Prompt,     \* length of the prefilled prompt
    MaxNew,     \* max_new_tokens of the session
    Widths,     \* the verifier buckets (1, 2, 4, 8, 16, 32)
    Captured,   \* the widths this request's engine captured
    BlockRows,  \* rows per user of the packed verify block
    MaxDrafts,  \* the neural drafter's proposal count
    MaxStale    \* bound: how often a ticket is discarded or narrowed

ASSUME TokenAssumption == Eos \subseteq Token /\ NoToken \notin Token
ASSUME BudgetAssumption == Prompt \in Nat \ {0} /\ MaxNew \in Nat /\ MaxNew > 1
ASSUME WidthAssumption ==
    /\ Widths \subseteq Nat \ {0} /\ Captured \subseteq Widths
    /\ 1 \in Captured /\ BlockRows \in Widths
ASSUME BoundAssumption == MaxDrafts \in Nat \ {0} /\ MaxStale \in Nat

VARIABLES
    target,   \* the stream the target model emits alone, greedily (never changes)
    session,  \* GreedySession: phase, epoch, position, seed, emitted, finished, pending
    runtime,  \* DFlashRequestRuntime: phase, position
    engine,   \* VerifierEngine: phase, position, pending, and what its state consumed
    drafter,  \* DFlashDevice: position and the prefix of the prepared publication
    request,  \* FastRequest: busy, cancelled, closed
    bridge,   \* FastRunnerBridge.failed and VerifierPageBinding.failed
    runner,   \* the runner's request state: output_token_ids, num_computed_tokens
    frame,    \* the step in progress: target predictions, commit cap, decision, output
    stale     \* how often a ticket was discarded or narrowed so far

vars == <<target, session, runtime, engine, drafter, request, bridge, runner, frame, stale>>

Streams == [1..MaxNew -> Token]
NoTicket == [epoch |-> 0, position |-> 0, tokens |-> <<>>]
NoDecision == [kind |-> "none", prefix |-> 0, emitted |-> <<>>, next |-> NoToken, finished |-> FALSE]
NoOutput == [kind |-> "none", tokens |-> <<>>, position |-> 0]
NoFrame == [predictions |-> <<>>, cap |-> 0, decision |-> NoDecision, output |-> NoOutput]

Min2(a, b) == IF a <= b THEN a ELSE b
Remaining == MaxNew - Len(session.emitted)

(***************************************************************************)
(* The prefilled request: the seed is already emitted, every component     *)
(* stands at the end of the prompt.  A request whose seed ends the stream  *)
(* never gets an engine, so it is not a state of this module.              *)
(***************************************************************************)
Init ==
    /\ target \in {s \in Streams : s[1] \notin Eos}
    /\ session = [phase |-> "idle", epoch |-> 0, position |-> Prompt, seed |-> target[1],
                  emitted |-> <<target[1]>>, finished |-> FALSE, pending |-> NoTicket]
    /\ runtime = [phase |-> "idle", position |-> Prompt]
    /\ engine = [phase |-> "idle", position |-> Prompt, pending |-> NoTicket, consumed |-> <<>>]
    /\ drafter = [position |-> Prompt, pending |-> 0]
    /\ request = [busy |-> FALSE, cancelled |-> FALSE, closed |-> FALSE]
    /\ bridge = [failed |-> FALSE, poisoned |-> FALSE]
    /\ runner = [output |-> <<target[1]>>, computed |-> Prompt]
    /\ frame = NoFrame
    /\ stale = 0

-----------------------------------------------------------------------------
(* Drafting *)

\* The widest element of a set of widths that holds no more than n rows.
Widest(W, n, w) == w \in W /\ w <= n /\ \A v \in W : v <= n => v <= w

\* VerifierEngine.proposal_rows: the packed width while the budget holds it,
\* otherwise the engine's own widest capture.
ProposalRows(rows) ==
    \/ rows = BlockRows /\ Remaining >= BlockRows
    \/ Widest(Captured, Remaining, rows)

\* The precondition of DFlashRequestRuntime.__call__.
NeuralReady ==
    /\ runtime.phase = "idle" /\ runtime.position = session.position
    /\ drafter.position = runtime.position
    /\ session.emitted[Len(session.emitted)] = session.seed

\* No step of this request is on the stack, and the runner has taken the last output.
Settled == ~request.busy /\ frame.output = NoOutput

\* Mutant: a request cancelled after its verify still drafts.
MayDraftAfterCancel ==
    /\ Settled /\ ~bridge.failed /\ ~request.closed
    /\ ~session.finished /\ session.phase = "idle" /\ session.pending = NoTicket
    /\ engine.phase = "idle"

\* The liveness checks of FastRunnerBridge.drafts and FastRequest.prepare.
MayDraft ==
    /\ Settled /\ ~bridge.failed /\ ~request.closed /\ ~request.cancelled
    /\ ~session.finished /\ session.phase = "idle" /\ session.pending = NoTicket
    /\ engine.phase = "idle"

\* GreedySession.propose once the drafter answered with these proposals.
Propose(limit, proposals) ==
    \E rows \in Widths :
        /\ Widest(Widths, Min2(limit, Len(proposals) + 1), rows)
        /\ session' = [session EXCEPT !.epoch = @ + 1, !.phase = "pending",
               !.pending = [epoch |-> session.epoch + 1, position |-> session.position,
                            tokens |-> <<session.seed>> \o SubSeq(proposals, 1, rows - 1)]]

\* HybridDraft.propose: a suffix-lookup hit of any length, or nothing.
DraftFromLookup ==
    /\ MayDraft
    /\ \E rows \in Widths : ProposalRows(rows) /\
         LET limit == Min2(rows, Remaining)
         IN \E n \in 0..(limit - 1) : \E proposals \in [1..n -> Token] : Propose(limit, proposals)
    /\ UNCHANGED <<target, runtime, engine, drafter, request, bridge, runner, frame, stale>>

\* HybridDraft.propose routed to the neural adapter, which must return the full count.
DraftFromNeural ==
    /\ MayDraft /\ NeuralReady
    /\ \E rows \in Widths : ProposalRows(rows) /\
         LET limit == Min2(rows, Remaining)
             n == Min2(limit - 1, MaxDrafts)
         IN n >= 1 /\ \E proposals \in [1..n -> Token] : Propose(limit, proposals)
    /\ runtime' = [runtime EXCEPT !.phase = "proposed"]
    /\ UNCHANGED <<target, engine, drafter, request, bridge, runner, frame, stale>>

\* The adapter raised, or refused its precondition: the session is lost.
DraftFails ==
    /\ MayDraft /\ Remaining > 1
    /\ session' = [session EXCEPT !.phase = "failed"]
    /\ runtime' = IF NeuralReady THEN [runtime EXCEPT !.phase = "failed"] ELSE runtime
    /\ UNCHANGED <<target, engine, drafter, request, bridge, runner, frame, stale>>

\* prepared_ticket: a live ticket nothing has verified yet.
Prepared ==
    /\ Settled /\ ~request.closed /\ ~request.cancelled /\ ~bridge.failed
    /\ session.phase = "pending" /\ session.pending # NoTicket
    /\ session.pending.position = session.position
    /\ engine.phase = "idle"

\* Mutant: the runtime keeps the proposal of the dropped ticket.
DiscardStaleTicketOnly ==
    /\ Prepared /\ stale < MaxStale /\ stale' = stale + 1
    /\ session' = [session EXCEPT !.pending = NoTicket, !.phase = "idle"]
    /\ UNCHANGED <<target, runtime, engine, drafter, request, bridge, runner, frame>>

\* discard_stale_ticket: the next round has another width, the ticket is dropped.
DiscardStaleTicket ==
    /\ Prepared /\ stale < MaxStale /\ stale' = stale + 1
    /\ runtime.phase \in {"idle", "proposed"}
    /\ runtime' = [runtime EXCEPT !.phase = "idle"]
    /\ session' = [session EXCEPT !.pending = NoTicket, !.phase = "idle"]
    /\ UNCHANGED <<target, engine, drafter, request, bridge, runner, frame>>

\* Mutant: the narrowed ticket keeps the epoch of the one it replaces.
NarrowSameEpoch ==
    /\ Prepared /\ stale < MaxStale /\ stale' = stale + 1
    /\ Len(session.pending.tokens) \notin Captured
    /\ \E rows \in Captured :
         /\ Widest(Captured, Len(session.pending.tokens), rows)
         /\ session' = [session EXCEPT !.pending.tokens = SubSeq(@, 1, rows)]
    /\ UNCHANGED <<target, runtime, engine, drafter, request, bridge, runner, frame>>

\* narrow_round and GreedySession.narrow: the block will not serve this ticket and
\* the engine never captured its width, so it is cut to the widest captured one.
Narrow ==
    /\ Prepared /\ stale < MaxStale /\ stale' = stale + 1
    /\ Len(session.pending.tokens) \notin Captured
    /\ \E rows \in Captured :
         /\ Widest(Captured, Len(session.pending.tokens), rows)
         /\ session' = [session EXCEPT !.epoch = @ + 1,
                !.pending = [epoch |-> session.epoch + 1, position |-> session.pending.position,
                             tokens |-> SubSeq(session.pending.tokens, 1, rows)]]
    /\ UNCHANGED <<target, runtime, engine, drafter, request, bridge, runner, frame>>

-----------------------------------------------------------------------------
(* Verification *)

\* validate_runner_reservation: the runner stands exactly at the ticket's frontier.
Reserved ==
    /\ Prompt + Len(runner.output) = session.pending.position + 1
    /\ runner.computed = session.pending.position

\* Row i of the block predicts the successor of the seed and the first i - 1
\* proposals: the target's own next token while these follow its stream, and
\* any token once one of them left it.
Predicts(predictions, tokens) ==
    LET base == Len(session.emitted)
        OnStream(i) == \A j \in 2..i : base + j - 1 <= MaxNew /\ tokens[j] = target[base + j - 1]
    IN \A i \in 1..Len(tokens) :
          (base + i <= MaxNew /\ OnStream(i)) => predictions[i] = target[base + i]

\* VerifierPageBinding.refresh raised: the table is partly written, the engine is lost.
RefreshFails ==
    /\ Prepared /\ Reserved
    /\ engine' = [engine EXCEPT !.phase = "failed"]
    /\ bridge' = [failed |-> TRUE, poisoned |-> TRUE]
    /\ UNCHANGED <<target, session, runtime, drafter, request, runner, frame, stale>>

\* FastRequest.step sees the cancellation before it touches the device.
CancelBeforeVerify ==
    /\ Prepared /\ Reserved
    /\ session' = [session EXCEPT !.phase = "failed"]
    /\ request' = [request EXCEPT !.cancelled = TRUE]
    /\ frame' = [frame EXCEPT !.output =
           [kind |-> "cancelled", tokens |-> <<>>, position |-> session.position]]
    /\ UNCHANGED <<target, runtime, engine, drafter, bridge, runner, stale>>

EngineAtTicket == engine.pending = NoTicket /\ session.pending.position = engine.position

\* The target verified the ticket: the predictions are on the host, nothing is published.
Verified(cap) ==
    /\ \E predictions \in [1..Len(session.pending.tokens) -> Token] :
         /\ Predicts(predictions, session.pending.tokens)
         /\ frame' = [frame EXCEPT !.predictions = predictions, !.cap = cap]
    /\ engine' = [engine EXCEPT !.phase = "verified", !.pending = session.pending]
    /\ request' = [request EXCEPT !.busy = TRUE]
    /\ UNCHANGED <<target, session, runtime, drafter, bridge, runner, stale>>

\* VerifierEngine.verify replays the capture of the ticket's width.
Verify ==
    /\ Prepared /\ Reserved /\ EngineAtTicket
    /\ Len(session.pending.tokens) \in Captured
    /\ Verified(Len(session.pending.tokens))

\* Mutant: the exception handler leaves the engine in its intermediate phase.
VerifyFailsVerifying ==
    /\ Prepared /\ Reserved /\ EngineAtTicket
    /\ Len(session.pending.tokens) \in Captured
    /\ engine' = [engine EXCEPT !.phase = "verifying", !.pending = session.pending]
    /\ session' = [session EXCEPT !.phase = "failed"]
    /\ bridge' = [bridge EXCEPT !.failed = TRUE]
    /\ UNCHANGED <<target, runtime, drafter, request, runner, frame, stale>>

\* VerifierEngine.verify raised after it took the ticket.
VerifyFails ==
    /\ Prepared /\ Reserved /\ EngineAtTicket
    /\ Len(session.pending.tokens) \in Captured
    /\ engine' = [engine EXCEPT !.phase = "failed", !.pending = session.pending]
    /\ session' = [session EXCEPT !.phase = "failed"]
    /\ bridge' = [bridge EXCEPT !.failed = TRUE]
    /\ UNCHANGED <<target, runtime, drafter, request, runner, frame, stale>>

\* run_verified_block and adopt_packed: the packed block verified the ticket in this
\* request's segment; its accept limit may keep only the first rows.
AdoptPacked ==
    /\ Prepared /\ Reserved /\ EngineAtTicket
    /\ Len(session.pending.tokens) = BlockRows
    /\ \E cap \in 1..BlockRows : Verified(cap)

\* block.verify raised: fail_round fails the verification, the engine is untouched.
PackedVerifyFails ==
    /\ Prepared /\ Reserved
    /\ Len(session.pending.tokens) = BlockRows
    /\ session' = [session EXCEPT !.phase = "failed"]
    /\ bridge' = [bridge EXCEPT !.failed = TRUE]
    /\ UNCHANGED <<target, runtime, engine, drafter, request, runner, frame, stale>>

-----------------------------------------------------------------------------
(* Decision and publication *)

\* Mutant: the loop does not stop at an accepted EOS.
AcceptedPrefixPastEos(proposals, predictions, accepted) ==
    /\ \A i \in 1..accepted : proposals[i] = predictions[i]
    /\ \/ accepted = Len(proposals)
       \/ accepted < Len(proposals) /\ proposals[accepted + 1] # predictions[accepted + 1]

\* The loop of select_prefix stops after `accepted` proposals: all of them match, no
\* accepted one before the last is an EOS, and the loop could not go on.
AcceptedPrefix(proposals, predictions, accepted) ==
    /\ \A i \in 1..accepted : proposals[i] = predictions[i]
    /\ \A i \in 1..(accepted - 1) : proposals[i] \notin Eos
    /\ \/ accepted = Len(proposals)
       \/ accepted > 0 /\ proposals[accepted] \in Eos
       \/ accepted < Len(proposals) /\ proposals[accepted + 1] # predictions[accepted + 1]

\* select_prefix: an accepted EOS ends the stream, anything else is followed by the
\* target's correction.
SelectPrefix(proposals, predictions, accepted) ==
    IF accepted > 0 /\ proposals[accepted] \in Eos
    THEN [kind |-> "commit", prefix |-> accepted, emitted |-> SubSeq(proposals, 1, accepted),
          next |-> NoToken, finished |-> TRUE]
    ELSE LET correction == predictions[accepted + 1]
         IN [kind |-> "commit", prefix |-> accepted + 1,
             emitted |-> SubSeq(proposals, 1, accepted) \o <<correction>>,
             next |-> IF correction \in Eos THEN NoToken ELSE correction,
             finished |-> correction \in Eos]

AwaitingDecision == request.busy /\ session.phase = "pending" /\ engine.phase = "verified"

\* The preconditions of DFlashRequestRuntime.publish.
MayPublish ==
    /\ runtime.phase \in {"idle", "proposed"} /\ session.pending # NoTicket
    /\ engine.pending = session.pending /\ session.pending.position = runtime.position

\* GreedySession.commit up to DFlashRequestRuntime.publish's prepared history: the
\* drafter holds the publication of exactly the decided prefix.
BeginCommit ==
    /\ AwaitingDecision /\ MayPublish
    /\ drafter.pending = 0 /\ drafter.position = runtime.position
    /\ LET proposals == SubSeq(session.pending.tokens, 2, frame.cap)
       IN \E accepted \in 0..Len(proposals) :
            /\ AcceptedPrefix(proposals, frame.predictions, accepted)
            /\ LET decision == SelectPrefix(proposals, frame.predictions, accepted)
               IN /\ frame' = [NoFrame EXCEPT !.decision = decision]
                  /\ drafter' = [drafter EXCEPT !.pending = decision.prefix]
    /\ session' = [session EXCEPT !.phase = "committing"]
    /\ runtime' = [runtime EXCEPT !.phase = "committing"]
    /\ UNCHANGED <<target, engine, request, bridge, runner, stale>>

\* GreedySession.abort: entry state is restored by a publication of prefix 0, either
\* because the request was cancelled after the verify, or because the decision itself
\* was refused (predictions outside the vocabulary) and step() unwinds.
BeginAbort(kind) ==
    /\ AwaitingDecision /\ MayPublish
    /\ frame' = [NoFrame EXCEPT !.decision = [NoDecision EXCEPT !.kind = kind]]
    /\ session' = [session EXCEPT !.phase = "committing"]
    /\ runtime' = [runtime EXCEPT !.phase = "committing"]
    /\ UNCHANGED <<target, engine, drafter, request, bridge, runner, stale>>

Publishing == session.phase = "committing" /\ runtime.phase = "committing"

\* Mutant: the whole verified block stays in the recurrent state.
PublishTargetAllRows ==
    /\ Publishing /\ engine.phase = "verified"
    /\ engine' = [phase |-> "idle", position |-> engine.position + frame.decision.prefix,
                  pending |-> NoTicket, consumed |-> engine.consumed \o session.pending.tokens]
    /\ UNCHANGED <<target, session, runtime, drafter, request, bridge, runner, frame, stale>>

\* VerifierEngine.publish: the target state advances over the committed rows only.
PublishTarget ==
    /\ Publishing /\ engine.phase = "verified"
    /\ engine' = [phase |-> "idle", position |-> engine.position + frame.decision.prefix,
                  pending |-> NoTicket,
                  consumed |-> engine.consumed \o
                               SubSeq(session.pending.tokens, 1, frame.decision.prefix)]
    /\ UNCHANGED <<target, session, runtime, drafter, request, bridge, runner, frame, stale>>

\* Mutant: the draft history and the frontier commit without the target's publication.
CommitHistoryFirst ==
    /\ Publishing
    /\ drafter' = [position |-> drafter.position + drafter.pending, pending |-> 0]
    /\ runtime' = [phase |-> "idle", position |-> runtime.position + frame.decision.prefix]
    /\ UNCHANGED <<target, session, engine, request, bridge, runner, frame, stale>>

\* DFlashRequestRuntime.publish after the target: the drafter's history swaps in and
\* the runtime checks that both frontiers meet.
CommitHistory ==
    /\ Publishing /\ engine.phase = "idle"
    /\ drafter' = [position |-> drafter.position + drafter.pending, pending |-> 0]
    /\ drafter'.position = runtime.position + frame.decision.prefix
    /\ runtime' = [phase |-> "idle", position |-> runtime.position + frame.decision.prefix]
    /\ UNCHANGED <<target, session, engine, request, bridge, runner, frame, stale>>

\* Any exception inside publish: runtime and engine fail, the publication is dropped
\* (or had just been committed), and session, step and bridge fail on the way out.
PublicationFails ==
    /\ Publishing
    /\ runtime' = [runtime EXCEPT !.phase = "failed"]
    /\ engine' = [engine EXCEPT !.phase = "failed"]
    /\ \/ drafter' = [drafter EXCEPT !.pending = 0]
       \/ /\ engine.phase = "idle" /\ drafter.pending > 0
          /\ drafter' = [position |-> drafter.position + drafter.pending, pending |-> 0]
    /\ session' = [session EXCEPT !.phase = "failed"]
    /\ bridge' = [bridge EXCEPT !.failed = TRUE]
    /\ request' = [request EXCEPT !.busy = FALSE]
    /\ frame' = NoFrame
    /\ UNCHANGED <<target, runner, stale>>

\* The publication returned: the rest of GreedySession.commit and the step's output.
CompleteCommit ==
    /\ session.phase = "committing" /\ runtime.phase = "idle" /\ frame.decision.kind = "commit"
    /\ LET decision == frame.decision
           emitted == session.emitted \o decision.emitted
       IN /\ session' = [session EXCEPT !.position = @ + decision.prefix, !.seed = decision.next,
                 !.emitted = emitted, !.phase = "idle", !.pending = NoTicket,
                 !.finished = decision.finished \/ Len(emitted) = MaxNew]
          /\ frame' = [NoFrame EXCEPT !.output = [kind |-> "tokens", tokens |-> decision.emitted,
                 position |-> session.position + decision.prefix]]
    /\ request' = [request EXCEPT !.busy = FALSE]
    /\ UNCHANGED <<target, runtime, engine, drafter, bridge, runner, stale>>

\* A cancellation restored the entry state: the round leaves no trace.
CompleteCancel ==
    /\ session.phase = "committing" /\ runtime.phase = "idle" /\ frame.decision.kind = "cancel"
    /\ session' = [session EXCEPT !.phase = "idle", !.pending = NoTicket]
    /\ request' = [request EXCEPT !.busy = FALSE, !.cancelled = TRUE]
    /\ frame' = [NoFrame EXCEPT !.output =
           [kind |-> "cancelled", tokens |-> <<>>, position |-> session.position]]
    /\ UNCHANGED <<target, runtime, engine, drafter, bridge, runner, stale>>

\* The unwinding abort succeeded; step() still fails the session and re-raises.
CompleteRefusal ==
    /\ session.phase = "committing" /\ runtime.phase = "idle" /\ frame.decision.kind = "refuse"
    /\ session' = [session EXCEPT !.phase = "failed", !.pending = NoTicket]
    /\ request' = [request EXCEPT !.busy = FALSE]
    /\ bridge' = [bridge EXCEPT !.failed = TRUE]
    /\ frame' = NoFrame
    /\ UNCHANGED <<target, runtime, engine, drafter, runner, stale>>

\* The conditions of apply_committed_output on the runner's frontier.
Applicable ==
    /\ runner.computed = Prompt + Len(runner.output) - 1
    /\ frame.output.position = Prompt + Len(runner.output) + Len(frame.output.tokens) - 1

\* apply_committed_output: the runner appends the block and advances once.
Deliver ==
    /\ frame.output # NoOutput /\ ~request.busy /\ Applicable
    /\ runner' = [output |-> runner.output \o frame.output.tokens,
                  computed |-> frame.output.position]
    /\ frame' = [frame EXCEPT !.output = NoOutput]
    /\ UNCHANGED <<target, session, runtime, engine, drafter, request, bridge, stale>>

\* execute_packed_decode: a partner of the same step raised after this request had
\* committed.  Every bridge is failed and the committed block never reaches the runner.
PartnerFails ==
    /\ frame.output # NoOutput /\ ~request.busy
    /\ bridge' = [bridge EXCEPT !.failed = TRUE]
    /\ frame' = NoFrame
    /\ UNCHANGED <<target, session, runtime, engine, drafter, request, runner, stale>>

\* Mutant: a pending ticket is not failed before the session closes.
ClosePendingKept ==
    /\ Settled /\ ~request.closed /\ engine.phase \in {"idle", "failed"}
    /\ engine' = [engine EXCEPT !.phase = "closed", !.pending = NoTicket]
    /\ drafter' = [drafter EXCEPT !.pending = 0]
    /\ session' = IF session.phase \in {"idle", "failed"}
                  THEN [session EXCEPT !.phase = "closed", !.emitted = <<>>,
                                       !.seed = NoToken, !.pending = NoTicket]
                  ELSE session
    /\ request' = [request EXCEPT !.closed = session.phase \in {"idle", "failed"}]
    /\ UNCHANGED <<target, runtime, bridge, runner, frame, stale>>

\* FastRequest.close, between two steps: a pending ticket fails its verification, the
\* engine and the drafter are released, and the session closes if its phase allows it
\* (otherwise its close raises and the request stays open).
Close ==
    /\ Settled /\ ~request.closed /\ engine.phase \in {"idle", "failed"}
    /\ engine' = [engine EXCEPT !.phase = "closed", !.pending = NoTicket]
    /\ drafter' = [drafter EXCEPT !.pending = 0]
    /\ LET phase == IF session.phase = "pending" /\ engine.phase = "idle"
                    THEN "failed" ELSE session.phase
       IN /\ session' = IF phase \in {"idle", "failed"}
                        THEN [session EXCEPT !.phase = "closed", !.emitted = <<>>,
                                             !.seed = NoToken, !.pending = NoTicket]
                        ELSE [session EXCEPT !.phase = phase]
          /\ request' = [request EXCEPT !.closed = phase \in {"idle", "failed"}]
    /\ UNCHANGED <<target, runtime, bridge, runner, frame, stale>>

Draft == DraftFromLookup \/ DraftFromNeural
Step == Verify \/ AdoptPacked \/ Narrow
Publish == BeginCommit \/ PublishTarget \/ CommitHistory
Complete == CompleteCommit \/ CompleteCancel \/ CompleteRefusal
Fault == \/ DraftFails \/ RefreshFails \/ VerifyFails \/ PackedVerifyFails
         \/ BeginAbort("refuse") \/ PublicationFails \/ PartnerFails
Cancel == CancelBeforeVerify \/ BeginAbort("cancel")

\* The request is over: closed, or its close raised once the engine was gone.
Over == engine.phase = "closed" /\ UNCHANGED vars

Next == \/ Draft \/ DiscardStaleTicket \/ Step \/ Publish \/ Complete
        \/ Fault \/ Cancel \/ Deliver \/ Close \/ Over

Spec == Init /\ [][Next]_vars

\* The engine loop keeps asking for drafts and scheduling prepared requests, a step
\* once begun runs to its end, and the lifecycle releases what has ended.
Fairness ==
    /\ WF_vars(Draft \/ Step \/ Publish \/ Complete \/ Deliver)
    /\ WF_vars(Close)

FairSpec == Spec /\ Fairness

-----------------------------------------------------------------------------
(* Properties *)

Ticket == [epoch : Nat, position : Nat, tokens : Seq(Token)]
Decision == [kind : {"none", "commit", "cancel", "refuse"}, prefix : Nat, emitted : Seq(Token),
             next : Token \cup {NoToken}, finished : BOOLEAN]
Output == [kind : {"none", "tokens", "cancelled"}, tokens : Seq(Token), position : Nat]

SessionType == [phase : {"idle", "pending", "committing", "failed", "closed"}, epoch : Nat,
                position : Nat, seed : Token \cup {NoToken}, emitted : Seq(Token),
                finished : BOOLEAN, pending : Ticket]
EngineType == [phase : {"idle", "verified", "failed", "closed"}, position : Nat,
               pending : Ticket, consumed : Seq(Token)]
FrameType == [predictions : Seq(Token), cap : Nat, decision : Decision, output : Output]

\* Every component's fields keep their type (the phases each class assigns).
TypeOK ==
    /\ target \in Streams
    /\ session \in SessionType
    /\ runtime \in [phase : {"idle", "proposed", "committing", "failed"}, position : Nat]
    /\ engine \in EngineType
    /\ drafter \in [position : Nat, pending : Nat]
    /\ request \in [busy : BOOLEAN, cancelled : BOOLEAN, closed : BOOLEAN]
    /\ bridge \in [failed : BOOLEAN, poisoned : BOOLEAN]
    /\ runner \in [output : Seq(Token), computed : Nat]
    /\ frame \in FrameType
    /\ stale \in Nat

\* What the types rest on: a seed exists until the stream ends, the verified block has one
\* prediction per row and a cap within it, an open decision names the next seed, and the
\* decided prefix lies within the ticket.
Shape ==
    /\ (session.phase \in {"idle", "pending", "committing"} /\ ~session.finished)
          => session.seed \in Token
    /\ (request.busy /\ session.phase = "pending")
          => /\ Len(frame.predictions) = Len(session.pending.tokens)
             /\ frame.cap \in 1..Len(session.pending.tokens)
    /\ (frame.decision.kind = "commit" /\ ~frame.decision.finished) => frame.decision.next \in Token
    /\ session.phase = "committing" => frame.decision.prefix <= Len(session.pending.tokens)

\* Between two steps of a healthy request the session, the draft runtime, the drafter,
\* the verifier and the vLLM runner stand at one frontier, so the next step's checks
\* (verify, __call__, validate_runner_reservation) cannot refuse it.
Healthy == Settled /\ ~bridge.failed /\ session.phase \in {"idle", "pending"} /\ engine.phase # "closed"
FrontiersAgree ==
    Healthy => /\ session.position = runtime.position /\ session.position = drafter.position
               /\ session.position = engine.position /\ session.position = runner.computed
               /\ session.position = Prompt + Len(session.emitted) - 1
               /\ runner.output = session.emitted
               /\ (session.phase = "idle" => NeuralReady \/ session.finished)

\* Rejected drafts never stay in the target's recurrent state: what the engine consumed
\* is the emitted stream without its last token, the next seed, whenever no publication
\* is under way (VerifierEngine.publish commits the state at the accepted prefix).
StateMatchesStream ==
    (engine.phase = "idle" /\ session.phase \in {"idle", "pending"}) =>
        engine.consumed = SubSeq(session.emitted, 1, Len(session.emitted) - 1)

\* Tokens are exposed only after the target and the drafter both published them, also in
\* every failed state (test_publication_failure_never_returns_tokens).
PublishedBeforeExposed ==
    /\ Prompt + Len(runner.output) - 1 <= engine.position
    /\ Prompt + Len(runner.output) - 1 <= drafter.position

\* A request is dead once its session failed or closed, its bridge failed, its resources were
\* released, or it was cancelled: before the verify, which fails the session, or after it, when
\* the abort has put session, engine and drafter back to idle and only the flag is left.
Dead ==
    \/ session.phase \in {"failed", "closed"} \/ bridge.failed
    \/ request.cancelled \/ request.closed \/ engine.phase = "closed"

\* A dead request stays dead: it drafts no ticket, verifies nothing, moves neither the target's
\* state nor the draft history and emits no token, whichever of its components still look idle.
DeadStaysDead ==
    [][Dead => /\ Dead'
               /\ session'.epoch = session.epoch /\ engine'.phase # "verified"
               /\ engine'.consumed = engine.consumed /\ drafter'.position = drafter.position
               /\ runner'.output = runner.output]_vars

\* A new live ticket always has a newer epoch than every ticket before it, so a late
\* holder of an old ticket is refused by check_ticket.
FreshTickets ==
    [][(session'.pending # session.pending /\ session'.pending # NoTicket)
          => session'.pending.epoch > session.epoch /\ session'.epoch = session'.pending.epoch]_vars

\* Every request ends: its stream finishes, it fails, or it is cancelled, and then its
\* resources are released - except after a partial page upload (see EveryRequestReleased).
EventuallyReleased == <>(request.closed \/ bridge.poisoned)

\* The same without the exception: docs/fast-vllm-integration.md says the worker closes
\* fast resources before it deletes its model.
EveryRequestReleased == <>request.closed

\* The request implements plain greedy decoding as the client sees it.
Greedy == INSTANCE GreedyDecode WITH out <- runner.output
ImplementsGreedyDecode == Greedy!Spec

=============================================================================
