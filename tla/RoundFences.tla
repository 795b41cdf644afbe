----------------------------- MODULE RoundFences -----------------------------
(***************************************************************************)
(* The packed rounds of one worker between the host and command queue 0:   *)
(* the commit traces of a round (packed_verifier.py), the retained block   *)
(* whose replay needs them fenced (gdn_records.py), the drafts' window and *)
(* the pre-staged verify inputs (verify_prestage.py) and the drafts made   *)
(* inside execute_model (early_draft.py).  The host is one thread; the     *)
(* device takes commit traces off the queue in order, at any time.         *)
(***************************************************************************)
EXTENDS Integers, Sequences, FiniteSets

CONSTANTS
    Seg,          \* the block's segments, one user each
    None,
    Rows,         \* rows per user of the block
    MaxRounds,    \* bound: decode steps of a behaviour
    Profiles,     \* the settings a worker may be started with
    Disturbs,     \* what else moves between a pre-stage and its verify
    Faults,       \* operations the run lets fail, once each
    MaxFaults     \* bound: failures of a behaviour

ASSUME SegAssumption == IsFiniteSet(Seg) /\ Seg # {} /\ None \notin Seg \cup Nat
ASSUME BoundAssumption == Rows \in Nat \ {0} /\ MaxRounds \in Nat /\ MaxFaults \in Nat
ASSUME FlagAssumption ==
    /\ Profiles \subseteq [padded : BOOLEAN, fences : BOOLEAN, prestage : BOOLEAN,
                          early : BOOLEAN, afterPairs : BOOLEAN, pipelined : BOOLEAN]
    /\ \A p \in Profiles : p.afterPairs => p.early /\ p.fences
ASSUME DisturbAssumption == Disturbs \subseteq {"pages", "prefill"}
ASSUME FaultAssumption == Faults \subseteq {"stage", "commit", "flush", "prestage", "draft"}

VARIABLES
    profile,  \* the settings this worker was started with
    pc,       \* where the host thread stands
    live,     \* segments of the hook's bridges
    gone,     \* live ones the scheduler has finished or aborted
    fin,      \* session.finished
    pos,      \* session.position of each segment's user
    pages,    \* its engine's host page table
    ticket,   \* session.pending
    handed,   \* the drafts vLLM holds for it
    entries,  \* the users of the decode step being executed
    blk,      \* PackedVerifierEngine
    ret,      \* its RetainedGDNBlock
    queue,    \* commit traces enqueued and not yet run
    carry,    \* device: rows folded into each user's carry
    recs,     \* device: what the last verify trace read of each carry
    snap,     \* BlockPrestage.snapshot
    buf,      \* device: what the verify's input buffers hold for each segment
    draft,    \* EarlyDraft, and the draft being made
    rounds,   \* decode steps so far
    fault     \* history: what has failed

vars == <<profile, pc, live, gone, fin, pos, pages, ticket, handed, entries, blk, ret, queue, carry, recs,
          snap, buf, draft, rounds, fault>>

requests == <<live, gone, fin, pos, pages, ticket, handed>>
device == <<queue, carry, recs>>

Padded == profile.padded           \* QWEN_FAST_PADDED_BLOCK
RoundFenced == profile.fences      \* QWEN_FAST_ROUND_FENCES
Prestage == profile.prestage       \* QWEN_FAST_PRESTAGE
EarlyDraft == profile.early        \* QWEN_FAST_EARLY_DRAFT
AfterPairs == profile.afterPairs   \* QWEN_FAST_GDN_AFTER_PAIRS
Pipelined == profile.pipelined     \* QWEN_FAST_PIPELINED_COMMITS

Idle == <<"idle">>
Inputs(users) == [s \in Seg |-> IF s \in users THEN <<pos[s], pages[s]>> ELSE Idle]
Junk == <<"junk">>

Fails(what) ==
    /\ what \in Faults \ fault /\ Cardinality(fault) < MaxFaults
    /\ fault' = fault \cup {what}

\* pads() and the exact-users test: whom the block serves as one pass.
Pads(users) == users = Seg \/ (Padded /\ users # {})

Init ==
    /\ profile \in Profiles
    /\ pc = "between" /\ live = {} /\ gone = {} /\ fin = {}
    /\ pos = [s \in Seg |-> 0] /\ pages = [s \in Seg |-> 0]
    /\ ticket = [s \in Seg |-> None] /\ handed = [s \in Seg |-> None] /\ entries = {}
    /\ blk = [phase |-> "idle", pending |-> {}, first |-> TRUE, armed |-> FALSE,
              deferring |-> FALSE, deferred |-> <<>>]
    /\ ret = [decisions |-> [s \in Seg |-> None], ready |-> FALSE, owed |-> FALSE, poisoned |-> FALSE]
    /\ queue = <<>> /\ carry = [s \in Seg |-> 0] /\ recs = [s \in Seg |-> 0]
    /\ snap = None /\ buf = [s \in Seg |-> Junk]
    /\ draft = [early |-> FALSE, token |-> None, cache |-> None, key |-> None, failure |-> FALSE,
                failed |-> {}]
    /\ rounds = 0 /\ fault = {}

-----------------------------------------------------------------------------
(* Command queue 0 *)

\* What the carries hold once the commit traces of q have run: each writes its user's carry
\* from the records of the last verify.
RunAll(q, c) ==
    [s \in Seg |-> IF \E i \in DOMAIN q : q[i][1] = s
                   THEN LET last == CHOOSE i \in DOMAIN q :
                                        /\ q[i][1] = s
                                        /\ \A j \in DOMAIN q : q[j][1] = s => j <= i
                        IN  recs[s] + q[last][2]
                   ELSE c[s]]

\* The device runs the commit trace at the head of the queue.
DeviceRuns ==
    /\ queue # <<>>
    /\ carry' = RunAll(<<Head(queue)>>, carry) /\ queue' = Tail(queue)
    /\ UNCHANGED <<requests, pc, entries, blk, ret, recs, snap, buf, draft, rounds, fault>>

\* synchronize_device: the host waits until everything enqueued has run.
Drain == carry' = RunAll(queue, carry) /\ queue' = <<>>

\* execute_trace of commit traces, enqueued or blocking.
Enqueue(traces) ==
    IF Pipelined THEN queue' = queue \o traces /\ carry' = carry
                 ELSE carry' = RunAll(queue \o traces, carry) /\ queue' = <<>>

-----------------------------------------------------------------------------
(* RetainedGDNBlock *)

Decided(decisions) == \A s \in Seg : decisions[s] # None

\* commit_user: one decision; the last one owes the fence, or is fenced at once.
RetainedCommit(r, decisions, last) ==
    [r EXCEPT !.decisions = decisions,
              !.ready = last /\ ~RoundFenced /\ Decided(decisions),
              !.owed = last /\ RoundFenced /\ Decided(decisions)]

\* note_round_fence: the drafts' fence pays the owed one if nothing was decided since its token.
NoteRoundFence(r, token) ==
    IF RoundFenced /\ r.owed /\ token = "current" /\ ~r.poisoned /\ Decided(r.decisions)
    THEN [r EXCEPT !.owed = FALSE, !.ready = TRUE] ELSE r

\* Mutant: the replay the drafts' fence armed stays armed.
NoteDeferredStillReady(r) == [r EXCEPT !.owed = Decided(r.decisions)]

\* Mutant: the replay is disarmed and no fence is owed.
NoteDeferredNothingOwed(r) == [r EXCEPT !.ready = FALSE, !.owed = FALSE]

\* note_deferred_publications: traces decided earlier were only now enqueued; owed again.
NoteDeferred(r) == [r EXCEPT !.ready = FALSE, !.owed = Decided(r.decisions)]

\* A decision or a late publication moves commit_serial: a token read before it is stale.
SerialMoved(token) == IF token = "current" THEN "stale" ELSE token

-----------------------------------------------------------------------------
(* PackedVerifierEngine.flush_commits *)

Disarmed == [blk EXCEPT !.armed = FALSE, !.deferring = FALSE, !.deferred = <<>>]
Dropped == blk.phase = "failed" \/ ret.poisoned

\* Mutant: the deferred traces are forgotten.
FlushLoses ==
    /\ blk' = Disarmed /\ fault' = fault
    /\ UNCHANGED <<queue, carry, ret>> /\ draft' = draft

\* The deferred commit traces go to the device, in the order decided.
FlushDone ==
    /\ blk' = Disarmed /\ fault' = fault
    /\ IF blk.deferred = <<>> \/ Dropped
       THEN UNCHANGED <<queue, carry, ret>> /\ draft' = draft
       ELSE /\ Enqueue(blk.deferred)
            /\ ret' = NoteDeferred(ret)
            /\ draft' = [draft EXCEPT !.token = SerialMoved(@)]

\* Some of them are enqueued and one raises: the carries are half written.
FlushFailed ==
    /\ blk.deferred # <<>> /\ ~Dropped /\ Fails("flush")
    /\ \E n \in 0..(Len(blk.deferred) - 1) : Enqueue(SubSeq(blk.deferred, 1, n))
    /\ blk' = [Disarmed EXCEPT !.phase = "failed"]
    /\ ret' = [ret EXCEPT !.poisoned = TRUE]

-----------------------------------------------------------------------------
(* BlockPrestage and the write epoch *)

\* bump(): the epoch only grows, so a snapshot's epoch equals it until the next bump.
Bump(s) == IF s = None THEN None ELSE [s EXCEPT !.current = FALSE]

\* Mutant: any snapshot will do.
UsableAny(s) == s # None

\* usable(): no writer has touched the buffers since the snapshot.
Usable(s) == s # None /\ s.current

\* stage(): the values that differ from a usable snapshot, or every value.
Staged(s, values) ==
    IF Usable(s) THEN [g \in Seg |-> IF s.values[g] # values[g] THEN values[g] ELSE buf[g]]
                 ELSE values

-----------------------------------------------------------------------------
(* The engine loop: one step is execute_model, sample_tokens, take_draft_token_ids *)

\* A client aborts: the scheduler stops scheduling the request.
Abort(s) ==
    /\ pc = "between" /\ s \in live \ gone
    /\ gone' = gone \cup {s}
    /\ UNCHANGED <<pc, live, fin, pos, pages, ticket, handed, entries, blk, ret, device, snap,
                   buf, draft, rounds, fault>>

\* The lifecycle detaches a request the step names as finished; the detach bumps.
Detach(s) ==
    /\ pc = "between" /\ s \in gone
    /\ live' = live \ {s} /\ gone' = gone \ {s} /\ fin' = fin \ {s}
    /\ ticket' = [ticket EXCEPT ![s] = None] /\ handed' = [handed EXCEPT ![s] = None]
    /\ pos' = [pos EXCEPT ![s] = 0] /\ pages' = [pages EXCEPT ![s] = 0]
    /\ snap' = Bump(snap)
    /\ draft' = [draft EXCEPT !.failed = @ \ {s}]
    /\ UNCHANGED <<pc, entries, blk, ret, device, buf, rounds, fault>>

\* Mutant: drafts nobody took survive into the next step.
KeptDraft == draft

\* reconcile(): drafts vLLM never took are dropped, a kept failure too.
ReconciledDraft == [draft EXCEPT !.cache = None, !.key = None, !.failure = FALSE]

\* execute_model's entry: drafts vLLM never took are dropped, and deferred commits still held
\* (none should be) are enqueued.
StepBegins ==
    /\ pc = "between" /\ pc' = "step"
    /\ IF EarlyDraft
       THEN LET reconciled == ReconciledDraft IN
            /\ blk' = Disarmed /\ fault' = fault
            /\ IF blk.deferred = <<>> \/ Dropped
               THEN UNCHANGED <<queue, carry, ret>> /\ draft' = reconciled
               ELSE Enqueue(blk.deferred) /\ ret' = NoteDeferred(ret) /\ draft' = reconciled
       ELSE UNCHANGED <<blk, queue, carry, ret, draft, fault>>
    /\ UNCHANGED <<requests, entries, recs, snap, buf, rounds>>

\* A step with someone else's prompt: the prefill and its readback drain the queue and may
\* write what a pre-staged verify relies on; its sampler may admit the request.
PrefillStep ==
    /\ pc = "step" /\ pc' = "take"
    /\ queue' = <<>>
    /\ snap' = Bump(snap)
    /\ \/ buf' = buf
       \/ "prefill" \in Disturbs /\ buf' = [s \in Seg |-> Junk]
    /\ \/ live' = live /\ pos' = pos /\ carry' = RunAll(queue, carry)
       \/ \E s \in Seg \ live :
             /\ live' = live \cup {s} /\ pos' = [pos EXCEPT ![s] = 0]
             /\ carry' = [RunAll(queue, carry) EXCEPT ![s] = 0]
    /\ UNCHANGED <<gone, fin, pages, ticket, handed, entries, blk, ret, recs, draft, rounds, fault>>

\* A step that schedules nothing: no drafts are taken after it.
BookkeepingStep ==
    /\ pc = "step" /\ pc' = "between"
    /\ snap' = Bump(snap)
    /\ UNCHANGED <<requests, entries, blk, ret, device, buf, draft, rounds, fault>>

\* A decode step: every scheduled user holds the drafts vLLM was handed, its page table is
\* refreshed, and the early draft arms the block; the block serves the round when it takes
\* these users and every ticket has its width.
DecodeStep ==
    /\ pc = "step" /\ rounds < MaxRounds
    /\ LET users == live \ gone IN
       /\ users # {} /\ \A s \in users : handed[s] # None
       /\ entries' = users
       /\ handed' = [s \in Seg |-> IF s \in users THEN None ELSE handed[s]]
       /\ \E changed \in SUBSET (IF "pages" \in Disturbs THEN users ELSE {}) :
             pages' = [s \in Seg |-> IF s \in changed THEN 1 - pages[s] ELSE pages[s]]
       /\ pc' = IF draft.failed # {} THEN "dead"
                ELSE IF Pads(users) /\ \A s \in users : ticket[s].wide THEN "verify" ELSE "sequential"
    /\ rounds' = rounds + 1
    /\ blk' = [blk EXCEPT !.armed = @ \/ AfterPairs]
    /\ UNCHANGED <<live, gone, fin, pos, ticket, ret, device, snap, buf, draft, fault>>

\* What one user's commit leaves of its request: its position, and perhaps its end.
Committed(s, prefix) ==
    /\ pos' = [pos EXCEPT ![s] = @ + prefix]
    /\ ticket' = [ticket EXCEPT ![s] = None]
    /\ \E ends \in SUBSET {s} : fin' = fin \cup ends /\ gone' = gone \cup ends
    /\ UNCHANGED <<live, pages, handed>>

AfterRound == IF EarlyDraft THEN "draft" ELSE "take"
DraftBegins == [draft EXCEPT !.early = EarlyDraft]

\* sequential_packed_step, one user: its own engine reads its carry behind everything
\* enqueued and blocks on its own commit.
SequentialUser(s) ==
    /\ pc = "sequential" /\ s \in entries
    /\ \E prefix \in 0..Rows :
          /\ Committed(s, prefix)
          /\ carry' = [RunAll(queue, carry) EXCEPT ![s] = @ + prefix]
    /\ queue' = <<>>
    /\ entries' = entries \ {s}
    /\ IF entries' = {} THEN pc' = AfterRound /\ draft' = DraftBegins
                        ELSE UNCHANGED <<pc, draft>>
    /\ UNCHANGED <<blk, ret, recs, snap, buf, rounds, fault>>

-----------------------------------------------------------------------------
(* PackedVerifierEngine.verify *)

\* The backstop for commits never flushed, the phase check, and the staging of the inputs.
VerifyStages ==
    /\ pc = "verify"
    /\ IF blk.deferred # <<>> THEN FlushDone ELSE UNCHANGED <<blk, queue, carry, ret, draft, fault>>
    /\ IF blk.phase = "idle"
       THEN /\ buf' = Staged(snap, Inputs(entries)) /\ snap' = None /\ pc' = "staged"
       ELSE pc' = "dead" /\ UNCHANGED <<buf, snap>>
    /\ UNCHANGED <<requests, entries, recs, rounds>>

\* A copy of the staging raises: the block and its round have failed.
StagingFails ==
    /\ pc = "verify" /\ blk.phase = "idle" /\ Fails("stage")
    /\ \E some \in SUBSET Seg :
          buf' = [s \in Seg |-> IF s \in some THEN Inputs(entries)[s] ELSE buf[s]]
    /\ snap' = None
    /\ blk' = [Disarmed EXCEPT !.phase = "failed"] /\ pc' = "dead"
    /\ UNCHANGED <<requests, entries, ret, device, draft, rounds>>

\* fence_at_replay: an owed fence nobody paid is paid here.
FenceIsOwed ==
    /\ RoundFenced /\ ~blk.first /\ ~ret.ready
    /\ ret.owed /\ ~ret.poisoned /\ Decided(ret.decisions)

FencedAtReplay ==
    /\ pc = "staged" /\ FenceIsOwed
    /\ Drain
    /\ ret' = [ret EXCEPT !.ready = TRUE, !.owed = FALSE]
    /\ UNCHANGED <<requests, pc, entries, blk, recs, snap, buf, draft, rounds, fault>>

MayReplay == blk.first \/ (ret.ready /\ Decided(ret.decisions))

\* The verify trace, blocking: it reads the input buffers and every carry.  The segments
\* without a user are decided at prefix 0 at once.
Replay ==
    /\ pc = "staged" /\ MayReplay
    /\ Drain /\ recs' = carry'
    /\ blk' = [blk EXCEPT !.first = FALSE, !.phase = "verified", !.pending = entries,
                          !.deferring = blk.armed, !.armed = FALSE, !.deferred = <<>>]
    /\ ret' = RetainedCommit(ret, [s \in Seg |-> IF s \in entries THEN None ELSE 0], FALSE)
    /\ pc' = "commit"
    /\ UNCHANGED <<requests, entries, snap, buf, draft, rounds, fault>>

\* commit_user of one live segment, through its session's commit or abort (prefix 0).
CommitUser(s) ==
    /\ pc = "commit" /\ s \in blk.pending
    /\ LET last == blk.pending = {s} IN
       /\ \E prefix \in 0..Rows :
             /\ Committed(s, prefix)
             /\ ret' = RetainedCommit(ret, [ret.decisions EXCEPT ![s] = prefix], last)
             /\ LET traces == IF prefix = 0 THEN <<>> ELSE <<<<s, prefix>>>> IN
                IF blk.deferring
                THEN /\ blk' = [blk EXCEPT !.pending = @ \ {s}, !.deferred = @ \o traces,
                                           !.phase = IF last THEN "idle" ELSE @]
                     /\ UNCHANGED <<queue, carry>>
                ELSE /\ blk' = [blk EXCEPT !.pending = @ \ {s}, !.phase = IF last THEN "idle" ELSE @]
                     /\ IF last /\ ~RoundFenced
                        THEN carry' = RunAll(queue \o traces, carry) /\ queue' = <<>>
                        ELSE Enqueue(traces)
       /\ pc' = IF last THEN AfterRound ELSE pc
       /\ draft' = IF last THEN DraftBegins ELSE draft
    /\ UNCHANGED <<entries, recs, snap, buf, rounds, fault>>

\* The commit trace raises: its carry may be half written, and the round's requests fail.
CommitFails(s) ==
    /\ pc = "commit" /\ s \in blk.pending /\ ~blk.deferring /\ Fails("commit")
    /\ ret' = [ret EXCEPT !.poisoned = TRUE]
    /\ blk' = [Disarmed EXCEPT !.phase = "failed"]
    /\ pc' = "dead"
    /\ UNCHANGED <<requests, entries, device, snap, buf, draft, rounds>>

-----------------------------------------------------------------------------
(* FastWorkerHook._drafts, inside the step (early) or at take_draft_token_ids *)

\* proposal_rows and the budgets decide whether the coming round is the block's.
Drafters == live \ fin
Widths == IF Pads(Drafters) THEN BOOLEAN ELSE {FALSE}

\* discard_stale_ticket: a pending ticket survives only at the block's width.
Stale(wide) == {s \in live : ticket[s] # None /\ ~(wide /\ ticket[s].wide)}

\* The tickets of the coming round; those prepared now are enqueued as draft pairs, and a
\* window follows when the round is the block's.
Draft ==
    /\ pc = "draft"
    /\ draft.failed = {}
    /\ \E wide \in Widths :
          LET prepared == {s \in Drafters : ticket[s] = None \/ s \in Stale(wide)} IN
          /\ ticket' = [s \in Seg |-> IF s \in prepared THEN [at |-> pos[s], wide |-> wide]
                                      ELSE IF s \in Stale(wide) THEN None ELSE ticket[s]]
          /\ pc' = IF prepared = {} THEN "drafted"
                   ELSE IF wide /\ (Prestage \/ RoundFenced) THEN "window" ELSE "fence"
    /\ UNCHANGED <<live, gone, fin, pos, pages, handed, entries, blk, ret, device, snap, buf,
                   draft, rounds, fault>>

\* A proposal raises: early, the failure is kept for take_draft_token_ids.
DraftFails ==
    /\ pc = "draft" /\ Fails("draft")
    /\ \E wide \in Widths :
          ticket' = [s \in Seg |-> IF s \in Stale(wide) THEN None ELSE ticket[s]]
    /\ IF draft.early THEN pc' = "end" /\ draft' = [draft EXCEPT !.failure = TRUE]
                      ELSE pc' = "dead" /\ draft' = draft
    /\ UNCHANGED <<live, gone, fin, pos, pages, handed, entries, blk, ret, device, snap, buf, rounds>>

\* A failed bridge refuses to draft.
DraftRefused ==
    /\ pc = "draft" /\ draft.failed # {}
    /\ pc' = "dead"
    /\ UNCHANGED <<requests, entries, blk, ret, device, snap, buf, draft, rounds, fault>>

Token == IF RoundFenced THEN "current" ELSE None

\* WhileWaiting: the fence token, then every input of the next verify but its tokens.
Window ==
    /\ pc = "window" /\ pc' = "fence"
    /\ draft' = [draft EXCEPT !.token = Token]
    /\ IF Prestage /\ blk.phase = "idle"
       THEN LET values == Inputs(Drafters) IN
            buf' = values /\ snap' = [current |-> TRUE, values |-> values]
       ELSE UNCHANGED <<buf, snap>>
    /\ UNCHANGED <<requests, entries, blk, ret, device, rounds, fault>>

\* The pre-stage fails part way; the round goes on.
WindowFails ==
    /\ pc = "window" /\ pc' = "fence" /\ Prestage /\ Fails("prestage")
    /\ draft' = [draft EXCEPT !.token = Token]
    /\ \E some \in SUBSET Seg :
          buf' = [s \in Seg |-> IF s \in some THEN Inputs(Drafters)[s] ELSE buf[s]]
    /\ snap' = None
    /\ UNCHANGED <<requests, entries, blk, ret, device, rounds>>

\* The round's one fence F9, and what it arms.
Fence ==
    /\ pc = "fence" /\ pc' = "read"
    /\ Drain
    /\ ret' = NoteRoundFence(ret, draft.token)
    /\ draft' = [draft EXCEPT !.token = None]
    /\ UNCHANGED <<requests, entries, blk, recs, snap, buf, rounds, fault>>

\* The pairs are read back: deferred commits go in behind them, unless a single is still to
\* be read.
ReadBack ==
    /\ pc = "read" /\ pc' = "drafted"
    /\ \/ draft.early /\ blk.deferred # <<>> /\ FlushDone
       \/ UNCHANGED <<blk, ret, queue, carry, draft, fault>>
    /\ UNCHANGED <<requests, entries, recs, snap, buf, rounds>>

\* The flush in the window raises: every bridge fails, and the draft fails with it.
ReadBackFails ==
    /\ pc = "read" /\ pc' = "end" /\ draft.early /\ FlushFailed
    /\ draft' = [draft EXCEPT !.failure = TRUE, !.failed = live]
    /\ UNCHANGED <<requests, entries, recs, snap, buf, rounds>>

\* draft_key: everything the drafts were decided from.
DraftKey == [s \in live |-> <<s \in draft.failed, ticket[s], pos[s], s \in fin>>]

\* The drafts are cached with their key, or handed to vLLM.
Drafted ==
    /\ pc = "drafted"
    /\ IF draft.early
       THEN /\ pc' = "end" /\ handed' = handed
            /\ draft' = [draft EXCEPT !.cache = [s \in Drafters |-> ticket[s]], !.key = DraftKey]
       ELSE /\ pc' = "between" /\ draft' = draft
            /\ handed' = [s \in Seg |-> IF s \in Drafters THEN ticket[s] ELSE None]
    /\ UNCHANGED <<live, gone, fin, pos, pages, ticket, entries, blk, ret, device, snap, buf,
                   rounds, fault>>

\* The end of the early draft: whatever is still deferred is enqueued.
EarlyEnds ==
    /\ pc = "end" /\ pc' = "take"
    /\ FlushDone
    /\ UNCHANGED <<requests, entries, recs, snap, buf, rounds>>

EarlyEndFails ==
    /\ pc = "end" /\ FlushFailed /\ pc' = "dead"
    /\ draft' = [draft EXCEPT !.failed = live]
    /\ UNCHANGED <<requests, entries, recs, snap, buf, rounds>>

\* take_draft_token_ids: the cached drafts if nothing they were drafted from has changed;
\* else the early tickets are discarded and the drafts made now.
Take ==
    /\ pc = "take"
    /\ LET kept == draft.cache # None /\ draft.key = DraftKey
           stale == draft.cache # None /\ ~kept
           cleared == [draft EXCEPT !.early = FALSE, !.cache = None, !.key = None, !.failure = FALSE]
       IN  /\ draft' = cleared
           /\ pc' = IF draft.failure THEN "dead" ELSE IF kept THEN "between" ELSE "draft"
           /\ handed' = IF kept /\ ~draft.failure
                        THEN [s \in Seg |-> IF s \in DOMAIN draft.cache THEN draft.cache[s] ELSE None]
                        ELSE handed
           /\ ticket' = IF stale THEN [s \in Seg |-> IF s \in DOMAIN draft.cache
                                                        /\ draft.cache[s] = ticket[s]
                                                     THEN None ELSE ticket[s]]
                        ELSE ticket
    /\ UNCHANGED <<live, gone, fin, pos, pages, entries, blk, ret, device, snap, buf, rounds, fault>>

\* vLLM goes on to its next step without asking for the drafts.
NotTaken ==
    /\ pc = "take" /\ pc' = "between"
    /\ UNCHANGED <<requests, entries, blk, ret, device, snap, buf, draft, rounds, fault>>

\* The engine core has died with the step's exception, or the bound on its steps is reached.
Stopped ==
    /\ pc = "dead"
    /\ UNCHANGED <<requests, pc, entries, blk, ret, device, snap, buf, draft, rounds, fault>>

Step ==
    \/ DeviceRuns \/ StepBegins \/ PrefillStep \/ BookkeepingStep \/ DecodeStep
    \/ \E s \in Seg : Abort(s) \/ Detach(s) \/ SequentialUser(s) \/ CommitUser(s) \/ CommitFails(s)
    \/ VerifyStages \/ StagingFails \/ FencedAtReplay \/ Replay
    \/ Draft \/ DraftFails \/ DraftRefused \/ Window \/ WindowFails \/ Fence
    \/ ReadBack \/ ReadBackFails \/ Drafted \/ EarlyEnds \/ EarlyEndFails \/ Take \/ NotTaken
    \/ Stopped

Next == Step /\ UNCHANGED profile

Spec == Init /\ [][Next]_vars

-----------------------------------------------------------------------------

Ticket == [at : Nat, wide : BOOLEAN] \cup {None}
Traces == Seq(Seg \X (1..Rows))
Values == (Nat \X {0, 1}) \cup {Idle, Junk}
Block == [phase : {"idle", "verified", "failed"}, pending : SUBSET Seg, first : BOOLEAN,
          armed : BOOLEAN, deferring : BOOLEAN, deferred : Traces]
Retained == [decisions : [Seg -> (0..Rows) \cup {None}], ready : BOOLEAN, owed : BOOLEAN,
             poisoned : BOOLEAN]
EarlyDrafts(drafters, users) ==
    [early : BOOLEAN, token : {None, "current", "stale"}, cache : [drafters -> Ticket] \cup {None},
     key : [users -> BOOLEAN \X Ticket \X Nat \X BOOLEAN] \cup {None},
     failure : BOOLEAN, failed : SUBSET Seg]

\* Every variable keeps its type.
TypeOK ==
    /\ profile \in Profiles
    /\ pc \in {"between", "step", "verify", "sequential", "staged", "commit", "draft", "window",
               "fence", "read", "drafted", "end", "take", "dead"}
    /\ live \subseteq Seg /\ gone \subseteq live /\ fin \subseteq gone /\ entries \subseteq Seg
    /\ pos \in [Seg -> Nat] /\ pages \in [Seg -> {0, 1}]
    /\ ticket \in [Seg -> Ticket] /\ handed \in [Seg -> Ticket]
    /\ blk \in Block /\ ret \in Retained
    /\ \E drafters, users \in SUBSET Seg : draft \in EarlyDrafts(drafters, users)
    /\ queue \in Traces /\ carry \in [Seg -> Nat] /\ recs \in [Seg -> Nat]
    /\ snap \in [current : BOOLEAN, values : [Seg -> Values]] \cup {None} /\ buf \in [Seg -> Values]
    /\ rounds \in 0..MaxRounds /\ fault \subseteq Faults

\* Whoever reads a carry next, the block's verify trace or the user's own engine, reads the
\* state of exactly the tokens the session has committed: no commit trace is lost, doubled, or
\* run after the records it publishes have been replaced, wherever in its step it was enqueued.
ReadersFindCommitted ==
    /\ blk.phase = "verified" => \A s \in blk.pending : recs[s] = pos[s]
    /\ pc = "sequential" => \A s \in entries : RunAll(queue, carry)[s] = pos[s]

\* The retained block never replays over a publication the host has not seen complete: at the
\* trace, every commit decided in the previous round has been enqueued and fenced.
ReplayIsFenced == [][Replay => queue = <<>> /\ blk.deferred = <<>>]_vars

\* A round whose device work has not failed always finds its block idle and its replay armed
\* or armable: the refusals of verify() and replay() are for a failed block only.
RoundCanRun ==
    /\ pc = "verify" => blk.phase = "idle" \/ "flush" \in fault
    /\ pc = "staged" => MayReplay \/ FenceIsOwed

\* The verify trace finds this round's values in every input buffer, whatever was staged
\* early, half staged or overwritten since.
StagedIsCurrent == pc = "staged" => buf = Inputs(entries)

\* Between the early draft and take_draft_token_ids nothing the drafts were made from moves.
EarlyDraftsHold == (pc = "take" /\ draft.cache # None) => draft.key = DraftKey

====
