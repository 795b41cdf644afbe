---------------------------- MODULE ServingEngine ----------------------------
(***************************************************************************)
(* The engine loop that serves several users on one worker: TTScheduler    *)
(* with the one-fresh-prefill wrapper (serving_prefill_admission.py) and   *)
(* the alternation graft (lever_n_model_patch.py), FastServingLifecycle    *)
(* and its FastWorkerHook in the worker, and the request quarantine        *)
(* through which the worker ends a request at the scheduler.  One engine   *)
(* step is schedule, execute_model, sample_tokens, update_from_output, all *)
(* on one thread; clients arrive and abort between steps.                  *)
(***************************************************************************)
EXTENDS Integers, Sequences, FiniteSets

CONSTANTS
    Request,      \* request ids
    NoRequest,    \* None
    Seats,        \* max_num_running_reqs, the --max-num-seqs of the engine
    Rooms,        \* engines that fit the DRAM the admission predicate reads
    MaxChunks,    \* prefill chunks of the longest prompt; 1: prompts are never split
    DecodeSteps,  \* TT_DECODE_STEPS_PER_PREFILL_CHUNK
    MaxRounds,    \* decode rounds after which every request has stopped
    Faults        \* exceptions of the environment the run injects

ASSUME RequestAssumption == IsFiniteSet(Request) /\ NoRequest \notin Request
ASSUME CapacityAssumption == Seats \in Nat \ {0} /\ Rooms \in Nat \ {0}
ASSUME LengthAssumption ==
    MaxChunks \in Nat \ {0} /\ DecodeSteps \in Nat \ {0} /\ MaxRounds \in Nat \ {0}
ASSUME FaultAssumption == Faults \subseteq {"device", "sampler", "bridge", "close"}

VARIABLES
    waiting,      \* the scheduler's queue, first come first served
    running,      \* the scheduler's running requests
    length,       \* chunks of each request's prompt
    prefilled,    \* chunks of each request scheduled so far
    rounds,       \* decode rounds of each request so far
    finishedIds,  \* finished_req_ids the next schedule() hands out
    streak,       \* the alternation graft's _qwen_prefill_streak >= 1
    credit,       \* the alternation graft's _qwen_decode_credit
    lastChunk,    \* history: the prompt whose chunk the previous step carried
    dropped,      \* history: finished requests of the worker no step ever named to it
    phase,        \* where the engine loop stands
    step,         \* the SchedulerOutput being executed
    route,        \* what execute_model made of that step
    ended,        \* requests the sampled first token ends
    worker,       \* FastServingLifecycle and the hook it owns
    open,         \* requests whose bridge (engine, drafter, pool slot) is built and not closed
    pending,      \* the quarantine's registry
    fault,        \* history: exceptions injected so far
    shutdown      \* attach_runtime's finally block: not reached, done, or left by an exception

vars == <<waiting, running, length, prefilled, rounds, finishedIds, streak, credit, lastChunk,
          dropped, phase, step, route, ended, worker, open, pending, fault, shutdown>>

Ids == Request \cup {NoRequest}
NoCapture == -1
NoStep == [new |-> {}, cached |-> {}, finished |-> {}]

Idle == [requestId |-> NoRequest, capture |-> NoCapture, decodingIds |-> <<>>,
         decodingId |-> NoRequest, hook |-> FALSE, bridges |-> {}, prefillPending |-> FALSE,
         chunkInFlight |-> FALSE, refused |-> FALSE, failed |-> FALSE]

Elements(s) == {s[i] : i \in DOMAIN s}

\* What removing every element of X leaves of s, in its order.
Without(s, X) ==
    LET kept[i \in 0..Len(s)] ==
            IF i = 0 THEN <<>>
            ELSE IF s[i] \in X THEN kept[i - 1] ELSE Append(kept[i - 1], s[i])
    IN  kept[Len(s)]

Last(s) == s[Len(s)]
Live == Elements(waiting) \cup running

Init ==
    /\ waiting = <<>> /\ running = {} /\ finishedIds = {}
    /\ length = [r \in Request |-> 0] /\ prefilled = [r \in Request |-> 0]
    /\ rounds = [r \in Request |-> 0]
    /\ streak = FALSE /\ credit = 0 /\ lastChunk = NoRequest /\ dropped = {}
    /\ phase = "between" /\ step = NoStep /\ route = "none" /\ ended = {}
    /\ worker = Idle /\ open = {} /\ pending = {} /\ fault = {} /\ shutdown = "none"

-----------------------------------------------------------------------------
(* Clients *)

\* A request never seen before joins the waiting queue.
Arrive(r) ==
    /\ phase = "between" /\ length[r] = 0
    /\ \E chunks \in 1..MaxChunks : length' = [length EXCEPT ![r] = chunks]
    /\ waiting' = Append(waiting, r)
    /\ UNCHANGED <<running, prefilled, rounds, finishedIds, streak, credit, lastChunk, dropped,
                   phase, step, route, ended, worker, open, pending, fault, shutdown>>

\* Scheduler.finish_requests for a client that went away.
Abort(r) ==
    /\ phase = "between" /\ r \in Live
    /\ waiting' = Without(waiting, {r})
    /\ running' = running \ {r}
    /\ finishedIds' = finishedIds \cup {r}
    /\ UNCHANGED <<length, prefilled, rounds, streak, credit, lastChunk, dropped,
                   phase, step, route, ended, worker, open, pending, fault, shutdown>>

-----------------------------------------------------------------------------
(* TTScheduler.schedule with the admission wrapper and the alternation *)

Partials == {r \in running : prefilled[r] < length[r]}
Decodes == running \ Partials
HasPendingPrefill == waiting # <<>> \/ Partials # {}

\* Mutant: the wrapper is not installed.
HiddenNever == FALSE

\* admission(): nothing joins a partial prefill, nor a prefill the lifecycle still holds.
Hidden == Partials # {} \/ worker.requestId # NoRequest
SeatFree == Cardinality(Decodes) < Seats

\* dram_hold(): the head waits while its engine does not fit, unless nothing is left to free
\* DRAM; a reading that still counts requests finished since the last step is deferred.
Fits == Cardinality(open) < Rooms
DramHold ==
    /\ ~Hidden /\ SeatFree /\ waiting # <<>> /\ ~Fits
    /\ finishedIds # {} \/ Decodes # {}

Fresh == IF Hidden \/ ~SeatFree \/ waiting = <<>> \/ DramHold THEN {} ELSE {Head(waiting)}

\* Mutant: the empty prefill pass is executed, whoever decodes.
PassDiscardedNever == FALSE

\* The default mode discards a prefill pass that schedules nothing when a decode runs.
PassDiscarded == Fresh = {} /\ Partials = {} /\ Decodes # {}

\* carry_finished(): only a DRAM-held pass puts the ids it took back.
Carried == IF DramHold THEN finishedIds ELSE {}

\* Mutant: prefill first, whoever decodes.
YieldsDecodeNever == FALSE

\* One decode step after each chunk while somebody decodes beside a partial prefill.
YieldsDecode == Partials # {} /\ Decodes # {} /\ streak /\ credit < DecodeSteps

\* Ids the worker holds something for; a discarded pass that takes them hides their end.
Tracked == worker.bridges \cup {worker.requestId}
Unfinished == waiting # <<>> \/ running # {} \/ finishedIds # {}

Scheduled(new, cached, finished) ==
    /\ step' = [new |-> new, cached |-> cached, finished |-> finished]
    /\ finishedIds' = {}
    /\ phase' = "execute"
    /\ UNCHANGED <<length, rounds, route, ended, worker, open, pending, fault, shutdown>>

ScheduleDecode ==
    /\ phase = "between" /\ Unfinished
    /\ ~HasPendingPrefill \/ YieldsDecode
    /\ Scheduled({}, Decodes, finishedIds)
    /\ credit' = IF YieldsDecode THEN credit + 1 ELSE credit
    /\ lastChunk' = NoRequest
    /\ UNCHANGED <<waiting, running, prefilled, streak, dropped>>

SchedulePrefill ==
    /\ phase = "between" /\ HasPendingPrefill /\ ~YieldsDecode /\ ~PassDiscarded
    /\ Scheduled(Fresh, Partials, finishedIds)
    /\ waiting' = IF Fresh # {} THEN Tail(waiting) ELSE waiting
    /\ running' = running \cup Fresh
    /\ prefilled' = [r \in Request |-> prefilled[r] + (IF r \in Fresh \cup Partials THEN 1 ELSE 0)]
    /\ streak' = TRUE /\ credit' = 0
    /\ lastChunk' = IF Fresh \cup Partials = {} THEN NoRequest
                    ELSE CHOOSE r \in Request : r \in Fresh \cup Partials
    /\ UNCHANGED dropped

\* The prefill pass is thrown away and a decode-only pass is scheduled in its place.
ScheduleFallback ==
    /\ phase = "between" /\ HasPendingPrefill /\ ~YieldsDecode /\ PassDiscarded
    /\ Scheduled({}, Decodes, Carried)
    /\ dropped' = dropped \cup ((finishedIds \ Carried) \cap Tracked)
    /\ streak' = TRUE /\ credit' = 0 /\ lastChunk' = NoRequest
    /\ UNCHANGED <<waiting, running, prefilled>>

-----------------------------------------------------------------------------
(* FastServingLifecycle._execute: the finished requests, then the step itself *)

\* The loop over finished decoders and the two independent releases after it.
Remaining(w, done) == Without(w.decodingIds, done)

ReleasesDecoders(w, done) == w.decodingId \in done /\ Remaining(w, done) = <<>>
ReleasePrefill(w) == [w EXCEPT !.requestId = NoRequest, !.capture = NoCapture]
ReleaseDecoders(w) ==
    [w EXCEPT !.hook = FALSE, !.bridges = {}, !.decodingIds = <<>>, !.decodingId = NoRequest]

Detach(w, done) ==
    [w EXCEPT !.decodingIds = Remaining(w, done), !.bridges = @ \ done,
              !.decodingId = IF @ \in done THEN Last(Remaining(w, done)) ELSE @]

\* Mutant: one release for both sides, under an or.
SettleBoth(w, done) ==
    IF ReleasesDecoders(w, done) \/ w.requestId \in done THEN ReleasePrefill(ReleaseDecoders(w))
    ELSE IF Elements(w.decodingIds) \cap done = {} THEN w ELSE Detach(w, done)

Settle(w, done) ==
    LET decoders == IF ReleasesDecoders(w, done) THEN ReleaseDecoders(w)
                    ELSE IF Elements(w.decodingIds) \cap done = {} THEN w ELSE Detach(w, done)
    IN  IF w.requestId \in done THEN ReleasePrefill(decoders) ELSE decoders
Settled == Settle(worker, step.finished)

\* The bridges those releases close.
ClosedBySettling ==
    IF ReleasesDecoders(worker, step.finished) THEN worker.bridges
    ELSE worker.bridges \cap step.finished

\* A pending seed, or a quarantined request the scheduler never aborted.
Unexecutable == worker.prefillPending \/ (pending \ step.finished) \cap step.cached # {}

IsContinuation(w) ==
    /\ w.capture # NoCapture /\ w.requestId # NoRequest
    /\ w.capture < length[w.requestId]
    /\ step.new = {} /\ step.cached = {w.requestId}

\* FastWorkerHook._execute, and the sets ordered_tickets demands to be equal.
HookRoute(w) ==
    CASE step.cached \subseteq w.bridges /\ step.cached = {} -> "bookkeeping"
      [] step.cached \subseteq w.bridges /\ step.cached # {} ->
            IF step.cached = w.bridges THEN "decode" ELSE "refused"
      [] OTHER -> IF step.cached \cap w.bridges # {} THEN "refused" ELSE "stock"

Route(w) ==
    CASE IsContinuation(w) -> "chunk"
      [] ~IsContinuation(w) /\ w.hook /\ (step.new = {} \/ step.cached # {}) -> HookRoute(w)
      [] ~IsContinuation(w) /\ ~w.hook /\ step.new \cup step.cached = {} -> "bookkeeping"
      [] ~IsContinuation(w) /\ ~w.hook /\ step.new = {} /\ step.cached # {} -> "stock"
      [] OTHER -> IF w.requestId = NoRequest /\ Cardinality(step.new) = 1 /\ step.cached = {}
                  THEN "admit" ELSE "refused"

Executing(kinds) == phase = "execute" /\ ~Unexecutable /\ Route(Settled) \in kinds

ExecuteEnds(next) ==
    /\ phase' = next
    /\ pending' = pending \ step.finished
    /\ route' = Route(Settled)
    /\ open' = open \ ClosedBySettling
    /\ UNCHANGED <<waiting, running, length, prefilled, finishedIds, streak, credit, lastChunk,
                   dropped, step, ended, shutdown>>

\* _after_prefill_chunk: mid-prompt, or the native seed is due.
AfterChunk(w) ==
    LET covered == w.capture + 1
    IN  IF covered = length[w.requestId]
        THEN [w EXCEPT !.capture = covered, !.chunkInFlight = FALSE, !.prefillPending = TRUE]
        ELSE [w EXCEPT !.capture = covered, !.chunkInFlight = TRUE]

\* The admission of one fresh prompt; its sampling contract may already refuse it.
Admitted(w, r, refused) ==
    [w EXCEPT !.requestId = r, !.capture = 0, !.chunkInFlight = FALSE, !.refused = refused]

ExecuteAdmission ==
    /\ Executing({"admit"})
    /\ \E r \in step.new, refused \in BOOLEAN : worker' = AfterChunk(Admitted(Settled, r, refused))
    /\ ExecuteEnds("sample")
    /\ UNCHANGED <<rounds, fault>>

ContinuePrefill ==
    /\ Executing({"chunk"})
    /\ worker' = AfterChunk(Settled)
    /\ ExecuteEnds("sample")
    /\ UNCHANGED <<rounds, fault>>

ExecuteDecode ==
    /\ Executing({"decode"})
    /\ worker' = Settled
    /\ rounds' = [r \in Request |-> rounds[r] + (IF r \in step.cached THEN 1 ELSE 0)]
    /\ ExecuteEnds("update")
    /\ UNCHANGED fault

\* refuse_round: no engine serves the round, so abort_refused registers all its requests.
RefuseRound ==
    /\ Executing({"decode"})
    /\ worker' = Settled
    /\ phase' = "update" /\ route' = "roundRefused"
    /\ pending' = (pending \ step.finished) \cup step.cached
    /\ open' = open \ ClosedBySettling
    /\ UNCHANGED <<waiting, running, length, prefilled, rounds, finishedIds, streak, credit,
                   lastChunk, dropped, step, ended, fault, shutdown>>

\* original_execute: an empty step's bookkeeping, or work the lifecycle does not track.
ExecuteOriginal ==
    /\ Executing({"bookkeeping", "stock"})
    /\ worker' = Settled
    /\ ExecuteEnds("update")
    /\ UNCHANGED <<rounds, fault>>

\* _execute raises: before the releases for an unexecutable step, after them for the others.
ExecuteRefused ==
    /\ phase = "execute"
    /\ Unexecutable \/ Route(Settled) = "refused"
    /\ worker' = [(IF Unexecutable THEN worker ELSE Settled) EXCEPT !.failed = TRUE]
    /\ open' = IF Unexecutable THEN open ELSE open \ ClosedBySettling
    /\ phase' = "dead" /\ route' = "refused" /\ pending' = pending \ step.finished
    /\ UNCHANGED <<waiting, running, length, prefilled, rounds, finishedIds, streak, credit,
                   lastChunk, dropped, step, ended, fault, shutdown>>

\* The device, the runner or the window's ledger raises inside the step.
ExecuteFails ==
    /\ "device" \in Faults
    /\ Executing({"admit", "chunk", "decode"})
    /\ worker' = [(IF step.new = {} THEN Settled
                   ELSE Admitted(Settled, CHOOSE r \in step.new : TRUE, FALSE)) EXCEPT !.failed = TRUE]
    /\ fault' = fault \cup {"device"}
    /\ ExecuteEnds("dead")
    /\ UNCHANGED rounds

\* A finished request's own close raises: detach has already forgotten its bridge, while the
\* hook's close keeps the last one.
DetachFails ==
    /\ "close" \in Faults /\ phase = "execute" /\ ~Unexecutable
    /\ \E i \in DOMAIN worker.decodingIds :
        LET r == worker.decodingIds[i]
            before == {worker.decodingIds[j] : j \in 1..(i - 1)} \cap step.finished
            left == Remaining(worker, before \cup {r})
        IN  /\ r \in step.finished
            /\ worker' = [worker EXCEPT !.failed = TRUE, !.decodingIds = left,
                            !.bridges = IF left = <<>> THEN {r} ELSE @ \ (before \cup {r})]
            /\ open' = open \ before
    /\ fault' = fault \cup {"close"}
    /\ phase' = "dead" /\ pending' = pending \ step.finished
    /\ UNCHANGED <<waiting, running, length, prefilled, rounds, finishedIds, streak, credit,
                   lastChunk, dropped, step, route, ended, shutdown>>

-----------------------------------------------------------------------------
(* FastServingLifecycle._sample *)

Sampled(next) ==
    /\ phase' = next
    /\ UNCHANGED <<waiting, running, length, prefilled, rounds, finishedIds, streak, credit,
                   lastChunk, dropped, step, route, shutdown>>

\* A mid-prompt chunk has no token: the plugin's sampler drops its placeholder.
SampleMidPrompt ==
    /\ phase = "sample" /\ worker.chunkInFlight
    /\ Sampled("update")
    /\ UNCHANGED <<ended, worker, open, pending, fault>>

SeedDue == phase = "sample" /\ ~worker.chunkInFlight /\ worker.prefillPending

EndAtSeed == [ReleasePrefill(worker) EXCEPT !.prefillPending = FALSE, !.refused = FALSE]

\* The seed is an honoured EOS, whose branch leaves the refusal for the next admission to
\* overwrite, or exhausts max_tokens or the context: vLLM stops the request too.
SampleEnds ==
    /\ SeedDue
    /\ ended' = {worker.requestId}
    /\ \E refused \in {FALSE, worker.refused} : worker' = [EndAtSeed EXCEPT !.refused = refused]
    /\ Sampled("update")
    /\ UNCHANGED <<open, pending, fault>>

\* Refused at admission, by the DRAM backstop, or by another host check of the factory.
SampleQuarantined ==
    /\ SeedDue
    /\ pending' = pending \cup {worker.requestId} /\ worker' = EndAtSeed
    /\ Sampled("update")
    /\ UNCHANGED <<ended, open, fault>>

\* The bridge is built and joins the hook, which is created for the first one.
SampleBridged ==
    /\ SeedDue /\ ~worker.refused /\ Fits
    /\ worker' = [ReleasePrefill(worker) EXCEPT
                    !.prefillPending = FALSE, !.hook = TRUE,
                    !.bridges = @ \cup {worker.requestId},
                    !.decodingIds = Append(@, worker.requestId),
                    !.decodingId = worker.requestId]
    /\ open' = open \cup {worker.requestId}
    /\ Sampled("update")
    /\ UNCHANGED <<ended, pending, fault>>

\* The native sampler raises before the seed is acknowledged.
SamplerFails ==
    /\ "sampler" \in Faults /\ SeedDue
    /\ worker' = [worker EXCEPT !.failed = TRUE] /\ fault' = fault \cup {"sampler"}
    /\ Sampled("dead")
    /\ UNCHANGED <<ended, open, pending>>

\* The seed checks, the factory or the hook raises: the bridge is closed again.
BridgeFails ==
    /\ "bridge" \in Faults /\ SeedDue
    /\ worker' = [worker EXCEPT !.failed = TRUE, !.prefillPending = FALSE]
    /\ fault' = fault \cup {"bridge"}
    /\ Sampled("dead")
    /\ UNCHANGED <<ended, open, pending>>

-----------------------------------------------------------------------------
(* update_from_output, then abort_quarantined *)

Stoppable == IF route \in {"decode", "stock"} THEN step.cached ELSE {}
MustStop(r) == rounds[r] = MaxRounds

\* Mutant: nobody consumes the registry.
AbortedNobody(stopped) == {}

\* abort_quarantined ends what the update left of the registered requests.
Aborted(stopped) == pending \cap (running \ stopped)

Update ==
    /\ phase = "update"
    /\ \E stops \in SUBSET Stoppable :
        LET stopped == stops \cup ended
            gone == stopped \cup Aborted(stopped)
        IN  /\ \A r \in Stoppable : MustStop(r) => r \in stops
            /\ running' = running \ gone
            /\ finishedIds' = finishedIds \cup gone
    /\ pending' = {} /\ ended' = {} /\ step' = NoStep /\ route' = "none"
    /\ phase' = "between"
    /\ UNCHANGED <<waiting, length, prefilled, rounds, streak, credit, lastChunk, dropped,
                   worker, open, fault, shutdown>>

-----------------------------------------------------------------------------
(* attach_runtime's finally block: lifecycle.close(), then the scopes *)

\* Mutant: only the prefill side is released.
CloseLifecyclePrefillOnly ==
    /\ phase \in {"between", "dead"} /\ shutdown = "none"
    /\ ~worker.prefillPending
    /\ worker' = ReleasePrefill(worker) /\ open' = open
    /\ shutdown' = "done" /\ phase' = "closed"
    /\ UNCHANGED <<waiting, running, length, prefilled, rounds, finishedIds, streak, credit,
                   lastChunk, dropped, step, route, ended, pending, fault>>

CloseLifecycle ==
    /\ phase \in {"between", "dead"} /\ shutdown = "none"
    /\ ~worker.prefillPending
    /\ worker' = ReleasePrefill(ReleaseDecoders(worker)) /\ open' = open \ worker.bridges
    /\ shutdown' = "done" /\ phase' = "closed"
    /\ UNCHANGED <<waiting, running, length, prefilled, rounds, finishedIds, streak, credit,
                   lastChunk, dropped, step, route, ended, pending, fault>>

\* _release_request refuses a pending sampler, and the scopes behind it never close.
CloseRaises ==
    /\ phase \in {"between", "dead"} /\ shutdown = "none"
    /\ worker.prefillPending
    /\ shutdown' = "raised" /\ phase' = "closed"
    /\ UNCHANGED <<waiting, running, length, prefilled, rounds, finishedIds, streak, credit,
                   lastChunk, dropped, step, route, ended, worker, open, pending, fault>>

-----------------------------------------------------------------------------
Client == \E r \in Request : Arrive(r) \/ Abort(r)
Schedule == ScheduleDecode \/ SchedulePrefill \/ ScheduleFallback
Execute ==
    \/ ExecuteAdmission \/ ContinuePrefill \/ ExecuteDecode \/ RefuseRound
    \/ ExecuteOriginal \/ ExecuteRefused \/ ExecuteFails \/ DetachFails
Sample ==
    \/ SampleMidPrompt \/ SampleEnds \/ SampleQuarantined \/ SampleBridged
    \/ SamplerFails \/ BridgeFails
EngineStep == Schedule \/ Execute \/ Sample \/ Update
Next == Client \/ EngineStep \/ CloseLifecycle \/ CloseRaises

Spec == Init /\ [][Next]_vars

\* EngineCore's busy loop runs while there is anything to schedule.
FairSpec == Spec /\ WF_vars(EngineStep)

-----------------------------------------------------------------------------
(* Properties *)

Routes == {"none", "chunk", "admit", "decode", "bookkeeping", "stock", "refused", "roundRefused"}

\* Type invariant: the queue, the worker's record and the phases hold values of their types.
TypeOK ==
    /\ waiting \in Seq(Request) /\ running \subseteq Request /\ finishedIds \subseteq Request
    /\ length \in [Request -> 0..MaxChunks] /\ prefilled \in [Request -> 0..MaxChunks]
    /\ rounds \in [Request -> 0..MaxRounds]
    /\ streak \in BOOLEAN /\ credit \in 0..DecodeSteps
    /\ lastChunk \in Ids /\ dropped \subseteq Request
    /\ phase \in {"between", "execute", "sample", "update", "dead", "closed"}
    /\ step \in [new : SUBSET Request, cached : SUBSET Request, finished : SUBSET Request]
    /\ route \in Routes /\ ended \subseteq Request
    /\ worker \in [requestId : Ids, capture : -1..MaxChunks, decodingIds : Seq(Request),
                   decodingId : Ids, hook : BOOLEAN, bridges : SUBSET Request,
                   prefillPending : BOOLEAN, chunkInFlight : BOOLEAN, refused : BOOLEAN,
                   failed : BOOLEAN]
    /\ open \subseteq Request /\ pending \subseteq Request
    /\ fault \subseteq Faults /\ shutdown \in {"none", "done", "raised"}

Serving == phase # "dead" /\ shutdown = "none"

\* The lifecycle, the hook and ordered_tickets never refuse a step the scheduler builds from
\* legal arrivals, stops and aborts: the engine dies only of an exception of its environment,
\* or of a finished request nobody told it about.
EngineSurvives == worker.failed => fault # {} \/ dropped # {}

\* Between steps every decoding request the scheduler runs has its bridge, and every bridge
\* belongs to a decoding request or to one whose end the next step names - as long as no
\* discarded prefill pass has dropped a finished request: its bridge stays, and no step names it.
BridgesMatchDecodes ==
    Serving /\ phase = "between" /\ dropped = {}
        => /\ worker.bridges = Elements(worker.decodingIds)
           /\ Decodes \subseteq worker.bridges
           /\ worker.bridges \subseteq Decodes \cup finishedIds

\* A partial prompt owns the prefill gate, and its capture has recorded every chunk the
\* scheduler gave it: no chunk of a prompt ran outside the draft window's ledger.
CaptureFollowsPrompt ==
    Serving /\ phase = "between"
        => \A r \in Partials : worker.requestId = r /\ worker.capture = prefilled[r]

\* The two releases are independent: a step closes only bridges of requests that have finished,
\* and leaves the capture of an unfinished prompt alone.
ReleaseTouchesOnlyOwn ==
    [][ phase = "execute" /\ ~worker'.failed
            => /\ open \ open' \subseteq step.finished
               /\ worker.capture # NoCapture /\ worker.requestId \notin step.finished
                    => worker'.requestId = worker.requestId /\ worker'.capture >= worker.capture
      ]_vars

\* A chunk of a prompt never follows directly on its previous chunk while somebody decodes.
DecodersGetATurn ==
    [][ phase = "between" /\ phase' = "execute" /\ Decodes # {} /\ lastChunk # NoRequest
            => lastChunk' # lastChunk ]_vars

\* attach_runtime's close leaves nothing behind: whatever ended or aborted before, it does not
\* raise and it closes every bridge.  Two cases are excepted, as the code does not release there:
\* the native sampler raised and left its seed pending, or a bridge refused its own close.
ShutdownComplete ==
    /\ shutdown = "raised" => "sampler" \in fault
    /\ shutdown = "done" => open = {} \/ "close" \in fault

\* A prompt aborted mid-prefill frees the gate it held.
AbortFreesGate ==
    \A r \in Request :
        worker.requestId = r /\ r \notin Live ~> worker.requestId # r \/ ~Serving

\* Every request the engine accepts is served to its end, unless the engine dies or is closed.
EveryoneServed ==
    \A r \in Request : r \in Live ~> r \notin Live \/ ~Serving
=============================================================================
