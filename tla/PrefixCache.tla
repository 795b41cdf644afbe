---------------------------- MODULE PrefixCache ----------------------------
(***************************************************************************)
(* Conversation prefix reuse.  vLLM keeps the attention K/V of earlier     *)
(* prompts in hashed blocks; the prefix registry keeps the recurrent (GDN) *)
(* state the model saved at chunk boundaries.  A prompt may resume at Q    *)
(* only where both exist.  The scheduler graft trims vLLM's hit to such a  *)
(* Q and stages a grant, commits it if the step admits the request at Q,   *)
(* caps what a request publishes, and drops a checkpoint with its K/V; the *)
(* model restores the granted checkpoint, runs the remaining chunks and    *)
(* captures new checkpoints on the way.                                    *)
(*                                                                         *)
(* One unit of length is one K/V block; a block's hash stands for the      *)
(* whole prefix it ends (the hash chain is collision resistant), so a hash *)
(* IS that prefix.  A recurrent state is the sequence of tokens it was     *)
(* computed from.  Which free block vLLM takes is left open.               *)
(***************************************************************************)
EXTENDS Integers, FiniteSets, SequencesExt

CONSTANTS Workloads,  \* what clients may send, to which server: see PrefixAssumption
          None        \* no such thing

VARIABLES load,      \* the workload; it never changes
          pc,        \* "idle", inside "schedule", or in the "model" call of a step
          entries,   \* the checkpoints in the store, least recently used first
          ckpt,      \* the checkpoint objects: key, state, pins
          killed,    \* the kill switch has engaged and disabled the registry
          staged,    \* per request: the grant of this step's attempt
          committed, \* per request: the grant the model may use in this step
          sameStep,  \* same_step_blocks: the blocks published in this step
          cached,    \* vLLM: per hash, the blocks cached under it, first one first
          kv,        \* what each block holds, and which kernel wrote it
          table,     \* per request: the blocks it holds
          phase,     \* per request
          len,       \* per request: num_tokens
          start,     \* per request: the start_pos it was admitted at
          trying,    \* the request being admitted, with its trimmed hit
          row,       \* the prefill row the model runs, with its loop position
          scratch,   \* the GDN state of the model's prefill scratch
          slot       \* per request: the GDN state of its decode slot

Text == load.text            \* per request: its prompt followed by what it will generate
PromptLen == load.prompt     \* per request: num_prompt_tokens
Req == DOMAIN load.text
Excluded == load.excluded    \* requests without a cache_salt, and streaming sessions
Blocks == 1 .. load.blocks   \* vLLM's K/V blocks
Chunk == load.chunk          \* CHUNK: blocks per prefill chunk
Budget == load.budget        \* budget_bytes, in checkpoints
Sticky == load.sticky        \* sticky sessions, with the coordinator dropping a hit's last block
MidLoop == load.midLoop      \* the model declared mid-loop captures
Killable == load.killable    \* the operator may create the kill-switch file

ASSUME PrefixAssumption ==
    \A w \in Workloads :
        /\ IsFiniteSet(DOMAIN w.text) /\ w.excluded \subseteq DOMAIN w.text /\ w.prompt \in [DOMAIN w.text -> Nat]
        /\ \A r \in DOMAIN w.text : w.text[r] \in Seq(Nat) /\ w.prompt[r] \in 1 .. Len(w.text[r]) - 1
        /\ w.blocks \in Nat /\ w.chunk \in Nat \ {0} /\ w.budget \in Nat
        /\ {w.sticky, w.midLoop, w.killable} \subseteq BOOLEAN

Writers == {"chunk", "tail", "decode"}

ASSUME NoneAssumption ==  \* None is no grant, no contents of a block and no row
    /\ None \notin [q : Nat, plan : SUBSET Nat, ckpt : Nat] \cup [prefix : Seq(Nat), by : Writers]
    /\ \A w \in Workloads : None \notin [req : DOMAIN w.text, pos : Nat]

registry == <<entries, ckpt, killed, staged, committed, sameStep>>
kvcache == <<cached, kv, table>>
requests == <<phase, len, start, trying>>
model == <<row, scratch, slot>>
vars == <<load, pc, registry, kvcache, requests, model>>

Floor(n) == (n \div Chunk) * Chunk
Prefix(r, n) == SubSeq(Text[r], 1, n)
Hashes == UNION {{Prefix(r, n) : n \in 1 .. Len(Text[r])} : r \in Req}
Serials == 1 .. Budget + Cardinality(Req) + 1
NoCkpt == [key |-> None, gdn |-> None, pins |-> 0]
FreeBlocks == Blocks \ UNION {ToSet(table[r]) : r \in Req}
Admitted == {r \in Req : phase[r] = "admitted"}

----------------------------------------------------------------------------
(* The checkpoint store. *)

EntryFor(k) == {s \in ToSet(entries) : ckpt[s].key = k}

InOrder(S) == [i \in 1 .. Cardinality(S) |-> CHOOSE b \in S : Cardinality({c \in S : c <= b}) = i]
Without(es, S) ==
    LET kept == {i \in DOMAIN es : es[i] \notin S}
    IN  [i \in 1 .. Cardinality(kept) |-> es[InOrder(kept)[i]]]

(* Mutant: the budget counts and evicts pinned checkpoints too.            *)
EnforceDropsPinned(es, objects) ==
    SubSeq(es, IF Len(es) > Budget THEN Len(es) - Budget + 1 ELSE 1, Len(es))

(* _enforce_budget: evict the least recently used unpinned checkpoints     *)
(* until the store fits.                                                   *)
EnforceBudget(es, objects) ==
    LET unpinned == {i \in DOMAIN es : objects[es[i]].pins = 0}
        oldest(i) == Cardinality({j \in unpinned : j <= i})
    IN  Without(es, {es[i] : i \in {j \in unpinned : oldest(j) <= Len(es) - Budget}})

(* A new Checkpoint is a new object: not one in the store or in a grant. *)
Referenced ==
    ToSet(entries) \cup UNION {{g[r].ckpt : r \in {x \in Req : g[x] # None}} : g \in {staged, committed}}
NewSerial == CHOOSE s \in Serials \ Referenced : \A t \in Serials \ Referenced : s <= t

(* put: a pinned checkpoint of the same prefix stays and becomes the most  *)
(* recently used; any other is replaced.                                   *)
Put(k, state) ==
    IF killed \/ Budget = 0 THEN UNCHANGED <<entries, ckpt>>
    ELSE LET old == EntryFor(k)
         IN  IF \E s \in old : ckpt[s].pins > 0
             THEN /\ entries' = Without(entries, old) \o SetToSeq(old)
                  /\ UNCHANGED ckpt
             ELSE /\ ckpt' = [ckpt EXCEPT ![NewSerial] = [key |-> k, gdn |-> state, pins |-> 0]]
                  /\ entries' = EnforceBudget(Append(Without(entries, old), NewSerial), ckpt')

Unpinned(objects, grants) ==
    [s \in Serials |-> [objects[s] EXCEPT !.pins = @ - Cardinality({r \in Req : grants[r] # None /\ grants[r].ckpt = s})]]

----------------------------------------------------------------------------
(* vLLM's hit, and the trim. *)

(* vLLM: the longest chain of cached blocks short of the whole prompt, one *)
(* block less where the coordinator drops the last.                        *)
Hit(r) ==
    LET chains == {n \in 0 .. len[r] - 1 : \A i \in 1 .. n : cached[Prefix(r, i)] # <<>>}
        longest == CHOOSE n \in chains : \A k \in chains : k <= n
    IN  IF Sticky /\ longest > 0 THEN longest - 1 ELSE longest

(* vLLM serves the first block cached for a hash. *)
HitBlocks(r, n) == [i \in 1 .. n |-> Head(cached[Prefix(r, i)])]

(* A resume point: a chunk boundary within the hit whose checkpoint is in  *)
(* the store, with no block below it published in this step.  Sticky       *)
(* sessions also keep the last chunk of the prompt for this prefill.       *)
ResumePoints(r, h) ==
    {q \in 1 .. h :
        /\ q % Chunk = 0
        /\ Sticky => q <= Floor(PromptLen[r] - Chunk)
        /\ \A i \in 1 .. q : HitBlocks(r, h)[i] \notin sameStep
        /\ EntryFor(Prefix(r, q)) # {}}

(* plan: the boundaries to capture.  The prompt's own boundary (a chunk    *)
(* lower for sticky sessions) and the end of vLLM's hit where the trim     *)
(* lost at least a chunk of it; nothing the cap will not publish.          *)
Boundaries(r, h, q) ==
    LET prompt == Floor(PromptLen[r])
        own == IF Sticky THEN prompt - Chunk ELSE prompt
    IN  {p \in {own, Floor(h)} : /\ p = own => p > q
                                 /\ p # own => p - q >= Chunk
                                 /\ p <= prompt /\ p <= Floor(len[r])}

Plan(r, h, q) == {p \in Boundaries(r, h, q) : MidLoop \/ p = Floor(len[r])}

Grant(r, h, q) ==
    [q |-> q, plan |-> Plan(r, h, q),
     ckpt |-> IF q = 0 THEN None ELSE CHOOSE s \in EntryFor(Prefix(r, q)) : TRUE]

----------------------------------------------------------------------------
(* schedule() *)

(* begin_step: the last step's grants end and their pins with them. *)
BeginStep ==
    /\ pc = "idle"
    /\ pc' = "schedule"
    /\ LET objects == Unpinned(ckpt, committed)
       IN  /\ entries' = EnforceBudget(entries, objects)
           /\ ckpt' = [s \in Serials |-> IF s \in ToSet(entries') THEN objects[s] ELSE NoCkpt]
    /\ committed' = [r \in Req |-> None]
    /\ staged' = [r \in Req |-> None]
    /\ sameStep' = {}
    /\ UNCHANGED <<killed, kvcache, requests, model>>

(* Mutant: the kill switch also drops the grants this step has staged.     *)
TrimKillsGrants(r) ==
    /\ pc = "schedule" /\ trying = None
    /\ phase[r] \in {"waiting", "preempted"}
    /\ \E engage \in {FALSE} \cup IF Killable /\ r \notin Excluded THEN {TRUE} ELSE {} :
           killed' = (killed \/ engage)
    /\ entries' = IF killed' /\ ~killed THEN <<>> ELSE entries
    /\ IF r \in Excluded \/ killed'
       THEN /\ staged' = [x \in Req |-> IF killed' THEN None ELSE staged[x]]
            /\ trying' = [req |-> r, hit |-> <<>>]
       ELSE LET h == Hit(r)
                points == {0} \cup ResumePoints(r, h)
                q == CHOOSE p \in points : \A k \in points : k <= p
            IN  /\ staged' = [staged EXCEPT ![r] =
                       IF q > 0 \/ Boundaries(r, h, q) # {} THEN Grant(r, h, q) ELSE None]
                /\ trying' = [req |-> r, hit |-> HitBlocks(r, q)]
    /\ UNCHANGED <<pc, ckpt, committed, sameStep, kvcache, phase, len, start, model>>

(* get_computed_blocks, trimmed.  The kill switch is polled on the way:    *)
(* the first poll that finds the file clears the store for good, but a     *)
(* grant staged earlier in this step keeps its checkpoint.                 *)
Trim(r) ==
    /\ pc = "schedule" /\ trying = None
    /\ phase[r] \in {"waiting", "preempted"}
    /\ \E engage \in {FALSE} \cup IF Killable /\ r \notin Excluded THEN {TRUE} ELSE {} :
           killed' = (killed \/ engage)
    /\ entries' = IF killed' /\ ~killed THEN <<>> ELSE entries
    /\ IF r \in Excluded \/ killed'
       THEN /\ staged' = [staged EXCEPT ![r] = None]
            /\ trying' = [req |-> r, hit |-> <<>>]
       ELSE LET h == Hit(r)
                points == {0} \cup ResumePoints(r, h)
                q == CHOOSE p \in points : \A k \in points : k <= p
            IN  /\ staged' = [staged EXCEPT ![r] =
                       IF q > 0 \/ Boundaries(r, h, q) # {} THEN Grant(r, h, q) ELSE None]
                /\ trying' = [req |-> r, hit |-> HitBlocks(r, q)]
    /\ UNCHANGED <<pc, ckpt, committed, sameStep, kvcache, phase, len, start, model>>

(* vLLM drops the attempt after the hit was taken: out of token budget, or *)
(* no room for the blocks.                                                 *)
Discard ==
    /\ trying # None
    /\ trying' = None
    /\ UNCHANGED <<pc, registry, kvcache, phase, len, start, model>>

(* Mutant: the checkpoint outlives its K/V.                                *)
UncoupledEviction(S) == entries

(* The blocks of S are taken for new contents: their hashes go, and with   *)
(* the last block of a hash goes the checkpoint keyed by it.               *)
Evicted(S) == [k \in Hashes |-> Without(cached[k], S)]
Coupled(S) ==
    Without(entries, {s \in ToSet(entries) : /\ cached[ckpt[s].key] # <<>>
                                              /\ Evicted(S)[ckpt[s].key] = <<>>})

(* Mutant: whatever is computed is published.                              *)
NoCap(r) == IF r \in Excluded \/ killed THEN 0 ELSE Len(Text[r])

(* cap: of n computed tokens, only whole chunks of the prompt are          *)
(* published, and nothing of an excluded request or once killed.  vLLM     *)
(* skips the blocks that are already cached under their hash, the first    *)
(* `known` of the request.                                                 *)
CapLimit(r) == IF r \in Excluded \/ killed THEN 0 ELSE Floor(PromptLen[r])

Publish(c, r, blocks, known, n) ==
    LET new == {i \in known + 1 .. n : i <= CapLimit(r)}
    IN  [k \in Hashes |-> IF \E i \in new : Prefix(r, i) = k THEN Append(c[k], blocks[Len(k)]) ELSE c[k]]
Published(r, blocks, known, n) == {blocks[i] : i \in {j \in known + 1 .. n : j <= CapLimit(r)}}

(* allocate_slots: the hit's blocks are shared, the rest of the request    *)
(* gets free blocks, and the prompt's are published before they are        *)
(* written.                                                                *)
Admit ==
    /\ trying # None
    /\ LET r == trying.req
           q == Len(trying.hit)
       IN  /\ \E S \in SUBSET (FreeBlocks \ ToSet(trying.hit)) :
                  /\ Cardinality(S) = len[r] - q
                  /\ table' = [table EXCEPT ![r] = trying.hit \o InOrder(S)]
                  /\ entries' = Coupled(S)
                  /\ cached' = Publish(Evicted(S), r, table'[r], q, len[r])
                  /\ sameStep' = sameStep \cup Published(r, table'[r], q, len[r])
           /\ phase' = [phase EXCEPT ![r] = "admitted"]
           /\ start' = [start EXCEPT ![r] = q]
    /\ trying' = None
    /\ UNCHANGED <<pc, ckpt, killed, staged, committed, kv, len, model>>

(* A running request computes its next token: a new block, written by the  *)
(* decode kernel.  Only a step that admits nobody decodes.                 *)
Decode(r) ==
    /\ pc = "schedule" /\ trying = None /\ Admitted = {}
    /\ phase[r] = "running" /\ len[r] < Len(Text[r])
    /\ \E b \in FreeBlocks :
           /\ table' = [table EXCEPT ![r] = Append(@, b)]
           /\ entries' = Coupled({b})
           /\ cached' = Publish(Evicted({b}), r, table'[r], len[r] - 1, len[r])
           /\ kv' = [kv EXCEPT ![b] = [prefix |-> Prefix(r, len[r]), by |-> "decode"]]
    /\ slot' = [slot EXCEPT ![r] = Append(@, Text[r][len[r]])]
    /\ len' = [len EXCEPT ![r] = @ + 1]
    /\ UNCHANGED <<pc, ckpt, killed, staged, committed, sameStep, phase, start, trying, row, scratch>>

(* vLLM preempts a running request when no block is free; it will prefill  *)
(* its prompt and output again.                                            *)
Preempt(r) ==
    /\ pc = "schedule" /\ trying = None /\ Admitted = {}
    /\ phase[r] = "running" /\ len[r] < Len(Text[r]) /\ FreeBlocks = {}
    /\ phase' = [phase EXCEPT ![r] = "preempted"]
    /\ table' = [table EXCEPT ![r] = <<>>]
    /\ slot' = [slot EXCEPT ![r] = None]
    /\ start' = [start EXCEPT ![r] = 0]
    /\ UNCHANGED <<pc, registry, cached, kv, len, trying, row, scratch>>

(* commit: of the staged grants, those whose request this step admits at   *)
(* their Q are committed, and their checkpoints pinned and touched.        *)
Commits(r) == staged[r] # None /\ phase[r] = "admitted" /\ start[r] = staged[r].q

Commit ==
    /\ pc = "schedule" /\ trying = None
    /\ pc' = "model"
    /\ committed' = [r \in Req |-> IF Commits(r) THEN staged[r] ELSE None]
    /\ staged' = [r \in Req |-> None]
    /\ ckpt' = [s \in Serials |-> [ckpt[s] EXCEPT !.pins =
                   @ + Cardinality({r \in Req : committed'[r] # None /\ committed'[r].ckpt = s})]]
    /\ LET granted == {committed'[r].ckpt : r \in {x \in Req : committed'[x] # None}}
           touched == {s \in ToSet(entries) : \E g \in granted \cap Serials : ckpt[s].key = ckpt[g].key}
       IN  \E order \in SetToSeqs(touched) : entries' = Without(entries, touched) \o order
    /\ UNCHANGED <<killed, sameStep, kvcache, requests, model>>

----------------------------------------------------------------------------
(* The model's prefill. *)

(* _granted_resume: sticky sessions leave the draft window, the prompt's   *)
(* last chunk, to this prefill.                                            *)
BelowWindow(r, q) == Sticky => q <= PromptLen[r] - Chunk

(* _qwen_prefix_row: what every row must satisfy before any row runs; a    *)
(* refusal stops the engine.                                               *)
RowAccepted(r) ==
    LET g == committed[r]
    IN  IF g = None THEN start[r] = 0
        ELSE /\ g.q = start[r]
             /\ g.q > 0 => /\ g.q % Chunk = 0
                           /\ BelowWindow(r, g.q)
                           /\ g.ckpt \in Serials
                           /\ ckpt[g.ckpt].key = Prefix(r, g.q)

(* A row restores its checkpoint into the scratch, or resets the scratch. *)
StartRow(r) ==
    /\ pc = "model" /\ row = None /\ r \in Admitted
    /\ \A x \in Admitted : RowAccepted(x)
    /\ row' = [req |-> r, pos |-> start[r]]
    /\ scratch' = IF start[r] = 0 THEN <<>> ELSE ckpt[committed[r].ckpt].gdn
    /\ UNCHANGED <<pc, registry, kvcache, requests, slot>>

Written(r, from, to, by) ==
    [b \in Blocks |-> IF \E i \in from + 1 .. to : table[r][i] = b
                      THEN [prefix |-> Prefix(r, CHOOSE i \in from + 1 .. to : table[r][i] = b), by |-> by]
                      ELSE kv[b]]

(* capture: the state after exactly pos tokens, where the grant plans it. *)
Capture(r, pos, state) ==
    /\ committed[r] # None /\ pos \in committed[r].plan
    /\ Put(Prefix(r, pos), state)

(* One chunk of the loop, and the capture planned at its end, if any: a    *)
(* capture may fail, which loses the checkpoint and nothing else.          *)
RunChunk ==
    /\ row # None
    /\ LET r == row.req
           end == row.pos + Chunk
       IN  /\ end <= len[r]
           /\ kv' = Written(r, row.pos, end, "chunk")
           /\ scratch' = scratch \o SubSeq(Text[r], row.pos + 1, end)
           /\ row' = [row EXCEPT !.pos = end]
           /\ Capture(r, end, scratch') \/ UNCHANGED <<entries, ckpt>>
    /\ UNCHANGED <<pc, killed, staged, committed, sameStep, cached, table, requests, slot>>

(* The tail behind the last whole chunk; the row's state goes to its       *)
(* decode slot and its first token is sampled.                             *)
RunTail ==
    /\ row # None
    /\ LET r == row.req
       IN  /\ row.pos + Chunk > len[r]
           /\ kv' = Written(r, row.pos, len[r], "tail")
           /\ scratch' = scratch \o SubSeq(Text[r], row.pos + 1, len[r])
           /\ slot' = [slot EXCEPT ![r] = scratch']
           /\ phase' = [phase EXCEPT ![r] = "running"]
           /\ len' = [len EXCEPT ![r] = @ + 1]
    /\ row' = None
    /\ UNCHANGED <<pc, registry, cached, table, start, trying>>

EndStep ==
    /\ pc = "model" /\ row = None /\ Admitted = {}
    /\ pc' = "idle"
    /\ UNCHANGED <<registry, kvcache, requests, model>>

----------------------------------------------------------------------------
(* Between steps. *)

(* _free_request: a request finished or was aborted. *)
Forgotten(r) == [x \in Req |-> IF x = r THEN committed[x] ELSE None]

FreeRequest(r) ==
    /\ pc = "idle"
    /\ phase[r] # "done"
    /\ phase' = [phase EXCEPT ![r] = "done"]
    /\ ckpt' = Unpinned(ckpt, Forgotten(r))
    /\ committed' = [committed EXCEPT ![r] = None]
    /\ staged' = [staged EXCEPT ![r] = None]
    /\ table' = [table EXCEPT ![r] = <<>>]
    /\ slot' = [slot EXCEPT ![r] = None]
    /\ start' = [start EXCEPT ![r] = 0]
    /\ len' = [len EXCEPT ![r] = PromptLen[r]]
    /\ UNCHANGED <<pc, entries, killed, sameStep, cached, kv, trying, row, scratch>>

(* reset_prefix_cache: vLLM resets only when no request holds a block, and *)
(* the registry is cleared only then.                                      *)
ResetPrefixCache ==
    /\ pc = "idle"
    /\ FreeBlocks = Blocks
    /\ cached' = [k \in Hashes |-> <<>>]
    /\ entries' = <<>>
    /\ UNCHANGED <<pc, ckpt, killed, staged, committed, sameStep, kv, table, requests, model>>

Init ==
    /\ load \in Workloads
    /\ pc = "idle"
    /\ entries = <<>> /\ ckpt = [s \in Serials |-> NoCkpt]
    /\ killed = FALSE
    /\ staged = [r \in Req |-> None] /\ committed = [r \in Req |-> None]
    /\ sameStep = {}
    /\ cached = [k \in Hashes |-> <<>>] /\ kv = [b \in Blocks |-> None]
    /\ table = [r \in Req |-> <<>>]
    /\ phase = [r \in Req |-> "waiting"] /\ len = PromptLen
    /\ start = [r \in Req |-> 0] /\ trying = None
    /\ row = None /\ scratch = <<>> /\ slot = [r \in Req |-> None]

Step ==
    \/ BeginStep \/ Discard \/ Admit \/ Commit
    \/ RunChunk \/ RunTail \/ EndStep \/ ResetPrefixCache
    \/ \E r \in Req : Trim(r) \/ Decode(r) \/ Preempt(r) \/ StartRow(r) \/ FreeRequest(r)

Next == Step /\ UNCHANGED load

Spec == Init /\ [][Next]_vars

----------------------------------------------------------------------------
(* Properties. *)

Grants == [q : Nat, plan : SUBSET Nat, ckpt : Serials \cup {None}] \cup {None}
(* Every variable has its shape, and no block is twice in a request. *)
TypeOK ==
    /\ pc \in {"idle", "schedule", "model"}
    /\ ToSet(entries) \subseteq Serials /\ IsInjective(entries)
    /\ \A s \in Serials : ckpt[s].key \in Hashes \cup {None} /\ ckpt[s].pins \in Nat
    /\ killed \in BOOLEAN
    /\ \A r \in Req : staged[r] \in Grants /\ committed[r] \in Grants
    /\ sameStep \subseteq Blocks
    /\ \A k \in Hashes : ToSet(cached[k]) \subseteq Blocks /\ IsInjective(cached[k])
    /\ \A b \in Blocks : kv[b] = None \/ (kv[b].prefix \in Hashes /\ kv[b].by \in Writers)
    /\ \A r \in Req : /\ ToSet(table[r]) \subseteq Blocks /\ IsInjective(table[r])
                      /\ phase[r] \in {"waiting", "admitted", "running", "preempted", "done"}
                      /\ len[r] \in PromptLen[r] .. Len(Text[r])
                      /\ start[r] \in 0 .. Len(Text[r])

(* A resumed prefill equals a cold one: a running request's slot holds the *)
(* recurrent state of exactly its own tokens, every block it holds is the  *)
(* K/V of its own prefix, and every block it was granted instead of        *)
(* computing was written by a whole prefill chunk.                         *)
ResumeIsExact ==
    \A r \in Req : phase[r] = "running" =>
        /\ slot[r] = Prefix(r, len[r] - 1)
        /\ \A i \in 1 .. Len(table[r]) : kv[table[r][i]] # None /\ kv[table[r][i]].prefix = Prefix(r, i)
        /\ \A i \in 1 .. start[r] : kv[table[r][i]].by = "chunk"

(* The engine never stops on a row: whatever was discarded, preempted,     *)
(* evicted, killed or freed, every request a step admits above 0 has the   *)
(* committed grant of that very position.                                  *)
RowsAccepted == pc = "model" => \A r \in Admitted : RowAccepted(r)

(* Neither the budget, the captures of other rows, the eviction of K/V nor *)
(* a reset takes a checkpoint out of the store while a grant of the step   *)
(* uses it; only the kill switch may.                                      *)
GrantedStayStored ==
    \A r \in Req : committed[r] # None /\ committed[r].q > 0 /\ ~killed =>
        committed[r].ckpt \in ToSet(entries)

(* The store is a subset of the cached K/V: a checkpoint whose block vLLM  *)
(* gave away is gone as well.                                              *)
StoredHaveKv == \A s \in ToSet(entries) : cached[ckpt[s].key] # <<>>

=============================================================================
