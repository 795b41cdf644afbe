------------------------- MODULE RequestTransactionProofs -------------------------
(* Theorems about RequestTransaction, for every vocabulary, budget and set of widths. *)
EXTENDS RequestTransaction, SequenceTheorems, WellFoundedInduction, TLAPS

\* A function on 1..n is a sequence of length n (the proposals and predictions the
\* drafter and the verifier return are enumerated as functions).
LEMMA FunctionIsSequence ==
    ASSUME NEW S, NEW n \in Nat, NEW f \in [1..n -> S]
    PROVE  f \in Seq(S) /\ Len(f) = n
BY SeqDef, LenProperties, SMT

\* Frontiers are natural numbers and only ever advance by a prefix length.
LEMMA NatSum ==
    ASSUME NEW a \in Nat, NEW b \in Nat
    PROVE  a + b \in Nat
OBVIOUS

\* The ticket GreedySession.propose builds is a ticket, and a session with a seed keeps it.
LEMMA ProposeTyped ==
    ASSUME session \in SessionType, NEW limit \in Nat, NEW proposals \in Seq(Token),
           Propose(limit, proposals), session.seed \in Token
    PROVE  session' \in SessionType /\ session'.phase = "pending" /\ session'.seed \in Token
<1> PICK rows \in Widths :
        /\ Widest(Widths, Min2(limit, Len(proposals) + 1), rows)
        /\ session' = [session EXCEPT !.epoch = @ + 1, !.phase = "pending",
               !.pending = [epoch |-> session.epoch + 1, position |-> session.position,
                            tokens |-> <<session.seed>> \o SubSeq(proposals, 1, rows - 1)]]
    BY Zenon DEF Propose
<1>1. rows - 1 <= Len(proposals) /\ rows \in Nat \ {0}
    BY WidthAssumption DEF Widest, Min2
<1>2. SubSeq(proposals, 1, rows - 1) \in Seq(Token)
    BY <1>1, SubSeqProperties, SMT
<1>3. <<session.seed>> \o SubSeq(proposals, 1, rows - 1) \in Seq(Token)
    BY <1>2, ConcatProperties, SMT
<1> DEFINE ticket == [epoch |-> session.epoch + 1, position |-> session.position,
                      tokens |-> <<session.seed>> \o SubSeq(proposals, 1, rows - 1)]
<1>4. ticket \in Ticket /\ session.epoch + 1 \in Nat
    BY <1>3 DEF Ticket, SessionType
<1>5. session' = [session EXCEPT !.epoch = session.epoch + 1, !.phase = "pending", !.pending = ticket]
    OBVIOUS
<1> HIDE DEF ticket
<1>6. session' \in SessionType
    BY <1>4, <1>5, Zenon DEF SessionType
<1>7. session'.phase = "pending" /\ session'.seed = session.seed
    BY <1>5 DEF SessionType
<1> QED BY <1>6, <1>7

\* The inductive form of the type invariant.
TypeInv == TypeOK /\ Shape

\* A decision of select_prefix over typed rows is typed, and an open one names its seed.
LEMMA SelectPrefixTyped ==
    ASSUME NEW proposals \in Seq(Token), NEW predictions \in Seq(Token),
           NEW accepted \in 0..Len(proposals), Len(proposals) < Len(predictions)
    PROVE  LET d == SelectPrefix(proposals, predictions, accepted)
           IN /\ d \in Decision /\ d.kind = "commit"
              /\ ~d.finished => d.next \in Token
              /\ d.prefix <= Len(proposals) + 1
<1> DEFINE head == SubSeq(proposals, 1, accepted)
           correction == predictions[accepted + 1]
<1>1. head \in Seq(Token)
    BY SubSeqProperties, SMT
<1>2. correction \in Token
    BY ElementOfSeq, SMT
<1>3. head \o <<correction>> \in Seq(Token)
    BY <1>1, <1>2, ConcatProperties, SMT
<1>4. accepted \in Nat /\ accepted + 1 \in Nat
    OBVIOUS
<1>5. CASE accepted > 0 /\ proposals[accepted] \in Eos
    <2>1. SelectPrefix(proposals, predictions, accepted) =
            [kind |-> "commit", prefix |-> accepted, emitted |-> head, next |-> NoToken, finished |-> TRUE]
        BY <1>5 DEF SelectPrefix
    <2> HIDE DEF head
    <2> QED BY <2>1, <1>1, <1>4 DEF Decision
<1>6. CASE ~(accepted > 0 /\ proposals[accepted] \in Eos)
    <2> DEFINE n == IF correction \in Eos THEN NoToken ELSE correction
               f == correction \in Eos
    <2>1. SelectPrefix(proposals, predictions, accepted) =
            [kind |-> "commit", prefix |-> accepted + 1, emitted |-> head \o <<correction>>,
             next |-> n, finished |-> f]
        BY <1>6 DEF SelectPrefix
    <2>2. n \in Token \cup {NoToken} /\ f \in BOOLEAN /\ (~f => n \in Token)
        BY <1>2
    <2>3. SelectPrefix(proposals, predictions, accepted) \in Decision
        <3> DEFINE k == accepted + 1
                   e == head \o <<correction>>
        <3>1. k \in Nat /\ e \in Seq(Token) /\ n \in Token \cup {NoToken} /\ f \in BOOLEAN
            BY <1>3, <1>4, <2>2
        <3>2. SelectPrefix(proposals, predictions, accepted) =
                [kind |-> "commit", prefix |-> k, emitted |-> e, next |-> n, finished |-> f]
            BY <2>1
        <3> HIDE DEF n, f, k, e
        <3> QED BY <3>1, <3>2 DEF Decision
    <2>4. SelectPrefix(proposals, predictions, accepted).kind = "commit"
        BY <2>1
    <2>5. /\ SelectPrefix(proposals, predictions, accepted).finished = f
          /\ SelectPrefix(proposals, predictions, accepted).next = n
          /\ SelectPrefix(proposals, predictions, accepted).prefix = accepted + 1
        <3> HIDE DEF head, correction, n, f
        <3> QED BY <2>1
    <2>6. accepted + 1 <= Len(proposals) + 1
        BY LenProperties
    <2>7. SelectPrefix(proposals, predictions, accepted).prefix <= Len(proposals) + 1
        BY <2>5, <2>6, Zenon
    <2>8. ~SelectPrefix(proposals, predictions, accepted).finished
            => SelectPrefix(proposals, predictions, accepted).next \in Token
        <3> HIDE DEF n, f
        <3> QED BY <2>2, <2>5, Zenon
    <2> HIDE DEF head, correction, n, f
    <2> QED BY <2>3, <2>4, <2>7, <2>8, Zenon
<1> QED BY <1>5, <1>6

\* Every reachable state is typed: each phase is one its class assigns, tickets and
\* streams hold vocabulary tokens only, and the frame's block and decision fit each other.
LEMMA TypeStep == TypeInv /\ [Next]_vars => TypeInv'
<1> SUFFICES ASSUME TypeOK, Shape, [Next]_vars PROVE TypeOK' /\ Shape'
    BY DEF TypeInv
<1> USE TokenAssumption, BudgetAssumption, WidthAssumption, BoundAssumption
<1>0. /\ NoTicket \in Ticket /\ NoDecision \in Decision /\ NoOutput \in Output /\ NoFrame \in FrameType
      /\ NoFrame.decision = NoDecision /\ NoFrame.output = NoOutput /\ NoDecision.kind = "none"
    <2>1. NoTicket \in Ticket BY EmptySeq DEF NoTicket, Ticket
    <2>2. NoDecision \in Decision BY EmptySeq DEF NoDecision, Decision
    <2>3. NoOutput \in Output BY EmptySeq DEF NoOutput, Output
    <2>4. NoFrame \in FrameType BY <2>2, <2>3, EmptySeq DEF NoFrame, FrameType
    <2>5. /\ NoFrame.decision = NoDecision /\ NoFrame.output = NoOutput /\ NoDecision.kind = "none"
        BY DEF NoFrame, NoDecision
    <2> QED BY <2>1, <2>2, <2>3, <2>4, <2>5
<1>a. /\ session.pending \in Ticket /\ session.pending.tokens \in Seq(Token)
      /\ session.emitted \in Seq(Token) /\ session.position \in Nat /\ session.epoch \in Nat
      /\ session.pending.position \in Nat
      /\ frame.predictions \in Seq(Token) /\ frame.decision \in Decision /\ frame.output \in Output
      /\ engine.consumed \in Seq(Token) /\ runner.output \in Seq(Token)
      /\ engine.position \in Nat /\ runtime.position \in Nat
      /\ drafter.position \in Nat /\ drafter.pending \in Nat
    BY DEF TypeOK, SessionType, FrameType, EngineType, Ticket
<1>b. /\ frame.decision.prefix \in Nat /\ frame.decision.emitted \in Seq(Token)
      /\ frame.output.tokens \in Seq(Token) /\ frame.output.position \in Nat
      /\ frame.decision.next \in Token \cup {NoToken} /\ frame.decision.finished \in BOOLEAN
    BY <1>a DEF Decision, Output
<1>c. /\ session.epoch \in Nat /\ engine.position \in Nat /\ drafter.position \in Nat
      /\ drafter.pending \in Nat /\ frame.decision.prefix \in Nat
    BY <1>a, <1>b
<1>1. CASE DraftFromLookup
    <2>0. PICK rows \in Widths : \E n \in 0..(Min2(rows, Remaining) - 1) :
               \E proposals \in [1..n -> Token] : Propose(Min2(rows, Remaining), proposals)
        BY <1>1 DEF DraftFromLookup
    <2>n. PICK n \in 0..(Min2(rows, Remaining) - 1) :
               \E proposals \in [1..n -> Token] : Propose(Min2(rows, Remaining), proposals)
        BY <2>0
    <2>1. PICK proposals \in [1..n -> Token] : Propose(Min2(rows, Remaining), proposals)
        BY <2>n
    <2>2. Min2(rows, Remaining) \in Nat /\ n \in Nat /\ proposals \in Seq(Token)
        BY <1>a, <2>1, FunctionIsSequence DEF Min2, Remaining
    <2>3. session' \in SessionType /\ session'.phase = "pending" /\ session'.seed \in Token
        <3>1. session.seed \in Token BY <1>1 DEF Shape, DraftFromLookup, MayDraft
        <3> QED BY <2>1, <2>2, <3>1, ProposeTyped DEF TypeOK
    <2>4. ~request'.busy
        BY <1>1 DEF DraftFromLookup, MayDraft, Settled
    <2> QED BY <1>1, <2>3, <2>4 DEF DraftFromLookup, TypeOK, Shape
<1>2. CASE DraftFromNeural
    <2> DEFINE count(rows) == Min2(Min2(rows, Remaining) - 1, MaxDrafts)
    <2>1. PICK rows \in Widths : count(rows) >= 1 /\
               \E proposals \in [1..count(rows) -> Token] : Propose(Min2(rows, Remaining), proposals)
        BY <1>2 DEF DraftFromNeural
    <2>2. PICK proposals \in [1..count(rows) -> Token] : Propose(Min2(rows, Remaining), proposals)
        BY <2>1
    <2>a. Remaining \in Int /\ rows \in Nat
        BY <1>a, LenProperties DEF Remaining
    <2>b. Min2(rows, Remaining) \in Int /\ (count(rows) >= 1 => Min2(rows, Remaining) >= 2)
        BY <2>a DEF Min2
    <2>3. Min2(rows, Remaining) \in Nat /\ count(rows) \in Nat
        <3> DEFINE l == Min2(rows, Remaining)
        <3>1. l \in Int /\ l >= 2 BY <2>1, <2>b
        <3> HIDE DEF l
        <3> QED BY <3>1 DEF Min2, l
    <2>4. proposals \in Seq(Token)
        BY <2>3, FunctionIsSequence
    <2>5. session' \in SessionType /\ session'.phase = "pending" /\ session'.seed \in Token
        <3>1. session.seed \in Token BY <1>2 DEF Shape, DraftFromNeural, MayDraft
        <3> QED BY <2>2, <2>3, <2>4, <3>1, ProposeTyped DEF TypeOK
    <2>6. ~request'.busy
        BY <1>2 DEF DraftFromNeural, MayDraft, Settled
    <2> QED BY <1>2, <2>5, <2>6 DEF DraftFromNeural, TypeOK, Shape
<1>3. CASE DraftFails
    <2>1. session' \in SessionType
        BY <1>3, Zenon DEF DraftFails, TypeOK, SessionType
    <2>2. session'.phase = "failed"
        BY <1>3 DEF DraftFails, TypeOK, SessionType
    <2>3. runtime' \in [phase : {"idle", "proposed", "committing", "failed"}, position : Nat]
        BY <1>3 DEF DraftFails, TypeOK
    <2>4. ~request.busy /\ request' = request /\ frame' = frame
        BY <1>3 DEF DraftFails, MayDraft, Settled
    <2>5. TypeOK'
        BY <1>3, <2>1, <2>3 DEF DraftFails, TypeOK
    <2>6. Shape'
        BY <2>2, <2>4 DEF Shape
    <2> QED BY <2>5, <2>6
<1>4. CASE DiscardStaleTicket
    <2>1. session' \in SessionType
        BY <1>4, <1>0, Zenon DEF DiscardStaleTicket, TypeOK, SessionType
    <2>2. stale' \in Nat /\ ~request'.busy
        BY <1>4 DEF DiscardStaleTicket, Prepared, Settled, TypeOK
    <2>3. runtime' \in [phase : {"idle", "proposed", "committing", "failed"}, position : Nat]
        BY <1>4 DEF DiscardStaleTicket, TypeOK
    <2>4. session'.seed = session.seed /\ session'.finished = session.finished /\ session.phase = "pending"
        BY <1>4 DEF DiscardStaleTicket, Prepared, TypeOK, SessionType
    <2> QED BY <1>4, <2>1, <2>2, <2>3, <2>4 DEF DiscardStaleTicket, TypeOK, Shape
<1>5. CASE Narrow
    <2>1. PICK rows \in Captured :
         /\ Widest(Captured, Len(session.pending.tokens), rows)
         /\ session' = [session EXCEPT !.epoch = @ + 1,
                !.pending = [epoch |-> session.epoch + 1, position |-> session.pending.position,
                             tokens |-> SubSeq(session.pending.tokens, 1, rows)]]
        BY <1>5, Zenon DEF Narrow
    <2> DEFINE ticket == [epoch |-> session.epoch + 1, position |-> session.pending.position,
                          tokens |-> SubSeq(session.pending.tokens, 1, rows)]
    <2>2. rows \in Nat /\ rows <= Len(session.pending.tokens)
        BY <2>1 DEF Widest
    <2>3. SubSeq(session.pending.tokens, 1, rows) \in Seq(Token)
        BY <1>a, <2>2, SubSeqProperties, SMT
    <2>a. session.epoch + 1 \in Nat
        BY <1>c
    <2>4. ticket \in Ticket /\ session.epoch + 1 \in Nat
        BY <1>a, <2>a, <2>3, Zenon DEF Ticket
    <2>5. session' = [session EXCEPT !.epoch = session.epoch + 1, !.pending = ticket]
        BY <2>1
    <2> HIDE DEF ticket
    <2>6. session' \in SessionType
        BY <2>4, <2>5, Zenon DEF TypeOK, SessionType
    <2>7. session'.phase = session.phase /\ session'.seed = session.seed /\ session'.finished = session.finished
        BY <2>5 DEF TypeOK, SessionType
    <2>8. stale' \in Nat /\ ~request'.busy /\ session.phase = "pending"
        <3>1. stale' = stale + 1 /\ stale \in Nat /\ Prepared /\ request' = request
            BY <1>5, Zenon DEF Narrow, TypeOK
        <3> QED BY <3>1 DEF Prepared, Settled
    <2>9. TypeOK'
        BY <1>5, <2>6, <2>8, Zenon DEF Narrow, TypeOK
    <2>10. frame' = frame
        BY <1>5, Zenon DEF Narrow
    <2>11. Shape'
        BY <2>7, <2>8, <2>10 DEF Shape
    <2> QED BY <2>9, <2>11
<1>6. CASE RefreshFails
    <2>1. engine' \in EngineType
        BY <1>6, Zenon DEF RefreshFails, TypeOK, EngineType
    <2>2. TypeOK'
        BY <1>6, <2>1 DEF RefreshFails, TypeOK
    <2>3. session' = session /\ request' = request /\ frame' = frame
        BY <1>6 DEF RefreshFails
    <2> QED BY <2>2, <2>3 DEF Shape
<1>7. CASE CancelBeforeVerify
    <2>1. [kind |-> "cancelled", tokens |-> <<>>, position |-> session.position] \in Output
        BY <1>a, EmptySeq DEF Output
    <2>2. frame' \in FrameType /\ frame'.decision = frame.decision
        BY <1>7, <2>1 DEF CancelBeforeVerify, TypeOK, FrameType
    <2>3. session' \in SessionType /\ session'.phase = "failed"
        BY <1>7 DEF CancelBeforeVerify, TypeOK, SessionType
    <2> QED BY <1>7, <2>2, <2>3 DEF CancelBeforeVerify, TypeOK, Shape
<1>8. ASSUME NEW cap \in 1..Len(session.pending.tokens), Verified(cap) PROVE TypeOK' /\ Shape'
    <2>1. PICK predictions \in [1..Len(session.pending.tokens) -> Token] :
             frame' = [frame EXCEPT !.predictions = predictions, !.cap = cap]
        BY <1>8, Zenon DEF Verified
    <2>2. predictions \in Seq(Token) /\ Len(predictions) = Len(session.pending.tokens)
        <3>1. Len(session.pending.tokens) \in Nat BY <1>a, LenProperties
        <3> QED BY <3>1, FunctionIsSequence
    <2>3. cap \in Nat BY <1>a
    <2>4. frame' \in FrameType /\ frame'.predictions = predictions /\ frame'.cap = cap
          /\ frame'.decision = frame.decision
        BY <2>1, <2>2, <2>3 DEF TypeOK, FrameType
    <2>5. engine' \in EngineType
        BY <1>8, <1>a DEF Verified, TypeOK, EngineType
    <2> QED BY <1>8, <2>2, <2>4, <2>5 DEF Verified, TypeOK, Shape
<1>9. CASE Verify
    BY <1>a, <1>8, <1>9 DEF Verify
<1>10. CASE VerifyFails
    BY <1>a, <1>10 DEF VerifyFails, TypeOK, EngineType, SessionType, Shape
<1>11. CASE AdoptPacked
    BY <1>8, <1>11 DEF AdoptPacked
<1>12. CASE PackedVerifyFails
    BY <1>12 DEF PackedVerifyFails, TypeOK, SessionType, Shape
<1>13. CASE BeginCommit
    <2> DEFINE proposals == SubSeq(session.pending.tokens, 2, frame.cap)
               decided(a) == SelectPrefix(proposals, frame.predictions, a)
    <2>1. PICK accepted \in 0..Len(proposals) :
             /\ frame' = [NoFrame EXCEPT !.decision = decided(accepted)]
             /\ drafter' = [drafter EXCEPT !.pending = decided(accepted).prefix]
        BY <1>13 DEF BeginCommit
    <2>2. frame.cap \in 1..Len(session.pending.tokens) /\ Len(frame.predictions) = Len(session.pending.tokens)
        BY <1>13 DEF BeginCommit, AwaitingDecision, Shape
    <2>3. proposals \in Seq(Token) /\ Len(proposals) = frame.cap - 1
        <3>1. Len(session.pending.tokens) \in Nat BY <1>a, LenProperties
        <3>2. 2 \in 1..(Len(session.pending.tokens) + 1) /\ frame.cap \in (2 - 1)..Len(session.pending.tokens)
            BY <3>1, <2>2
        <3>3. frame.cap \in Int /\ frame.cap - 2 + 1 = frame.cap - 1 BY <3>1, <2>2
        <3>4. \A i \in 2..frame.cap : session.pending.tokens[i] \in Token
            BY <1>a, <3>1, <3>2, ElementOfSeq
        <3>5. /\ proposals \in Seq(Token)
              /\ Len(proposals) = IF 2 <= frame.cap THEN frame.cap - 2 + 1 ELSE 0
            BY <1>a, <3>2, <3>3, <3>4, SubSeqProperties
        <3>6. (IF 2 <= frame.cap THEN frame.cap - 2 + 1 ELSE 0) = frame.cap - 1
            BY <3>1, <3>2
        <3> HIDE DEF proposals
        <3> QED BY <3>5, <3>6
    <2>4. Len(proposals) < Len(frame.predictions)
        BY <1>a, <2>2, <2>3, SMTT(20)
    <2> DEFINE d == decided(accepted)
    <2>5. d \in Decision /\ d.kind = "commit" /\ (~d.finished => d.next \in Token)
          /\ d.prefix <= Len(session.pending.tokens)
        <3>0. Len(session.pending.tokens) \in Nat BY <1>a, LenProperties
        <3>1. d.prefix <= Len(proposals) + 1 /\ d \in Decision
            <4> HIDE DEF proposals
            <4> QED BY <1>a, <2>3, <2>4, SelectPrefixTyped
        <3>x. d.prefix \in Nat BY <3>1 DEF Decision
        <3> HIDE DEF proposals, d
        <3>2. d.prefix <= Len(session.pending.tokens)
            BY <2>2, <2>3, <3>0, <3>1, <3>x, SMTT(20)
        <3> USE DEF d
        <3> QED BY <1>a, <2>3, <2>4, <3>2, SelectPrefixTyped
    <2> HIDE DEF d
    <2>6. frame' \in FrameType /\ frame'.decision = d
        BY <2>1, <2>5, <1>0 DEF FrameType, d
    <2>7. drafter' \in [position : Nat, pending : Nat]
        <3>1. d.prefix \in Nat BY <2>5 DEF Decision
        <3> QED BY <2>1, <3>1 DEF TypeOK, d
    <2>8. session' \in SessionType /\ session'.phase = "committing" /\ session.phase = "pending"
          /\ session'.seed = session.seed /\ session'.finished = session.finished
          /\ session'.pending = session.pending
        BY <1>13 DEF BeginCommit, AwaitingDecision, TypeOK, SessionType
    <2> QED BY <1>13, <2>5, <2>6, <2>7, <2>8 DEF BeginCommit, TypeOK, Shape
<1>14. ASSUME NEW kind \in {"cancel", "refuse"}, BeginAbort(kind) PROVE TypeOK' /\ Shape'
    <2>1. [NoDecision EXCEPT !.kind = kind] \in Decision /\ [NoDecision EXCEPT !.kind = kind].kind = kind
        BY <1>0 DEF Decision
    <2>2. frame' \in FrameType /\ frame'.decision.kind = kind /\ frame'.decision.prefix = 0
        BY <1>14, <1>0, <2>1 DEF BeginAbort, FrameType, NoDecision
    <2>3. session' \in SessionType /\ session'.phase = "committing" /\ session.phase = "pending"
          /\ session'.seed = session.seed /\ session'.finished = session.finished
          /\ session'.pending = session.pending
        BY <1>14 DEF BeginAbort, AwaitingDecision, TypeOK, SessionType
    <2>4. Len(session.pending.tokens) \in Nat /\ 0 <= Len(session.pending.tokens)
        BY <1>a, LenProperties
    <2> QED BY <1>14, <2>2, <2>3, <2>4 DEF BeginAbort, TypeOK, Shape
<1>15. CASE PublishTarget
    <2>0. frame.decision.prefix <= Len(session.pending.tokens)
        BY <1>15 DEF PublishTarget, Publishing, Shape
    <2>1. SubSeq(session.pending.tokens, 1, frame.decision.prefix) \in Seq(Token)
        BY <1>a, <1>b, <2>0, SubSeqProperties, SMT
    <2>a. engine.position + frame.decision.prefix \in Nat
        BY <1>c
    <2>b. engine.consumed \o SubSeq(session.pending.tokens, 1, frame.decision.prefix) \in Seq(Token)
        BY <1>a, <2>1, ConcatProperties
    <2>2. engine' \in EngineType
        BY <1>15, <1>0, <2>a, <2>b, Zenon DEF PublishTarget, EngineType
    <2> QED BY <1>15, <2>2 DEF PublishTarget, TypeOK, Shape
<1>16. CASE CommitHistory
    <2>1. runtime' \in [phase : {"idle", "proposed", "committing", "failed"}, position : Nat]
        <3>1. runtime.position + frame.decision.prefix \in Nat
            BY <1>a, <1>b, NatSum, Zenon
        <3>2. runtime' = [phase |-> "idle", position |-> runtime.position + frame.decision.prefix]
            BY <1>16, Zenon DEF CommitHistory
        <3> DEFINE p == runtime.position + frame.decision.prefix
        <3>3. runtime' = [phase |-> "idle", position |-> p] /\ p \in Nat
            BY <3>1, <3>2
        <3> HIDE DEF p
        <3> QED BY <3>3, SMT
    <2>2. drafter' \in [position : Nat, pending : Nat]
        <3>1. drafter.position + drafter.pending \in Nat
            BY <1>a, SMT
        <3> DEFINE p == drafter.position + drafter.pending
        <3>2. drafter' = [position |-> p, pending |-> 0] /\ p \in Nat
            BY <1>16, <3>1, Zenon DEF CommitHistory
        <3> HIDE DEF p
        <3> QED BY <3>2, SMT
    <2> QED BY <1>16, <2>1, <2>2 DEF CommitHistory, TypeOK, Shape
<1>17. CASE PublicationFails
    <2>0. drafter.position + drafter.pending \in Nat
        BY <1>c
    <2>1. drafter' \in [position : Nat, pending : Nat]
        <3> DEFINE p == drafter.position + drafter.pending
        <3>1. \/ drafter' = [drafter EXCEPT !.pending = 0]
              \/ drafter' = [position |-> p, pending |-> 0]
            BY <1>17, Zenon DEF PublicationFails
        <3>2. p \in Nat BY <2>0
        <3> HIDE DEF p
        <3>3. CASE drafter' = [drafter EXCEPT !.pending = 0]
            BY <3>3 DEF TypeOK
        <3>4. CASE drafter' = [position |-> p, pending |-> 0]
            BY <3>4, <3>2
        <3> QED BY <3>1, <3>3, <3>4
    <2>2. session' \in SessionType /\ session'.phase = "failed"
        BY <1>17 DEF PublicationFails, TypeOK, SessionType
    <2>3. engine' \in EngineType
        BY <1>17 DEF PublicationFails, TypeOK, EngineType
    <2>4. frame' \in FrameType /\ frame'.decision.kind = "none"
        BY <1>17, <1>0 DEF PublicationFails
    <2> QED BY <1>17, <2>1, <2>2, <2>3, <2>4 DEF PublicationFails, TypeOK, Shape
<1>18. CASE CompleteCommit
    <2> DEFINE emitted == session.emitted \o frame.decision.emitted
               finished == frame.decision.finished \/ Len(emitted) = MaxNew
               position == session.position + frame.decision.prefix
               output == [kind |-> "tokens", tokens |-> frame.decision.emitted, position |-> position]
    <2>0. emitted \in Seq(Token) /\ position \in Nat
        <3>1. emitted \in Seq(Token)
            BY <1>a, <1>b, ConcatProperties
        <3>2. position \in Nat
            BY <1>a, <1>b, NatSum, Zenon
        <3> HIDE DEF emitted, position
        <3> QED BY <3>1, <3>2
    <2>1. emitted \in Seq(Token) /\ position \in Nat /\ finished \in BOOLEAN
        BY <2>0, <1>b, Zenon
    <2>2. output \in Output
        BY <2>1, <1>b DEF Output
    <2>3. /\ session' = [session EXCEPT !.position = position, !.seed = frame.decision.next,
                 !.emitted = emitted, !.phase = "idle", !.pending = NoTicket, !.finished = finished]
          /\ frame' = [NoFrame EXCEPT !.output = output]
        BY <1>18 DEF CompleteCommit
    <2>4. ~finished => frame.decision.next \in Token
        BY <1>18 DEF CompleteCommit, Shape
    <2> HIDE DEF emitted, finished, position, output
    <2>5. session' \in SessionType
        BY <2>1, <2>3, <1>0, <1>b, Zenon DEF TypeOK, SessionType
    <2>6. session'.phase = "idle" /\ session'.seed = frame.decision.next /\ session'.finished = finished
        BY <2>3 DEF TypeOK, SessionType
    <2>7. frame' \in FrameType /\ frame'.decision.kind = "none"
        BY <2>2, <2>3, <1>0 DEF FrameType
    <2> QED BY <1>18, <2>4, <2>5, <2>6, <2>7 DEF CompleteCommit, TypeOK, Shape
<1>19. CASE CompleteCancel
    <2>1. [kind |-> "cancelled", tokens |-> <<>>, position |-> session.position] \in Output
        BY <1>a, EmptySeq DEF Output
    <2>2. frame' \in FrameType /\ frame'.decision.kind = "none"
        BY <1>19, <2>1, <1>0 DEF CompleteCancel, FrameType
    <2>3. session' \in SessionType /\ session'.phase = "idle" /\ session.phase = "committing"
          /\ session'.seed = session.seed /\ session'.finished = session.finished
        BY <1>19, <1>0 DEF CompleteCancel, TypeOK, SessionType
    <2>4. request' \in [busy : BOOLEAN, cancelled : BOOLEAN, closed : BOOLEAN]
        BY <1>19 DEF CompleteCancel, TypeOK
    <2> QED BY <1>19, <2>2, <2>3, <2>4 DEF CompleteCancel, TypeOK, Shape
<1>20. CASE CompleteRefusal
    <2>1. session' \in SessionType /\ session'.phase = "failed"
        BY <1>20, <1>0 DEF CompleteRefusal, TypeOK, SessionType
    <2>2. frame' \in FrameType /\ frame'.decision.kind = "none"
        BY <1>20, <1>0 DEF CompleteRefusal
    <2> QED BY <1>20, <2>1, <2>2 DEF CompleteRefusal, TypeOK, Shape
<1>21. CASE Deliver
    <2>1. runner' \in [output : Seq(Token), computed : Nat]
        BY <1>21, <1>a, <1>b, ConcatProperties DEF Deliver
    <2>2. frame' \in FrameType /\ frame'.decision = frame.decision
          /\ frame'.predictions = frame.predictions /\ frame'.cap = frame.cap
        BY <1>21, <1>0 DEF Deliver, TypeOK, FrameType
    <2> QED BY <1>21, <2>1, <2>2 DEF Deliver, TypeOK, Shape
<1>22. CASE PartnerFails
    <2>1. frame' \in FrameType /\ frame'.decision.kind = "none" /\ frame'.decision.prefix = 0
        BY <1>22, <1>0 DEF PartnerFails, NoDecision
    <2>2. ~request.busy /\ 0 <= Len(session.pending.tokens)
        BY <1>22, <1>a, LenProperties, SMTT(20) DEF PartnerFails
    <2> QED BY <1>22, <2>1, <2>2 DEF PartnerFails, TypeOK, Shape
<1>23. CASE Close
    <2>1. engine' \in EngineType
        BY <1>23, <1>0 DEF Close, TypeOK, EngineType
    <2>2. session' \in SessionType
        BY <1>23, <1>0, EmptySeq DEF Close, TypeOK, SessionType
    <2>3. ~request'.busy
        BY <1>23 DEF Close, Settled, TypeOK
    <2>4. drafter' \in [position : Nat, pending : Nat]
          /\ request' \in [busy : BOOLEAN, cancelled : BOOLEAN, closed : BOOLEAN]
        <3>1. drafter' \in [position : Nat, pending : Nat]
            BY <1>23 DEF Close, TypeOK
        <3> DEFINE phase == IF session.phase = "pending" /\ engine.phase = "idle"
                            THEN "failed" ELSE session.phase
                   closed == phase \in {"idle", "failed"}
        <3>a. request' = [request EXCEPT !.closed = closed]
            BY <1>23 DEF Close
        <3>b. closed \in BOOLEAN
            OBVIOUS
        <3> HIDE DEF closed
        <3>2. PICK value \in BOOLEAN : request' = [request EXCEPT !.closed = value]
            BY <3>a, <3>b, Zenon
        <3>3. request' \in [busy : BOOLEAN, cancelled : BOOLEAN, closed : BOOLEAN]
            BY <3>2 DEF TypeOK
        <3> QED BY <3>1, <3>3
    <2>5. TypeOK'
        BY <1>23, <2>1, <2>2, <2>4 DEF Close, TypeOK
    <2>6. session'.phase = "closed" \/ session' = session
        BY <1>23 DEF Close, TypeOK, SessionType
    <2> QED BY <1>23, <2>3, <2>5, <2>6 DEF Close, Shape
<1>24. CASE UNCHANGED vars
    BY <1>24 DEF vars, TypeOK, Shape
<1> QED
    BY <1>1, <1>2, <1>3, <1>4, <1>5, <1>6, <1>7, <1>9, <1>10, <1>11, <1>12, <1>13, <1>14, <1>15,
       <1>16, <1>17, <1>18, <1>19, <1>20, <1>21, <1>22, <1>23, <1>24
    DEF Next, Draft, Step, Publish, Complete, Fault, Cancel, Over

\* The prefilled request is typed.
LEMMA InitTyped == Init => TypeInv
<1> SUFFICES ASSUME Init PROVE TypeOK /\ Shape
    BY DEF TypeInv
<1> USE BudgetAssumption
<1>1. target \in Streams /\ target[1] \in Token
    BY DEF Init, Streams
<1>2. <<target[1]>> \in Seq(Token)
    BY <1>1
<1>3. NoTicket \in Ticket /\ NoFrame \in FrameType /\ NoFrame.decision.kind = "none"
    BY EmptySeq DEF NoTicket, Ticket, NoFrame, FrameType, NoDecision, Decision, NoOutput, Output
<1>4. session \in SessionType /\ engine \in EngineType
    BY <1>1, <1>2, <1>3, EmptySeq DEF Init, SessionType, EngineType
<1> QED BY <1>1, <1>2, <1>3, <1>4 DEF Init, TypeOK, Shape

\* Type correctness of the request transaction (the phases GreedySession, the runtime,
\* the engine and the bridge can be in, and what their fields hold).
THEOREM TypeCorrect == Spec => []TypeOK
<1>1. TypeInv => TypeOK
    BY DEF TypeInv
<1> QED BY <1>1, InitTyped, TypeStep, PTL DEF Spec

-----------------------------------------------------------------------------
(* The served stream is the target's own. *)

\* s is an initial part of the target's own stream.
Follows(s) == Len(s) <= MaxNew /\ \A i \in 1..Len(s) : s[i] = target[i]
\* No token of the stream before its n-th is an EOS.
NoEosBefore(n) == \A i \in 1..(n - 1) : target[i] \notin Eos
Emitted == Len(session.emitted)
Rows == session.pending.tokens
Decided == frame.decision

\* The session's stream is the target's own, its frontier counts the emitted tokens but the
\* last one, and an open stream ends in the seed, which is no EOS, with budget left.
StreamOnTarget ==
    session.phase # "closed" =>
        /\ Emitted >= 1 /\ Follows(session.emitted) /\ NoEosBefore(Emitted)
        /\ session.position = Prompt + Emitted - 1
        /\ ~session.finished => /\ session.seed = session.emitted[Emitted]
                                /\ session.seed \notin Eos /\ Emitted < MaxNew

\* A ticket exists from propose to commit; it stands at the frontier, starts with the seed
\* and fits the budget.
TicketAtFrontier ==
    /\ session.phase = "idle" => session.pending = NoTicket
    /\ session.phase \in {"pending", "committing"} =>
        /\ ~session.finished /\ session.pending.position = session.position
        /\ Len(Rows) >= 1 /\ Rows[1] = session.seed /\ Emitted + Len(Rows) <= MaxNew

\* Which phases session, draft runtime, engine, bridge and step can be in together: the
\* program counter of the round.
PhasesAgree ==
    /\ session.phase = "committing" => /\ request.busy /\ engine.phase \in {"verified", "idle"}
                                       /\ runtime.phase \in {"committing", "idle"}
                                       /\ runtime.phase = "idle" => engine.phase = "idle"
    /\ session.phase = "idle" => runtime.phase = "idle"
    /\ session.phase = "pending" => runtime.phase \in {"idle", "proposed"}
    /\ request.busy => /\ session.phase \in {"pending", "committing"}
                       /\ session.phase = "pending" => engine.phase = "verified"
                       /\ ~bridge.failed /\ frame.output = NoOutput
    /\ engine.phase = "verified" => request.busy
    /\ engine.phase = "failed" => bridge.failed

\* The engine stands at a position, its state holds the first `consumed` tokens of the stream.
At(position, consumed) ==
    /\ engine.position = position /\ Follows(engine.consumed) /\ Len(engine.consumed) = consumed

\* The engine stands at the session's frontier, or a decided prefix past it once the
\* target's publication returned and the session has not yet taken the commit.
EngineAtFrontier ==
    /\ session.phase \in {"idle", "pending"} /\ engine.phase \in {"idle", "verified"}
          => At(session.position, Emitted - 1)
    /\ session.phase = "committing" /\ engine.phase = "verified" => At(session.position, Emitted - 1)
    /\ session.phase = "committing" /\ engine.phase = "idle"
          => At(session.position + Decided.prefix, Emitted - 1 + Decided.prefix)

\* So do the draft runtime and the drafter, once the history's publication returned.
DrafterAtFrontier ==
    /\ session.phase \in {"idle", "pending"} =>
         runtime.position = session.position /\ drafter.position = session.position /\ drafter.pending = 0
    /\ session.phase = "committing" /\ runtime.phase = "committing" =>
         /\ runtime.position = session.position /\ drafter.position = session.position
         /\ drafter.pending = Decided.prefix
    /\ session.phase = "committing" /\ runtime.phase = "idle" =>
         /\ runtime.position = session.position + Decided.prefix /\ drafter.pending = 0
         /\ drafter.position = session.position + Decided.prefix

\* The rows of the block under decision are the target's answers to the ticket's rows.
PredictionsOnTarget ==
    request.busy /\ session.phase = "pending" => Predicts(frame.predictions, Rows)

\* An open decision is either an abort, which keeps nothing, or a commit of the stream's
\* own next tokens, none before the last of them an EOS.
DecisionOnTarget ==
    session.phase = "committing" =>
        \/ Decided.kind \in {"cancel", "refuse"} /\ Decided.prefix = 0
        \/ /\ Decided.kind = "commit" /\ Decided.prefix >= 1
           /\ Len(Decided.emitted) = Decided.prefix /\ Emitted + Decided.prefix <= MaxNew
           /\ \A i \in 1..Decided.prefix : Decided.emitted[i] = target[Emitted + i]
           /\ \A i \in 1..(Decided.prefix - 1) : /\ Rows[i + 1] = target[Emitted + i]
                                                 /\ target[Emitted + i] \notin Eos
           /\ ~Decided.finished => /\ Decided.next = target[Emitted + Decided.prefix]
                                   /\ Decided.next \notin Eos

Exposed == Len(runner.output)
Due == frame.output.tokens

\* What the runner holds and what the step hands it next are the stream's own tokens; while
\* the bridge is healthy they are together all the session has emitted.
RunnerOnTarget ==
    /\ Exposed >= 1 /\ Follows(runner.output) /\ NoEosBefore(Exposed)
    /\ runner.computed = Prompt + Exposed - 1
    /\ \A i \in 1..Len(Due) : Exposed + i <= MaxNew /\ Due[i] = target[Exposed + i]
    /\ session.phase # "closed" /\ ~bridge.failed => Exposed + Len(Due) = Emitted
    /\ frame.output # NoOutput =>
         /\ ~bridge.failed /\ frame.output.position = session.position
         /\ session.phase = "idle" \/ (session.phase = "failed" /\ Due = <<>>)

\* The position the runner's stream and the output under way reach: target and drafter have
\* published at least as far.
Shown == Prompt + Exposed + Len(Due) - 1
PublishedWhatIsDue == Shown <= engine.position /\ Shown <= drafter.position

\* The inductive invariant of the served stream.
IInv == /\ StreamOnTarget /\ TicketAtFrontier /\ PhasesAgree /\ EngineAtFrontier /\ DrafterAtFrontier
        /\ PredictionsOnTarget /\ DecisionOnTarget /\ RunnerOnTarget /\ PublishedWhatIsDue

\* A nonempty set of natural numbers has a least element.
LEMMA LeastElement ==
    ASSUME NEW T \in SUBSET Nat, T # {}
    PROVE  \E x \in T : \A y \in T : x <= y
<1> DEFINE R == OpToRel(<, Nat)
<1>1. IsWellFoundedOn(R, Nat)
    BY NatLessThanWellFounded DEF OpToRel
<1>2. \A x, y \in Nat : x < y => <<x, y>> \in R
    BY DEF OpToRel
<1> HIDE DEF R
<1>3. PICK x \in T : \A y \in T : ~ (<<y, x>> \in R)
    BY <1>1, WFMin
<1>4. \A y \in T : ~(y < x)
    BY <1>2, <1>3
<1> QED BY <1>4

\* As long as the accepted proposals equal the predictions, row after row, the predictions
\* are the target's own next tokens: a first row that left its stream would follow rows
\* that did not, and was predicted from them.
LEMMA AcceptedOnTarget ==
    ASSUME TypeOK, NEW predictions \in Seq(Token), NEW tokens \in Seq(Token),
           Predicts(predictions, tokens), NEW accepted \in Nat, accepted < Len(tokens),
           Emitted + Len(tokens) <= MaxNew,
           \A i \in 1..accepted : tokens[i + 1] = predictions[i]
    PROVE  \A i \in 1..(accepted + 1) : predictions[i] = target[Emitted + i]
<1> DEFINE Off == {i \in 1..(accepted + 1) : predictions[i] # target[Emitted + i]}
<1>0. Emitted \in Nat /\ Len(tokens) \in Nat
    BY LenProperties DEF TypeOK, SessionType, Emitted
<1> SUFFICES ASSUME Off # {} PROVE FALSE
    OBVIOUS
<1>1. Off \in SUBSET Nat
    BY <1>0
<1> HIDE DEF Off
<1>2. PICK x \in Off : \A y \in Off : x <= y
    BY <1>1, LeastElement
<1> USE DEF Off
<1>3. x \in 1..(accepted + 1) /\ x \in 1..Len(tokens)
    BY <1>0, <1>2
<1>4. \A j \in 2..x : tokens[j] = target[Emitted + j - 1]
    <2> SUFFICES ASSUME NEW j \in 2..x PROVE tokens[j] = target[Emitted + j - 1]
        OBVIOUS
    <2>1. j - 1 \in 1..accepted /\ j - 1 \in 1..(accepted + 1) /\ j - 1 < x /\ j - 1 + 1 = j
        BY <1>3
    <2>2. tokens[j] = predictions[j - 1]
        BY <2>1
    <2>3. predictions[j - 1] = target[Emitted + (j - 1)]
        BY <1>2, <2>1, <1>3
    <2> QED BY <2>2, <2>3, <1>0
<1>5. Emitted + x <= MaxNew /\ \A j \in 2..x : Emitted + j - 1 <= MaxNew
    BY <1>0, <1>3, BudgetAssumption, SMTT(20)
<1>6. predictions[x] = target[Emitted + x]
    BY <1>3, <1>4, <1>5 DEF Predicts, Emitted
<1> QED BY <1>2, <1>6

\* Appending the target's own next tokens to an initial part of its stream gives a longer one.
LEMMA FollowsConcat ==
    ASSUME NEW s \in Seq(Token), NEW t \in Seq(Token), Follows(s), Len(s) + Len(t) <= MaxNew,
           \A i \in 1..Len(t) : t[i] = target[Len(s) + i]
    PROVE  Follows(s \o t) /\ Len(s \o t) = Len(s) + Len(t)
<1>1. Len(s) \in Nat /\ Len(t) \in Nat
    BY LenProperties
<1>2. /\ Len(s \o t) = Len(s) + Len(t)
      /\ \A i \in 1..(Len(s) + Len(t)) : (s \o t)[i] = IF i <= Len(s) THEN s[i] ELSE t[i - Len(s)]
    BY ConcatProperties
<1>3. ASSUME NEW i \in 1..(Len(s) + Len(t)) PROVE (s \o t)[i] = target[i]
    <2>1. CASE i <= Len(s)
        BY <1>1, <1>2, <2>1 DEF Follows
    <2>2. CASE ~(i <= Len(s))
        <3>1. i - Len(s) \in 1..Len(t) /\ Len(s) + (i - Len(s)) = i
            BY <1>1, <2>2
        <3>2. t[i - Len(s)] = target[i]
            BY <3>1
        <3> QED BY <1>2, <2>2, <3>2
    <2> QED BY <2>1, <2>2
<1> QED BY <1>2, <1>3 DEF Follows

\* The first rows of a block are a block of that many rows.
LEMMA FirstRows ==
    ASSUME NEW S, NEW s \in Seq(S), NEW n \in Nat, n <= Len(s)
    PROVE  /\ SubSeq(s, 1, n) \in Seq(S) /\ Len(SubSeq(s, 1, n)) = n
           /\ \A i \in 1..n : SubSeq(s, 1, n)[i] = s[i]
<1>1. \A i \in 1..n : s[i] \in S
    BY ElementOfSeq, LenProperties
<1>2. 1 \in Int /\ n \in Int /\ n - 1 + 1 = n /\ (1 <= n => n - 1 + 1 = n) /\ (~(1 <= n) => n = 0)
    OBVIOUS
<1>3. /\ SubSeq(s, 1, n) \in Seq(S)
      /\ Len(SubSeq(s, 1, n)) = IF 1 <= n THEN n - 1 + 1 ELSE 0
      /\ \A i \in 1..(n - 1 + 1) : SubSeq(s, 1, n)[i] = s[1 + i - 1]
    BY <1>1, <1>2, SubSeqProperties
<1>4. \A i \in 1..n : 1 + i - 1 = i
    OBVIOUS
<1> QED BY <1>2, <1>3, <1>4

\* The proposals of a ticket are its rows after the seed, up to the accept limit.
LEMMA ProposalRowsOf ==
    ASSUME NEW tokens \in Seq(Token), NEW cap \in 1..Len(tokens)
    PROVE  /\ SubSeq(tokens, 2, cap) \in Seq(Token) /\ Len(SubSeq(tokens, 2, cap)) = cap - 1
           /\ \A i \in 1..(cap - 1) : SubSeq(tokens, 2, cap)[i] = tokens[i + 1]
<1>1. Len(tokens) \in Nat
    BY LenProperties
<1>2. \A i \in 2..cap : tokens[i] \in Token
    BY <1>1, ElementOfSeq
<1>3. cap \in Int /\ cap - 2 + 1 = cap - 1 /\ (~(2 <= cap) => cap - 1 = 0)
    BY <1>1
<1>4. /\ SubSeq(tokens, 2, cap) \in Seq(Token)
      /\ Len(SubSeq(tokens, 2, cap)) = IF 2 <= cap THEN cap - 2 + 1 ELSE 0
      /\ \A i \in 1..(cap - 2 + 1) : SubSeq(tokens, 2, cap)[i] = tokens[2 + i - 1]
    BY <1>2, <1>3, SubSeqProperties
<1>5. \A i \in 1..(cap - 1) : 2 + i - 1 = i + 1
    BY <1>3
<1> QED BY <1>3, <1>4, <1>5

\* What select_prefix decides lies on the target's own stream: the emitted block is the
\* stream's next tokens, no token before its last one is an EOS, and an open decision
\* names the block's last token as the next seed.
LEMMA SelectPrefixOnTarget ==
    ASSUME TypeOK, NEW tokens \in Seq(Token), NEW predictions \in Seq(Token),
           Len(predictions) = Len(tokens), NEW cap \in 1..Len(tokens),
           Emitted + Len(tokens) <= MaxNew, Predicts(predictions, tokens),
           NEW accepted \in 0..(cap - 1),
           AcceptedPrefix(SubSeq(tokens, 2, cap), predictions, accepted),
           NEW d, d = SelectPrefix(SubSeq(tokens, 2, cap), predictions, accepted)
    PROVE  /\ d.kind = "commit" /\ d.prefix \in 1..cap /\ Len(d.emitted) = d.prefix
           /\ Emitted + d.prefix <= MaxNew
           /\ \A i \in 1..d.prefix : d.emitted[i] = target[Emitted + i]
           /\ \A i \in 1..(d.prefix - 1) : /\ tokens[i + 1] = target[Emitted + i]
                                           /\ target[Emitted + i] \notin Eos
           /\ ~d.finished => /\ d.next = target[Emitted + d.prefix]
                             /\ d.next \notin Eos
<1> DEFINE P == SubSeq(tokens, 2, cap)
           head == SubSeq(P, 1, accepted)
           correction == predictions[accepted + 1]
<1>0. Emitted \in Nat /\ Len(tokens) \in Nat /\ MaxNew \in Nat /\ accepted \in Nat /\ cap \in Nat
    BY LenProperties, BudgetAssumption DEF TypeOK, SessionType, Emitted
<1>1. P \in Seq(Token) /\ Len(P) = cap - 1 /\ \A i \in 1..(cap - 1) : P[i] = tokens[i + 1]
    BY ProposalRowsOf
<1> HIDE DEF P
<1>2. head \in Seq(Token) /\ Len(head) = accepted /\ \A i \in 1..accepted : head[i] = P[i]
    BY <1>0, <1>1, FirstRows
<1>3. \A i \in 1..accepted : P[i] = predictions[i] /\ tokens[i + 1] = predictions[i]
    BY <1>0, <1>1 DEF AcceptedPrefix, P
<1>4. accepted < Len(tokens)
    BY <1>0
<1>5. \A i \in 1..(accepted + 1) : predictions[i] = target[Emitted + i]
    BY <1>0, <1>3, <1>4, AcceptedOnTarget
<1>6. ASSUME NEW i \in 1..accepted
      PROVE  tokens[i + 1] = target[Emitted + i] /\ P[i] = target[Emitted + i]
    <2>1. i \in 1..(accepted + 1)
        BY <1>0
    <2> QED BY <1>3, <1>5, <2>1
<1>7. ASSUME NEW i \in 1..(accepted - 1) PROVE target[Emitted + i] \notin Eos
    <2>1. i \in 1..accepted
        BY <1>0
    <2>2. P[i] \notin Eos
        BY DEF AcceptedPrefix, P
    <2> QED BY <1>6, <2>1, <2>2
<1>8. CASE accepted > 0 /\ P[accepted] \in Eos
    <2>1. d = [kind |-> "commit", prefix |-> accepted, emitted |-> head, next |-> NoToken, finished |-> TRUE]
        BY <1>8 DEF SelectPrefix, P
    <2> HIDE DEF head
    <2>2. d.kind = "commit" /\ d.prefix = accepted /\ d.emitted = head /\ d.finished
        BY <2>1
    <2>3. accepted \in 1..cap /\ Emitted + accepted <= MaxNew
        BY <1>0, <1>8
    <2>4. \A i \in 1..accepted : head[i] = target[Emitted + i]
        BY <1>2, <1>6
    <2>5. ASSUME NEW i \in 1..(accepted - 1) PROVE tokens[i + 1] = target[Emitted + i]
        <3>1. i \in 1..accepted
            BY <1>0
        <3> QED BY <1>6, <3>1
    <2> QED BY <1>2, <1>7, <2>2, <2>3, <2>4, <2>5
<1>9. CASE ~(accepted > 0 /\ P[accepted] \in Eos)
    <2> DEFINE n == IF correction \in Eos THEN NoToken ELSE correction
               f == correction \in Eos
               k == accepted + 1
               e == head \o <<correction>>
    <2>1. d = [kind |-> "commit", prefix |-> k, emitted |-> e, next |-> n, finished |-> f]
        BY <1>9 DEF SelectPrefix, P
    <2>a. ~f => n = correction /\ correction \notin Eos
        OBVIOUS
    <2>2. correction = target[Emitted + (accepted + 1)] /\ correction \in Token
        <3>1. accepted + 1 \in 1..(accepted + 1) /\ accepted + 1 \in 1..Len(predictions)
            BY <1>0
        <3> QED BY <1>5, <3>1, ElementOfSeq
    <2>3. <<correction>> \in Seq(Token) /\ Len(<<correction>>) = 1 /\ <<correction>>[1] = correction
        BY <2>2
    <2> HIDE DEF head, correction, n, f, k, e
    <2>4. d.kind = "commit" /\ d.prefix = k /\ d.emitted = e /\ d.finished = f /\ d.next = n
        BY <2>1
    <2>5. ~d.finished => d.next = correction /\ d.next \notin Eos
        BY <2>4, <2>a
    <2> USE DEF k, e
    <2>6. /\ Len(head \o <<correction>>) = accepted + 1
          /\ \A i \in 1..(accepted + 1) : (head \o <<correction>>)[i]
                 = IF i <= accepted THEN head[i] ELSE <<correction>>[i - accepted]
        BY <1>2, <2>3, ConcatProperties
    <2>7. ASSUME NEW i \in 1..(accepted + 1) PROVE (head \o <<correction>>)[i] = target[Emitted + i]
        <3>1. CASE i <= accepted
            <4>1. i \in 1..accepted
                BY <1>0, <3>1
            <4> QED BY <1>2, <1>6, <2>6, <3>1, <4>1
        <3>2. CASE ~(i <= accepted)
            <4>1. i = accepted + 1 /\ i - accepted = 1
                BY <1>0, <3>2
            <4>2. (head \o <<correction>>)[i] = <<correction>>[1]
                BY <2>6, <3>2, <4>1
            <4> QED BY <2>2, <2>3, <4>1, <4>2
        <3> QED BY <3>1, <3>2
    <2>8. ASSUME NEW i \in 1..accepted PROVE target[Emitted + i] \notin Eos
        <3>1. CASE i = accepted
            <4>1. accepted > 0
                BY <1>0, <3>1
            <4> QED BY <1>6, <1>9, <3>1, <4>1
        <3>2. CASE i # accepted
            <4>1. i \in 1..(accepted - 1)
                BY <1>0, <3>2
            <4> QED BY <1>7, <4>1
        <3> QED BY <3>1, <3>2
    <2>9. accepted + 1 \in 1..cap /\ Emitted + (accepted + 1) <= MaxNew /\ (accepted + 1) - 1 = accepted
        BY <1>0
    <2> QED BY <1>6, <2>2, <2>4, <2>5, <2>6, <2>7, <2>8, <2>9
<1> QED BY <1>8, <1>9

\* A ticket GreedySession.propose builds stands at the session's frontier, starts with the
\* seed and holds no more rows than its limit; the session keeps the rest of its state.
LEMMA ProposeEffect ==
    ASSUME session \in SessionType, session.seed \in Token, NEW limit \in Nat,
           NEW proposals \in Seq(Token), Propose(limit, proposals)
    PROVE  /\ session'.phase = "pending" /\ session'.position = session.position
           /\ session'.seed = session.seed /\ session'.emitted = session.emitted
           /\ session'.finished = session.finished /\ session'.epoch = session.epoch + 1
           /\ session'.pending.position = session.position
           /\ session'.pending.epoch = session.epoch + 1
           /\ Len(session'.pending.tokens) \in 1..limit
           /\ session'.pending.tokens[1] = session.seed
<1> PICK rows \in Widths :
        /\ Widest(Widths, Min2(limit, Len(proposals) + 1), rows)
        /\ session' = [session EXCEPT !.epoch = @ + 1, !.phase = "pending",
               !.pending = [epoch |-> session.epoch + 1, position |-> session.position,
                            tokens |-> <<session.seed>> \o SubSeq(proposals, 1, rows - 1)]]
    BY Zenon DEF Propose
<1>0. Len(proposals) \in Nat
    BY LenProperties
<1>1. rows \in Nat \ {0} /\ rows - 1 \in Nat /\ rows - 1 <= Len(proposals) /\ rows <= limit
    BY <1>0, WidthAssumption DEF Widest, Min2
<1> DEFINE drafts == SubSeq(proposals, 1, rows - 1)
           tokens == <<session.seed>> \o drafts
           ticket == [epoch |-> session.epoch + 1, position |-> session.position, tokens |-> tokens]
<1>2. drafts \in Seq(Token) /\ Len(drafts) = rows - 1
    BY <1>1, FirstRows
<1>3. <<session.seed>> \in Seq(Token) /\ Len(<<session.seed>>) = 1 /\ <<session.seed>>[1] = session.seed
    OBVIOUS
<1> HIDE DEF drafts
<1>4. /\ Len(tokens) = 1 + (rows - 1)
      /\ \A i \in 1..(1 + (rows - 1)) : tokens[i] = IF i <= 1 THEN <<session.seed>>[i] ELSE drafts[i - 1]
    BY <1>2, <1>3, ConcatProperties
<1>5. 1 \in 1..(1 + (rows - 1)) /\ 1 <= 1 /\ 1 + (rows - 1) \in 1..limit
    BY <1>1
<1>6. Len(tokens) \in 1..limit /\ tokens[1] = session.seed
    BY <1>3, <1>4, <1>5
<1>7. session' = [session EXCEPT !.epoch = session.epoch + 1, !.phase = "pending", !.pending = ticket]
    BY DEF drafts
<1>8. /\ ticket.position = session.position /\ ticket.epoch = session.epoch + 1 /\ ticket.tokens = tokens
    OBVIOUS
<1> HIDE DEF ticket, tokens
<1> QED BY <1>6, <1>7, <1>8 DEF SessionType

\* Frontiers are compared through what both sides bound.
LEMMA IntegerOrder ==
    ASSUME NEW a \in Int, NEW b \in Int, NEW c \in Int, NEW k \in Nat, a <= b, b <= c
    PROVE  a <= c /\ a <= c + k
OBVIOUS

\* Every step of the request keeps the invariant.
LEMMA IInvStep == TypeOK /\ TypeOK' /\ Shape /\ IInv /\ [Next]_vars => IInv'
<1> SUFFICES ASSUME TypeOK, TypeOK', Shape, StreamOnTarget, TicketAtFrontier, PhasesAgree, EngineAtFrontier,
                    DrafterAtFrontier, PredictionsOnTarget, DecisionOnTarget, RunnerOnTarget,
                    PublishedWhatIsDue, [Next]_vars
             PROVE  IInv'
    BY DEF IInv
<1> USE BudgetAssumption
<1>a. /\ Emitted \in Nat /\ Exposed \in Nat /\ Len(Due) \in Nat /\ Len(Rows) \in Nat
      /\ session.position \in Nat /\ engine.position \in Nat /\ drafter.position \in Nat
      /\ runtime.position \in Nat /\ drafter.pending \in Nat /\ Decided.prefix \in Nat
      /\ Len(Decided.emitted) \in Nat
    BY LenProperties DEF TypeOK, SessionType, EngineType, FrameType, Ticket, Decision, Output,
       Emitted, Exposed, Due, Rows, Decided
<1>b. NoOutput.tokens = <<>> /\ NoTicket.tokens = <<>> /\ Len(<<>>) = 0
    BY DEF NoOutput, NoTicket
<1>n. /\ Emitted \in Nat /\ Exposed \in Nat /\ Decided.prefix \in Nat
      /\ Prompt \in Nat /\ MaxNew \in Nat
    BY <1>a
<1>d. session.position \in Nat /\ Decided.prefix \in Nat
    BY <1>a
<1>s. ASSUME Exposed' = Exposed, Len(Due)' \in Nat, Len(Due)' <= Len(Due),
             engine'.position = engine.position,
             drafter'.position \in {drafter.position, drafter.position + drafter.pending}
      PROVE  PublishedWhatIsDue'
    <2>1. Shown \in Int /\ Shown' \in Int /\ Shown' <= Shown
        BY <1>a, <1>s DEF Shown
    <2>2. Shown' <= engine.position
        BY <1>a, <2>1, IntegerOrder DEF PublishedWhatIsDue
    <2>3. Shown' <= drafter.position
        BY <1>a, <2>1, IntegerOrder DEF PublishedWhatIsDue
    <2>4. Shown' <= drafter.position + drafter.pending
        BY <1>a, <2>1, <2>3, IntegerOrder
    <2> QED BY <1>s, <2>2, <2>3, <2>4 DEF PublishedWhatIsDue
<1>1. CASE DraftFails
    <2>1. /\ target' = target /\ session'.phase = "failed" /\ session'.epoch = session.epoch
          /\ session'.position = session.position /\ session'.seed = session.seed
          /\ session'.emitted = session.emitted /\ session'.finished = session.finished
          /\ session'.pending = session.pending /\ runtime'.position = runtime.position
          /\ engine' = engine /\ drafter' = drafter /\ request' = request /\ bridge' = bridge
          /\ runner' = runner /\ frame' = frame
        BY <1>1 DEF DraftFails, MayDraft, Settled, TypeOK, SessionType
    <2>2. /\ session.phase = "idle" /\ engine.phase = "idle" /\ ~request.busy
          /\ frame.output = NoOutput
        BY <1>1 DEF DraftFails, MayDraft, Settled, TypeOK, SessionType
    <2>3. StreamOnTarget'
        BY <1>a, <2>1, <2>2 DEF StreamOnTarget, Follows, NoEosBefore, Emitted
    <2>4. TicketAtFrontier'
        BY <1>a, <2>1, <2>2 DEF TicketAtFrontier, Rows, Emitted
    <2>5. PhasesAgree'
        BY <1>a, <2>1, <2>2 DEF PhasesAgree
    <2>6. EngineAtFrontier'
        BY <1>a, <2>1, <2>2 DEF EngineAtFrontier, At, Follows, Emitted, Decided
    <2>7. DrafterAtFrontier'
        BY <1>a, <2>1, <2>2 DEF DrafterAtFrontier, Decided, PhasesAgree
    <2>8. PredictionsOnTarget'
        BY <1>a, <2>1, <2>2 DEF PredictionsOnTarget, Predicts, Rows
    <2>9. DecisionOnTarget'
        BY <1>a, <2>1, <2>2 DEF DecisionOnTarget, Decided, Emitted, Rows
    <2>10. RunnerOnTarget'
        BY <1>a, <2>1, <2>2 DEF RunnerOnTarget, Exposed, Due, Follows, NoEosBefore, Emitted
    <2>11. PublishedWhatIsDue'
        <3>1. Exposed' = Exposed /\ Len(Due)' <= Len(Due) /\ Len(Due)' \in Nat
            BY <1>a, <2>1, <2>2, <1>b DEF Exposed, Due
        <3>2. engine'.position = engine.position /\ drafter'.position = drafter.position
            BY <1>a, <2>1, <2>2
        <3> QED BY <3>1, <3>2, <1>s
    <2> QED BY <2>3, <2>4, <2>5, <2>6, <2>7, <2>8, <2>9, <2>10, <2>11 DEF IInv
<1>2. CASE DiscardStaleTicket
    <2>1. /\ target' = target /\ session'.phase = "idle" /\ session'.epoch = session.epoch
          /\ session'.position = session.position /\ session'.seed = session.seed
          /\ session'.emitted = session.emitted /\ session'.finished = session.finished
          /\ session'.pending = NoTicket /\ runtime'.phase = "idle"
          /\ runtime'.position = runtime.position /\ engine' = engine /\ drafter' = drafter
          /\ request' = request /\ bridge' = bridge /\ runner' = runner /\ frame' = frame
        BY <1>2 DEF DiscardStaleTicket, Prepared, Settled, TypeOK, SessionType
    <2>2. /\ session.phase = "pending" /\ engine.phase = "idle" /\ ~request.busy
          /\ frame.output = NoOutput
        BY <1>2 DEF DiscardStaleTicket, Prepared, Settled, TypeOK, SessionType
    <2>3. StreamOnTarget'
        BY <1>a, <2>1, <2>2 DEF StreamOnTarget, Follows, NoEosBefore, Emitted
    <2>4. TicketAtFrontier'
        BY <1>a, <2>1, <2>2 DEF TicketAtFrontier, Rows, Emitted
    <2>5. PhasesAgree'
        BY <1>a, <2>1, <2>2 DEF PhasesAgree
    <2>6. EngineAtFrontier'
        BY <1>a, <2>1, <2>2 DEF EngineAtFrontier, At, Follows, Emitted, Decided
    <2>7. DrafterAtFrontier'
        BY <1>a, <2>1, <2>2 DEF DrafterAtFrontier, Decided, PhasesAgree
    <2>8. PredictionsOnTarget'
        BY <1>a, <2>1, <2>2 DEF PredictionsOnTarget, Predicts, Rows
    <2>9. DecisionOnTarget'
        BY <1>a, <2>1, <2>2 DEF DecisionOnTarget, Decided, Emitted, Rows
    <2>10. RunnerOnTarget'
        BY <1>a, <2>1, <2>2 DEF RunnerOnTarget, Exposed, Due, Follows, NoEosBefore, Emitted
    <2>11. PublishedWhatIsDue'
        <3>1. Exposed' = Exposed /\ Len(Due)' <= Len(Due) /\ Len(Due)' \in Nat
            BY <1>a, <2>1, <2>2, <1>b DEF Exposed, Due
        <3>2. engine'.position = engine.position /\ drafter'.position = drafter.position
            BY <1>a, <2>1, <2>2
        <3> QED BY <3>1, <3>2, <1>s
    <2> QED BY <2>3, <2>4, <2>5, <2>6, <2>7, <2>8, <2>9, <2>10, <2>11 DEF IInv
<1>3. CASE RefreshFails
    <2>1. /\ target' = target /\ session' = session /\ runtime' = runtime
          /\ drafter' = drafter /\ request' = request /\ runner' = runner /\ frame' = frame
          /\ engine'.phase = "failed" /\ engine'.position = engine.position
          /\ engine'.pending = engine.pending /\ engine'.consumed = engine.consumed
          /\ bridge'.failed
        BY <1>3 DEF RefreshFails, Prepared, Settled, TypeOK, EngineType
    <2>2. /\ session.phase = "pending" /\ engine.phase = "idle" /\ ~request.busy
          /\ frame.output = NoOutput
        BY <1>3 DEF RefreshFails, Prepared, Settled, TypeOK, EngineType
    <2>3. StreamOnTarget'
        BY <1>a, <2>1, <2>2 DEF StreamOnTarget, Follows, NoEosBefore, Emitted
    <2>4. TicketAtFrontier'
        BY <1>a, <2>1, <2>2 DEF TicketAtFrontier, Rows, Emitted
    <2>5. PhasesAgree'
        BY <1>a, <2>1, <2>2 DEF PhasesAgree
    <2>6. EngineAtFrontier'
        BY <1>a, <2>1, <2>2 DEF EngineAtFrontier, At, Follows, Emitted, Decided
    <2>7. DrafterAtFrontier'
        BY <1>a, <2>1, <2>2 DEF DrafterAtFrontier, Decided, PhasesAgree
    <2>8. PredictionsOnTarget'
        BY <1>a, <2>1, <2>2 DEF PredictionsOnTarget, Predicts, Rows
    <2>9. DecisionOnTarget'
        BY <1>a, <2>1, <2>2 DEF DecisionOnTarget, Decided, Emitted, Rows
    <2>10. RunnerOnTarget'
        BY <1>a, <2>1, <2>2 DEF RunnerOnTarget, Exposed, Due, Follows, NoEosBefore, Emitted
    <2>11. PublishedWhatIsDue'
        <3>1. Exposed' = Exposed /\ Len(Due)' <= Len(Due) /\ Len(Due)' \in Nat
            BY <1>a, <2>1, <2>2, <1>b DEF Exposed, Due
        <3>2. engine'.position = engine.position /\ drafter'.position = drafter.position
            BY <1>a, <2>1, <2>2
        <3> QED BY <3>1, <3>2, <1>s
    <2> QED BY <2>3, <2>4, <2>5, <2>6, <2>7, <2>8, <2>9, <2>10, <2>11 DEF IInv
<1>4. CASE CancelBeforeVerify
    <2>1. /\ target' = target /\ runtime' = runtime /\ engine' = engine /\ drafter' = drafter
          /\ bridge' = bridge /\ runner' = runner /\ session'.phase = "failed"
          /\ session'.epoch = session.epoch /\ session'.position = session.position
          /\ session'.seed = session.seed /\ session'.emitted = session.emitted
          /\ session'.finished = session.finished /\ session'.pending = session.pending
          /\ request'.busy = request.busy /\ frame'.output.tokens = <<>>
          /\ frame'.output.position = session.position
          /\ frame'.predictions = frame.predictions /\ frame'.decision = frame.decision
        BY <1>4 DEF CancelBeforeVerify, Prepared, Settled, TypeOK, SessionType, FrameType
    <2>2. /\ session.phase = "pending" /\ engine.phase = "idle" /\ ~request.busy
          /\ frame.output = NoOutput /\ ~bridge.failed
        BY <1>4 DEF CancelBeforeVerify, Prepared, Settled, TypeOK, SessionType, FrameType
    <2>3. StreamOnTarget'
        BY <1>a, <2>1, <2>2 DEF StreamOnTarget, Follows, NoEosBefore, Emitted
    <2>4. TicketAtFrontier'
        BY <1>a, <2>1, <2>2 DEF TicketAtFrontier, Rows, Emitted
    <2>5. PhasesAgree'
        BY <1>a, <2>1, <2>2 DEF PhasesAgree
    <2>6. EngineAtFrontier'
        BY <1>a, <2>1, <2>2 DEF EngineAtFrontier, At, Follows, Emitted, Decided
    <2>7. DrafterAtFrontier'
        BY <1>a, <2>1, <2>2 DEF DrafterAtFrontier, Decided
    <2>8. PredictionsOnTarget'
        BY <1>a, <2>1, <2>2 DEF PredictionsOnTarget, Predicts, Rows
    <2>9. DecisionOnTarget'
        BY <1>a, <2>1, <2>2 DEF DecisionOnTarget, Decided, Emitted, Rows
    <2>10. RunnerOnTarget'
        BY <1>a, <2>1, <2>2, <1>b DEF RunnerOnTarget, Exposed, Due, Follows, NoEosBefore, Emitted
    <2>11. PublishedWhatIsDue'
        <3>1. Exposed' = Exposed /\ Len(Due)' <= Len(Due) /\ Len(Due)' \in Nat
            BY <1>a, <2>1, <2>2, <1>b DEF Exposed, Due
        <3>2. engine'.position = engine.position /\ drafter'.position = drafter.position
            BY <1>a, <2>1, <2>2
        <3> QED BY <3>1, <3>2, <1>s
    <2> QED BY <2>3, <2>4, <2>5, <2>6, <2>7, <2>8, <2>9, <2>10, <2>11 DEF IInv
<1>5. CASE VerifyFails
    <2>1. /\ target' = target /\ runtime' = runtime /\ drafter' = drafter
          /\ request' = request /\ runner' = runner /\ frame' = frame
          /\ session'.phase = "failed" /\ session'.epoch = session.epoch
          /\ session'.position = session.position /\ session'.seed = session.seed
          /\ session'.emitted = session.emitted /\ session'.finished = session.finished
          /\ session'.pending = session.pending /\ engine'.phase = "failed"
          /\ engine'.position = engine.position /\ engine'.consumed = engine.consumed
          /\ bridge'.failed
        BY <1>5 DEF VerifyFails, Prepared, Settled, TypeOK, SessionType, EngineType
    <2>2. /\ session.phase = "pending" /\ ~request.busy /\ frame.output = NoOutput
        BY <1>5 DEF VerifyFails, Prepared, Settled, TypeOK, SessionType, EngineType
    <2>3. StreamOnTarget'
        BY <1>a, <2>1, <2>2 DEF StreamOnTarget, Follows, NoEosBefore, Emitted
    <2>4. TicketAtFrontier'
        BY <1>a, <2>1, <2>2 DEF TicketAtFrontier, Rows, Emitted
    <2>5. PhasesAgree'
        BY <1>a, <2>1, <2>2 DEF PhasesAgree
    <2>6. EngineAtFrontier'
        BY <1>a, <2>1, <2>2 DEF EngineAtFrontier, At, Follows, Emitted, Decided
    <2>7. DrafterAtFrontier'
        BY <1>a, <2>1, <2>2 DEF DrafterAtFrontier, Decided, PhasesAgree
    <2>8. PredictionsOnTarget'
        BY <1>a, <2>1, <2>2 DEF PredictionsOnTarget, Predicts, Rows
    <2>9. DecisionOnTarget'
        BY <1>a, <2>1, <2>2 DEF DecisionOnTarget, Decided, Emitted, Rows
    <2>10. RunnerOnTarget'
        BY <1>a, <2>1, <2>2 DEF RunnerOnTarget, Exposed, Due, Follows, NoEosBefore, Emitted
    <2>11. PublishedWhatIsDue'
        <3>1. Exposed' = Exposed /\ Len(Due)' <= Len(Due) /\ Len(Due)' \in Nat
            BY <1>a, <2>1, <2>2, <1>b DEF Exposed, Due
        <3>2. engine'.position = engine.position /\ drafter'.position = drafter.position
            BY <1>a, <2>1, <2>2
        <3> QED BY <3>1, <3>2, <1>s
    <2> QED BY <2>3, <2>4, <2>5, <2>6, <2>7, <2>8, <2>9, <2>10, <2>11 DEF IInv
<1>6. CASE PackedVerifyFails
    <2>1. /\ target' = target /\ runtime' = runtime /\ engine' = engine /\ drafter' = drafter
          /\ request' = request /\ runner' = runner /\ frame' = frame
          /\ session'.phase = "failed" /\ session'.epoch = session.epoch
          /\ session'.position = session.position /\ session'.seed = session.seed
          /\ session'.emitted = session.emitted /\ session'.finished = session.finished
          /\ session'.pending = session.pending /\ bridge'.failed
        BY <1>6 DEF PackedVerifyFails, Prepared, Settled, TypeOK, SessionType, EngineType
    <2>2. /\ session.phase = "pending" /\ engine.phase = "idle" /\ ~request.busy
          /\ frame.output = NoOutput
        BY <1>6 DEF PackedVerifyFails, Prepared, Settled, TypeOK, SessionType, EngineType
    <2>3. StreamOnTarget'
        BY <1>a, <2>1, <2>2 DEF StreamOnTarget, Follows, NoEosBefore, Emitted
    <2>4. TicketAtFrontier'
        BY <1>a, <2>1, <2>2 DEF TicketAtFrontier, Rows, Emitted
    <2>5. PhasesAgree'
        BY <1>a, <2>1, <2>2 DEF PhasesAgree
    <2>6. EngineAtFrontier'
        BY <1>a, <2>1, <2>2 DEF EngineAtFrontier, At, Follows, Emitted, Decided
    <2>7. DrafterAtFrontier'
        BY <1>a, <2>1, <2>2 DEF DrafterAtFrontier, Decided, PhasesAgree
    <2>8. PredictionsOnTarget'
        BY <1>a, <2>1, <2>2 DEF PredictionsOnTarget, Predicts, Rows
    <2>9. DecisionOnTarget'
        BY <1>a, <2>1, <2>2 DEF DecisionOnTarget, Decided, Emitted, Rows
    <2>10. RunnerOnTarget'
        BY <1>a, <2>1, <2>2 DEF RunnerOnTarget, Exposed, Due, Follows, NoEosBefore, Emitted
    <2>11. PublishedWhatIsDue'
        <3>1. Exposed' = Exposed /\ Len(Due)' <= Len(Due) /\ Len(Due)' \in Nat
            BY <1>a, <2>1, <2>2, <1>b DEF Exposed, Due
        <3>2. engine'.position = engine.position /\ drafter'.position = drafter.position
            BY <1>a, <2>1, <2>2
        <3> QED BY <3>1, <3>2, <1>s
    <2> QED BY <2>3, <2>4, <2>5, <2>6, <2>7, <2>8, <2>9, <2>10, <2>11 DEF IInv
<1>7. ASSUME NEW cap \in 1..Len(Rows), Prepared, EngineAtTicket, Verified(cap) PROVE IInv'
    <2>1. /\ target' = target /\ session' = session /\ runtime' = runtime
          /\ drafter' = drafter /\ bridge' = bridge /\ runner' = runner
          /\ engine'.phase = "verified" /\ engine'.position = engine.position
          /\ engine'.consumed = engine.consumed /\ request'.busy
          /\ frame'.decision = frame.decision /\ frame'.output = frame.output
          /\ Predicts(frame'.predictions, Rows)
        BY <1>7 DEF Verified, Prepared, Settled, TypeOK, EngineType, FrameType, Rows
    <2>2. /\ session.phase = "pending" /\ ~request.busy /\ frame.output = NoOutput
          /\ engine.phase = "idle" /\ ~bridge.failed
        BY <1>7 DEF Verified, Prepared, Settled, TypeOK, EngineType, FrameType, Rows
    <2>3. StreamOnTarget'
        BY <1>a, <2>1, <2>2 DEF StreamOnTarget, Follows, NoEosBefore, Emitted
    <2>4. TicketAtFrontier'
        BY <1>a, <2>1, <2>2 DEF TicketAtFrontier, Rows, Emitted
    <2>5. PhasesAgree'
        BY <1>a, <2>1, <2>2 DEF PhasesAgree
    <2>6. EngineAtFrontier'
        BY <1>a, <2>1, <2>2 DEF EngineAtFrontier, At, Follows, Emitted, Decided
    <2>7. DrafterAtFrontier'
        BY <1>a, <2>1, <2>2 DEF DrafterAtFrontier, Decided, PhasesAgree
    <2>8. PredictionsOnTarget'
        BY <1>a, <2>1, <2>2 DEF PredictionsOnTarget, Predicts, Rows
    <2>9. DecisionOnTarget'
        BY <1>a, <2>1, <2>2 DEF DecisionOnTarget, Decided, Emitted, Rows
    <2>10. RunnerOnTarget'
        BY <1>a, <2>1, <2>2 DEF RunnerOnTarget, Exposed, Due, Follows, NoEosBefore, Emitted
    <2>11. PublishedWhatIsDue'
        <3>1. Exposed' = Exposed /\ Len(Due)' <= Len(Due) /\ Len(Due)' \in Nat
            BY <1>a, <2>1, <2>2, <1>b DEF Exposed, Due
        <3>2. engine'.position = engine.position /\ drafter'.position = drafter.position
            BY <1>a, <2>1, <2>2
        <3> QED BY <3>1, <3>2, <1>s
    <2> QED BY <2>3, <2>4, <2>5, <2>6, <2>7, <2>8, <2>9, <2>10, <2>11 DEF IInv
<1>8. CASE Verify
    BY <1>a, <1>7, <1>8 DEF Verify, Rows, Prepared, TicketAtFrontier
<1>9. CASE AdoptPacked
    BY <1>7, <1>9 DEF AdoptPacked, Rows
<1>10. ASSUME NEW kind \in {"cancel", "refuse"}, BeginAbort(kind) PROVE IInv'
    <2>1. /\ target' = target /\ engine' = engine /\ drafter' = drafter /\ request' = request
          /\ bridge' = bridge /\ runner' = runner /\ session'.phase = "committing"
          /\ session'.epoch = session.epoch /\ session'.position = session.position
          /\ session'.seed = session.seed /\ session'.emitted = session.emitted
          /\ session'.finished = session.finished /\ session'.pending = session.pending
          /\ runtime'.phase = "committing" /\ runtime'.position = runtime.position
          /\ frame'.output = NoOutput /\ frame'.decision.kind = kind
          /\ frame'.decision.prefix = 0
        BY <1>10 DEF BeginAbort, AwaitingDecision, MayPublish, TypeOK, SessionType, NoFrame, NoDecision
    <2>2. /\ session.phase = "pending" /\ request.busy /\ engine.phase = "verified"
          /\ frame.output = NoOutput
        BY <1>10 DEF BeginAbort, AwaitingDecision, PhasesAgree
    <2>3. StreamOnTarget'
        BY <1>a, <2>1, <2>2 DEF StreamOnTarget, Follows, NoEosBefore, Emitted
    <2>4. TicketAtFrontier'
        BY <1>a, <2>1, <2>2 DEF TicketAtFrontier, Rows, Emitted
    <2>5. PhasesAgree'
        BY <1>a, <2>1, <2>2 DEF PhasesAgree
    <2>6. EngineAtFrontier'
        BY <1>a, <2>1, <2>2 DEF EngineAtFrontier, At, Follows, Emitted, Decided
    <2>7. DrafterAtFrontier'
        BY <1>a, <2>1, <2>2 DEF DrafterAtFrontier, Decided
    <2>8. PredictionsOnTarget'
        BY <1>a, <2>1, <2>2 DEF PredictionsOnTarget, Predicts, Rows
    <2>9. DecisionOnTarget'
        BY <1>a, <2>1, <2>2 DEF DecisionOnTarget, Decided, Emitted, Rows
    <2>10. RunnerOnTarget'
        BY <1>a, <2>1, <2>2, <1>b DEF RunnerOnTarget, Exposed, Due, Follows, NoEosBefore, Emitted
    <2>11. PublishedWhatIsDue'
        <3>1. Exposed' = Exposed /\ Len(Due)' <= Len(Due) /\ Len(Due)' \in Nat
            BY <1>a, <2>1, <2>2, <1>b DEF Exposed, Due
        <3>2. engine'.position = engine.position /\ drafter'.position = drafter.position
            BY <1>a, <2>1, <2>2
        <3> QED BY <3>1, <3>2, <1>s
    <2> QED BY <2>3, <2>4, <2>5, <2>6, <2>7, <2>8, <2>9, <2>10, <2>11 DEF IInv
<1>11. CASE BeginAbort("cancel") \/ BeginAbort("refuse")
    BY <1>10, <1>11
<1>12. CASE CommitHistory
    <2>1. /\ target' = target /\ session' = session /\ engine' = engine /\ request' = request
          /\ bridge' = bridge /\ runner' = runner /\ frame' = frame
          /\ drafter'.position = drafter.position + drafter.pending /\ drafter'.pending = 0
          /\ runtime'.phase = "idle"
          /\ runtime'.position = runtime.position + frame.decision.prefix
        BY <1>12 DEF CommitHistory, Publishing
    <2>2. /\ session.phase = "committing" /\ runtime.phase = "committing"
          /\ engine.phase = "idle"
        BY <1>12 DEF CommitHistory, Publishing
    <2>3. StreamOnTarget'
        BY <1>a, <2>1, <2>2 DEF StreamOnTarget, Follows, NoEosBefore, Emitted
    <2>4. TicketAtFrontier'
        BY <1>a, <2>1, <2>2 DEF TicketAtFrontier, Rows, Emitted
    <2>5. PhasesAgree'
        BY <1>a, <2>1, <2>2 DEF PhasesAgree
    <2>6. EngineAtFrontier'
        BY <1>a, <2>1, <2>2 DEF EngineAtFrontier, At, Follows, Emitted, Decided
    <2>7. DrafterAtFrontier'
        BY <1>a, <2>1, <2>2 DEF DrafterAtFrontier, Decided, PhasesAgree
    <2>8. PredictionsOnTarget'
        BY <1>a, <2>1, <2>2 DEF PredictionsOnTarget, Predicts, Rows
    <2>9. DecisionOnTarget'
        BY <1>a, <2>1, <2>2 DEF DecisionOnTarget, Decided, Emitted, Rows
    <2>10. RunnerOnTarget'
        BY <1>a, <2>1, <2>2 DEF RunnerOnTarget, Exposed, Due, Follows, NoEosBefore, Emitted
    <2>11. PublishedWhatIsDue'
        <3>1. Exposed' = Exposed /\ Len(Due)' <= Len(Due) /\ Len(Due)' \in Nat
            BY <1>a, <2>1, <2>2, <1>b DEF Exposed, Due
        <3>2. engine'.position = engine.position /\ drafter'.position \in {drafter.position, drafter.position + drafter.pending}
            BY <1>a, <2>1, <2>2
        <3> QED BY <3>1, <3>2, <1>s
    <2> QED BY <2>3, <2>4, <2>5, <2>6, <2>7, <2>8, <2>9, <2>10, <2>11 DEF IInv
<1>13. CASE PublicationFails
    <2>1. /\ target' = target /\ runner' = runner /\ session'.phase = "failed"
          /\ session'.epoch = session.epoch /\ session'.position = session.position
          /\ session'.seed = session.seed /\ session'.emitted = session.emitted
          /\ session'.finished = session.finished /\ session'.pending = session.pending
          /\ drafter'.position \in {drafter.position, drafter.position + drafter.pending}
          /\ engine'.phase = "failed" /\ engine'.position = engine.position
          /\ engine'.consumed = engine.consumed /\ bridge'.failed /\ ~request'.busy
          /\ frame'.output = NoOutput
        BY <1>13 DEF PublicationFails, Publishing, TypeOK, SessionType, EngineType, NoFrame
    <2>2. /\ session.phase = "committing" /\ frame.output = NoOutput
        BY <1>13 DEF PublicationFails, Publishing, PhasesAgree
    <2>3. StreamOnTarget'
        BY <1>a, <2>1, <2>2 DEF StreamOnTarget, Follows, NoEosBefore, Emitted
    <2>4. TicketAtFrontier'
        BY <1>a, <2>1, <2>2 DEF TicketAtFrontier, Rows, Emitted
    <2>5. PhasesAgree'
        BY <1>a, <2>1, <2>2 DEF PhasesAgree
    <2>6. EngineAtFrontier'
        BY <1>a, <2>1, <2>2 DEF EngineAtFrontier, At, Follows, Emitted, Decided
    <2>7. DrafterAtFrontier'
        BY <1>a, <2>1, <2>2 DEF DrafterAtFrontier, Decided
    <2>8. PredictionsOnTarget'
        BY <1>a, <2>1, <2>2 DEF PredictionsOnTarget, Predicts, Rows
    <2>9. DecisionOnTarget'
        BY <1>a, <2>1, <2>2 DEF DecisionOnTarget, Decided, Emitted, Rows
    <2>10. RunnerOnTarget'
        BY <1>a, <2>1, <2>2, <1>b DEF RunnerOnTarget, Exposed, Due, Follows, NoEosBefore, Emitted
    <2>11. PublishedWhatIsDue'
        <3>1. Exposed' = Exposed /\ Len(Due)' <= Len(Due) /\ Len(Due)' \in Nat
            BY <1>a, <2>1, <2>2, <1>b DEF Exposed, Due
        <3>2. engine'.position = engine.position /\ drafter'.position \in {drafter.position, drafter.position + drafter.pending}
            BY <1>a, <2>1, <2>2
        <3> QED BY <3>1, <3>2, <1>s
    <2> QED BY <2>3, <2>4, <2>5, <2>6, <2>7, <2>8, <2>9, <2>10, <2>11 DEF IInv
<1>14. CASE CompleteCancel
    <2>1. /\ target' = target /\ runtime' = runtime /\ engine' = engine /\ drafter' = drafter
          /\ bridge' = bridge /\ runner' = runner /\ session'.phase = "idle"
          /\ session'.epoch = session.epoch /\ session'.position = session.position
          /\ session'.seed = session.seed /\ session'.emitted = session.emitted
          /\ session'.finished = session.finished /\ session'.pending = NoTicket
          /\ ~request'.busy /\ frame'.output.tokens = <<>>
          /\ frame'.output.position = session.position
        BY <1>14 DEF CompleteCancel, TypeOK, SessionType, NoFrame
    <2>2. /\ session.phase = "committing" /\ runtime.phase = "idle" /\ engine.phase = "idle"
          /\ request.busy /\ frame.output = NoOutput /\ frame.decision.prefix = 0
          /\ ~bridge.failed
        BY <1>14 DEF CompleteCancel, PhasesAgree, DecisionOnTarget, Decided
    <2>3. StreamOnTarget'
        BY <1>a, <2>1, <2>2 DEF StreamOnTarget, Follows, NoEosBefore, Emitted
    <2>4. TicketAtFrontier'
        BY <1>a, <2>1, <2>2 DEF TicketAtFrontier, Rows, Emitted
    <2>5. PhasesAgree'
        BY <1>a, <2>1, <2>2 DEF PhasesAgree
    <2>6. EngineAtFrontier'
        BY <1>a, <2>1, <2>2 DEF EngineAtFrontier, At, Follows, Emitted, Decided
    <2>7. DrafterAtFrontier'
        BY <1>a, <2>1, <2>2 DEF DrafterAtFrontier, Decided
    <2>8. PredictionsOnTarget'
        BY <1>a, <2>1, <2>2 DEF PredictionsOnTarget, Predicts, Rows
    <2>9. DecisionOnTarget'
        BY <1>a, <2>1, <2>2 DEF DecisionOnTarget, Decided, Emitted, Rows
    <2>10. RunnerOnTarget'
        BY <1>a, <2>1, <2>2, <1>b DEF RunnerOnTarget, Exposed, Due, Follows, NoEosBefore, Emitted
    <2>11. PublishedWhatIsDue'
        <3>1. Exposed' = Exposed /\ Len(Due)' <= Len(Due) /\ Len(Due)' \in Nat
            BY <1>a, <2>1, <2>2, <1>b DEF Exposed, Due
        <3>2. engine'.position = engine.position /\ drafter'.position = drafter.position
            BY <1>a, <2>1, <2>2
        <3> QED BY <3>1, <3>2, <1>s
    <2> QED BY <2>3, <2>4, <2>5, <2>6, <2>7, <2>8, <2>9, <2>10, <2>11 DEF IInv
<1>15. CASE CompleteRefusal
    <2>1. /\ target' = target /\ runtime' = runtime /\ engine' = engine /\ drafter' = drafter
          /\ runner' = runner /\ session'.phase = "failed" /\ session'.epoch = session.epoch
          /\ session'.position = session.position /\ session'.seed = session.seed
          /\ session'.emitted = session.emitted /\ session'.finished = session.finished
          /\ session'.pending = NoTicket /\ ~request'.busy /\ bridge'.failed
          /\ frame'.output = NoOutput
        BY <1>15 DEF CompleteRefusal, TypeOK, SessionType, NoFrame
    <2>2. /\ session.phase = "committing" /\ runtime.phase = "idle" /\ engine.phase = "idle"
          /\ request.busy /\ frame.output = NoOutput /\ frame.decision.prefix = 0
          /\ ~bridge.failed
        BY <1>15 DEF CompleteRefusal, PhasesAgree, DecisionOnTarget, Decided
    <2>3. StreamOnTarget'
        BY <1>a, <2>1, <2>2 DEF StreamOnTarget, Follows, NoEosBefore, Emitted
    <2>4. TicketAtFrontier'
        BY <1>a, <2>1, <2>2 DEF TicketAtFrontier, Rows, Emitted
    <2>5. PhasesAgree'
        BY <1>a, <2>1, <2>2 DEF PhasesAgree
    <2>6. EngineAtFrontier'
        BY <1>a, <2>1, <2>2 DEF EngineAtFrontier, At, Follows, Emitted, Decided
    <2>7. DrafterAtFrontier'
        BY <1>a, <2>1, <2>2 DEF DrafterAtFrontier, Decided
    <2>8. PredictionsOnTarget'
        BY <1>a, <2>1, <2>2 DEF PredictionsOnTarget, Predicts, Rows
    <2>9. DecisionOnTarget'
        BY <1>a, <2>1, <2>2 DEF DecisionOnTarget, Decided, Emitted, Rows
    <2>10. RunnerOnTarget'
        BY <1>a, <2>1, <2>2, <1>b DEF RunnerOnTarget, Exposed, Due, Follows, NoEosBefore, Emitted
    <2>11. PublishedWhatIsDue'
        <3>1. Exposed' = Exposed /\ Len(Due)' <= Len(Due) /\ Len(Due)' \in Nat
            BY <1>a, <2>1, <2>2, <1>b DEF Exposed, Due
        <3>2. engine'.position = engine.position /\ drafter'.position = drafter.position
            BY <1>a, <2>1, <2>2
        <3> QED BY <3>1, <3>2, <1>s
    <2> QED BY <2>3, <2>4, <2>5, <2>6, <2>7, <2>8, <2>9, <2>10, <2>11 DEF IInv
<1>16. CASE PartnerFails
    <2>1. /\ target' = target /\ session' = session /\ runtime' = runtime /\ engine' = engine
          /\ drafter' = drafter /\ request' = request /\ runner' = runner /\ bridge'.failed
          /\ frame'.output = NoOutput
        BY <1>16 DEF PartnerFails, NoFrame
    <2>2. /\ ~request.busy /\ session.phase \in {"idle", "failed"}
        BY <1>16 DEF PartnerFails, RunnerOnTarget
    <2>3. StreamOnTarget'
        BY <1>a, <2>1, <2>2 DEF StreamOnTarget, Follows, NoEosBefore, Emitted
    <2>4. TicketAtFrontier'
        BY <1>a, <2>1, <2>2 DEF TicketAtFrontier, Rows, Emitted
    <2>5. PhasesAgree'
        BY <1>a, <2>1, <2>2 DEF PhasesAgree
    <2>6. EngineAtFrontier'
        BY <1>a, <2>1, <2>2 DEF EngineAtFrontier, At, Follows, Emitted, Decided
    <2>7. DrafterAtFrontier'
        BY <1>a, <2>1, <2>2 DEF DrafterAtFrontier, Decided
    <2>8. PredictionsOnTarget'
        BY <1>a, <2>1, <2>2 DEF PredictionsOnTarget, Predicts, Rows
    <2>9. DecisionOnTarget'
        BY <1>a, <2>1, <2>2 DEF DecisionOnTarget, Decided, Emitted, Rows
    <2>10. RunnerOnTarget'
        BY <1>a, <2>1, <2>2, <1>b DEF RunnerOnTarget, Exposed, Due, Follows, NoEosBefore, Emitted
    <2>11. PublishedWhatIsDue'
        <3>1. Exposed' = Exposed /\ Len(Due)' <= Len(Due) /\ Len(Due)' \in Nat
            BY <1>a, <2>1, <2>2, <1>b DEF Exposed, Due
        <3>2. engine'.position = engine.position /\ drafter'.position = drafter.position
            BY <1>a, <2>1, <2>2
        <3> QED BY <3>1, <3>2, <1>s
    <2> QED BY <2>3, <2>4, <2>5, <2>6, <2>7, <2>8, <2>9, <2>10, <2>11 DEF IInv
<1>17. CASE Close
    <2>1. /\ target' = target /\ runtime' = runtime /\ bridge' = bridge /\ runner' = runner
          /\ frame' = frame /\ engine'.phase = "closed" /\ engine'.position = engine.position
          /\ engine'.consumed = engine.consumed /\ drafter'.position = drafter.position
          /\ drafter'.pending = 0 /\ request'.busy = FALSE
          /\ session'.phase = "closed" \/ (session' = session /\ session.phase \notin {"idle", "failed"})
        BY <1>17 DEF Close, Settled, TypeOK, SessionType, EngineType
    <2>2. /\ ~request.busy /\ frame.output = NoOutput
        BY <1>17 DEF Close, Settled
    <2>3. StreamOnTarget'
        BY <1>a, <2>1, <2>2 DEF StreamOnTarget, Follows, NoEosBefore, Emitted
    <2>4. TicketAtFrontier'
        BY <1>a, <2>1, <2>2 DEF TicketAtFrontier, Rows, Emitted
    <2>5. PhasesAgree'
        BY <1>a, <2>1, <2>2 DEF PhasesAgree
    <2>6. EngineAtFrontier'
        BY <1>a, <2>1, <2>2 DEF EngineAtFrontier, At, Follows, Emitted, Decided
    <2>7. DrafterAtFrontier'
        BY <1>a, <2>1, <2>2 DEF DrafterAtFrontier, Decided, PhasesAgree
    <2>8. PredictionsOnTarget'
        BY <1>a, <2>1, <2>2 DEF PredictionsOnTarget, Predicts, Rows
    <2>9. DecisionOnTarget'
        BY <1>a, <2>1, <2>2 DEF DecisionOnTarget, Decided, Emitted, Rows
    <2>10. RunnerOnTarget'
        BY <1>a, <2>1, <2>2 DEF RunnerOnTarget, Exposed, Due, Follows, NoEosBefore, Emitted
    <2>11. PublishedWhatIsDue'
        <3>1. Exposed' = Exposed /\ Len(Due)' <= Len(Due) /\ Len(Due)' \in Nat
            BY <1>a, <2>1, <2>2, <1>b DEF Exposed, Due
        <3>2. engine'.position = engine.position /\ drafter'.position = drafter.position
            BY <1>a, <2>1, <2>2
        <3> QED BY <3>1, <3>2, <1>s
    <2> QED BY <2>3, <2>4, <2>5, <2>6, <2>7, <2>8, <2>9, <2>10, <2>11 DEF IInv
<1>18. ASSUME NEW limit \in Nat, limit <= Remaining, NEW proposals \in Seq(Token), MayDraft,
             Propose(limit, proposals), runtime'.phase \in {"idle", "proposed"},
             runtime'.position = runtime.position,
             UNCHANGED <<target, engine, drafter, request, bridge, runner, frame>>
      PROVE  IInv'
    <2>1. /\ target' = target /\ engine' = engine /\ drafter' = drafter /\ request' = request
          /\ bridge' = bridge /\ runner' = runner /\ frame' = frame
          /\ session'.phase = "pending" /\ session'.position = session.position
          /\ session'.seed = session.seed /\ session'.emitted = session.emitted
          /\ session'.finished = session.finished
          /\ session'.pending.position = session.position
          /\ Len(session'.pending.tokens) \in 1..limit
          /\ session'.pending.tokens[1] = session.seed
        <3>1. session \in SessionType /\ session.seed \in Token
            BY <1>18 DEF MayDraft, Shape, TypeOK
        <3> QED BY <1>18, <3>1, ProposeEffect
    <2>2. /\ session.phase = "idle" /\ ~session.finished /\ ~request.busy
          /\ frame.output = NoOutput /\ engine.phase = "idle"
        BY <1>18 DEF MayDraft, Settled
    <2>3. StreamOnTarget'
        BY <1>a, <2>1, <2>2 DEF StreamOnTarget, Follows, NoEosBefore, Emitted
    <2>4. TicketAtFrontier'
        <3>1. Emitted' = Emitted /\ Len(Rows)' \in 1..limit /\ limit <= MaxNew - Emitted
            BY <1>18, <2>1 DEF Emitted, Rows, Remaining
        <3>2. Len(Rows)' >= 1 /\ Emitted' + Len(Rows)' <= MaxNew
            BY <1>a, <1>18, <3>1
        <3> QED BY <2>1, <2>2, <3>2 DEF TicketAtFrontier, Rows
    <2>5. PhasesAgree'
        BY <1>a, <2>1, <2>2, <1>18 DEF PhasesAgree
    <2>6. EngineAtFrontier'
        BY <1>a, <2>1, <2>2 DEF EngineAtFrontier, At, Follows, Emitted, Decided
    <2>7. DrafterAtFrontier'
        BY <1>a, <2>1, <2>2, <1>18 DEF DrafterAtFrontier, Decided
    <2>8. PredictionsOnTarget'
        BY <1>a, <2>1, <2>2 DEF PredictionsOnTarget, Predicts, Rows
    <2>9. DecisionOnTarget'
        BY <1>a, <2>1, <2>2 DEF DecisionOnTarget, Decided, Emitted, Rows
    <2>10. RunnerOnTarget'
        BY <1>a, <2>1, <2>2 DEF RunnerOnTarget, Exposed, Due, Follows, NoEosBefore, Emitted
    <2>11. PublishedWhatIsDue'
        <3>1. Exposed' = Exposed /\ Len(Due)' <= Len(Due) /\ Len(Due)' \in Nat
            BY <1>a, <2>1, <2>2, <1>b DEF Exposed, Due
        <3>2. engine'.position = engine.position /\ drafter'.position = drafter.position
            BY <1>a, <2>1, <2>2
        <3> QED BY <3>1, <3>2, <1>s
    <2> QED BY <2>3, <2>4, <2>5, <2>6, <2>7, <2>8, <2>9, <2>10, <2>11 DEF IInv
<1>19. CASE DraftFromLookup
    <2>1. PICK rows \in Widths : \E n \in 0..(Min2(rows, Remaining) - 1) :
               \E proposals \in [1..n -> Token] : Propose(Min2(rows, Remaining), proposals)
        BY <1>19 DEF DraftFromLookup
    <2>2. PICK n \in 0..(Min2(rows, Remaining) - 1) :
               \E proposals \in [1..n -> Token] : Propose(Min2(rows, Remaining), proposals)
        BY <2>1
    <2>3. PICK proposals \in [1..n -> Token] : Propose(Min2(rows, Remaining), proposals)
        BY <2>2
    <2>4. Remaining \in Int /\ rows \in Nat
        BY <1>a, WidthAssumption DEF Remaining, Emitted
    <2>5. Min2(rows, Remaining) \in Nat /\ Min2(rows, Remaining) <= Remaining /\ n \in Nat
        BY <2>2, <2>4 DEF Min2
    <2>6. proposals \in Seq(Token)
        BY <2>3, <2>5, FunctionIsSequence
    <2>7. /\ MayDraft /\ runtime'.phase \in {"idle", "proposed"} /\ runtime'.position = runtime.position
          /\ UNCHANGED <<target, engine, drafter, request, bridge, runner, frame>>
        BY <1>19 DEF DraftFromLookup, MayDraft, PhasesAgree
    <2> QED BY <1>18, <2>3, <2>5, <2>6, <2>7
<1>20. CASE DraftFromNeural
    <2> DEFINE count(rows) == Min2(Min2(rows, Remaining) - 1, MaxDrafts)
    <2>1. PICK rows \in Widths : count(rows) >= 1 /\
               \E proposals \in [1..count(rows) -> Token] : Propose(Min2(rows, Remaining), proposals)
        BY <1>20 DEF DraftFromNeural
    <2>2. PICK proposals \in [1..count(rows) -> Token] : Propose(Min2(rows, Remaining), proposals)
        BY <2>1
    <2>3. Remaining \in Int /\ rows \in Nat /\ MaxDrafts \in Nat
        BY <1>a, WidthAssumption, BoundAssumption DEF Remaining, Emitted
    <2>4. Min2(rows, Remaining) \in Int /\ Min2(rows, Remaining) <= Remaining
        BY <2>3 DEF Min2
    <2>5. Min2(rows, Remaining) \in Nat /\ count(rows) \in Nat
        <3> DEFINE l == Min2(rows, Remaining)
        <3>1. l \in Int /\ Min2(l - 1, MaxDrafts) >= 1
            BY <2>1, <2>4
        <3> HIDE DEF l
        <3> QED BY <2>3, <3>1 DEF Min2, l
    <2>6. proposals \in Seq(Token)
        BY <2>5, FunctionIsSequence
    <2>7. /\ MayDraft /\ runtime'.phase \in {"idle", "proposed"} /\ runtime'.position = runtime.position
          /\ UNCHANGED <<target, engine, drafter, request, bridge, runner, frame>>
        BY <1>20 DEF DraftFromNeural, TypeOK
    <2> QED BY <1>18, <2>2, <2>4, <2>5, <2>6, <2>7
<1>21. CASE Narrow
    <2>a. PICK rows \in Captured :
         /\ Widest(Captured, Len(session.pending.tokens), rows)
         /\ session' = [session EXCEPT !.epoch = @ + 1,
                !.pending = [epoch |-> session.epoch + 1, position |-> session.pending.position,
                             tokens |-> SubSeq(session.pending.tokens, 1, rows)]]
        BY <1>21, Zenon DEF Narrow
    <2> DEFINE tokens == SubSeq(Rows, 1, rows)
               ticket == [epoch |-> session.epoch + 1, position |-> session.pending.position, tokens |-> tokens]
    <2>b. rows \in Nat \ {0} /\ rows <= Len(Rows) /\ 1 \in 1..rows
        BY <1>a, <2>a, WidthAssumption DEF Widest, Rows
    <2>c. Len(tokens) = rows /\ tokens[1] = Rows[1]
        <3>1. Rows \in Seq(Token)
            BY DEF TypeOK, SessionType, Ticket, Rows
        <3> QED BY <2>b, <3>1, FirstRows
    <2>d. /\ session' = [session EXCEPT !.epoch = session.epoch + 1, !.pending = ticket]
          /\ ticket.position = session.pending.position /\ ticket.tokens = tokens
        BY <2>a DEF Rows
    <2> HIDE DEF ticket, tokens
    <2>1. /\ target' = target /\ runtime' = runtime /\ engine' = engine /\ drafter' = drafter
          /\ request' = request /\ bridge' = bridge /\ runner' = runner /\ frame' = frame
          /\ session'.phase = session.phase /\ session'.position = session.position
          /\ session'.seed = session.seed /\ session'.emitted = session.emitted
          /\ session'.finished = session.finished
          /\ session'.pending.position = session.pending.position
          /\ session'.pending.tokens = tokens
        BY <1>21, <2>d DEF Narrow, TypeOK, SessionType
    <2>2. session.phase = "pending" /\ engine.phase = "idle" /\ ~request.busy /\ frame.output = NoOutput
        BY <1>21 DEF Narrow, Prepared, Settled
    <2>3. StreamOnTarget'
        BY <1>a, <2>1, <2>2 DEF StreamOnTarget, Follows, NoEosBefore, Emitted
    <2>4. TicketAtFrontier'
        <3>1. Emitted' = Emitted /\ Len(Rows)' = rows /\ Emitted + Len(Rows) <= MaxNew
            BY <2>1, <2>2, <2>c DEF Emitted, Rows, TicketAtFrontier
        <3>2. Len(Rows)' >= 1 /\ Emitted' + Len(Rows)' <= MaxNew
            BY <1>a, <2>b, <3>1
        <3> QED BY <2>1, <2>2, <2>c, <3>2 DEF TicketAtFrontier, Rows
    <2>5. PhasesAgree'
        BY <1>a, <2>1, <2>2 DEF PhasesAgree
    <2>6. EngineAtFrontier'
        BY <1>a, <2>1, <2>2 DEF EngineAtFrontier, At, Follows, Emitted, Decided
    <2>7. DrafterAtFrontier'
        BY <1>a, <2>1, <2>2 DEF DrafterAtFrontier, Decided
    <2>8. PredictionsOnTarget'
        BY <1>a, <2>1, <2>2 DEF PredictionsOnTarget, Predicts, Rows
    <2>9. DecisionOnTarget'
        BY <1>a, <2>1, <2>2 DEF DecisionOnTarget, Decided, Emitted, Rows
    <2>10. RunnerOnTarget'
        BY <1>a, <2>1, <2>2 DEF RunnerOnTarget, Exposed, Due, Follows, NoEosBefore, Emitted
    <2>11. PublishedWhatIsDue'
        <3>1. Exposed' = Exposed /\ Len(Due)' <= Len(Due) /\ Len(Due)' \in Nat
            BY <1>a, <2>1, <2>2, <1>b DEF Exposed, Due
        <3>2. engine'.position = engine.position /\ drafter'.position = drafter.position
            BY <1>a, <2>1, <2>2
        <3> QED BY <3>1, <3>2, <1>s
    <2> QED BY <2>3, <2>4, <2>5, <2>6, <2>7, <2>8, <2>9, <2>10, <2>11 DEF IInv
<1>22. CASE BeginCommit
    <2> DEFINE proposals == SubSeq(Rows, 2, frame.cap)
    <2>a. PICK accepted \in 0..Len(proposals) :
             /\ AcceptedPrefix(proposals, frame.predictions, accepted)
             /\ frame' = [NoFrame EXCEPT !.decision = SelectPrefix(proposals, frame.predictions, accepted)]
             /\ drafter' = [drafter EXCEPT !.pending = SelectPrefix(proposals, frame.predictions, accepted).prefix]
        BY <1>22 DEF BeginCommit, Rows
    <2> DEFINE d == SelectPrefix(proposals, frame.predictions, accepted)
    <2>b. /\ session.phase = "pending" /\ request.busy /\ engine.phase = "verified"
          /\ frame.output = NoOutput /\ drafter.pending = 0 /\ ~session.finished
        BY <1>22 DEF BeginCommit, AwaitingDecision, PhasesAgree, TicketAtFrontier
    <2>c. /\ Rows \in Seq(Token) /\ frame.predictions \in Seq(Token)
          /\ Len(frame.predictions) = Len(Rows) /\ frame.cap \in 1..Len(Rows)
        BY <2>b DEF TypeOK, SessionType, FrameType, Ticket, Rows, Shape
    <2>d. Len(proposals) = frame.cap - 1
        BY <2>c, ProposalRowsOf
    <2>e. Emitted + Len(Rows) <= MaxNew /\ Predicts(frame.predictions, Rows)
        BY <2>b DEF TicketAtFrontier, PredictionsOnTarget
    <2>f. /\ d.kind = "commit" /\ d.prefix \in 1..frame.cap /\ Len(d.emitted) = d.prefix
          /\ Emitted + d.prefix <= MaxNew
          /\ \A i \in 1..d.prefix : d.emitted[i] = target[Emitted + i]
          /\ \A i \in 1..(d.prefix - 1) : /\ Rows[i + 1] = target[Emitted + i]
                                          /\ target[Emitted + i] \notin Eos
          /\ ~d.finished => /\ d.next = target[Emitted + d.prefix]
                            /\ d.next \notin Eos
        <3>1. accepted \in 0..(frame.cap - 1) /\ AcceptedPrefix(proposals, frame.predictions, accepted)
            BY <2>a, <2>d
        <3> QED BY <2>c, <2>e, <3>1, SelectPrefixOnTarget
    <2> HIDE DEF d
    <2>g. frame'.decision = d /\ frame'.output = NoOutput /\ drafter'.pending = d.prefix
        BY <2>a DEF d, NoFrame, TypeOK
    <2>1. /\ target' = target /\ engine' = engine /\ request' = request /\ bridge' = bridge
          /\ runner' = runner /\ session'.phase = "committing" /\ session'.position = session.position
          /\ session'.seed = session.seed /\ session'.emitted = session.emitted
          /\ session'.finished = session.finished /\ session'.pending = session.pending
          /\ runtime'.phase = "committing" /\ runtime'.position = runtime.position
          /\ drafter'.position = drafter.position
        BY <1>22, <2>a DEF BeginCommit, TypeOK, SessionType
    <2>2. Decided' = d /\ Emitted' = Emitted /\ Rows' = Rows /\ d.prefix >= 1
        BY <2>c, <2>f, <2>g, <2>1, <1>a DEF Decided, Emitted, Rows
    <2>3. StreamOnTarget'
        BY <1>a, <2>1, <2>2, <2>b DEF StreamOnTarget, Follows, NoEosBefore, Emitted
    <2>4. TicketAtFrontier'
        BY <1>a, <2>1, <2>2, <2>b DEF TicketAtFrontier, Rows, Emitted
    <2>5. PhasesAgree'
        BY <1>a, <2>1, <2>2, <2>b, <2>g DEF PhasesAgree
    <2>6. EngineAtFrontier'
        BY <1>a, <2>1, <2>2, <2>b DEF EngineAtFrontier, At, Follows, Emitted, Decided
    <2>7. DrafterAtFrontier'
        BY <1>a, <2>1, <2>2, <2>b, <2>g DEF DrafterAtFrontier, Decided
    <2>8. PredictionsOnTarget'
        BY <1>a, <2>1, <2>2 DEF PredictionsOnTarget, Predicts, Rows
    <2>9. DecisionOnTarget'
        BY <2>1, <2>2, <2>f DEF DecisionOnTarget
    <2>10. RunnerOnTarget'
        BY <1>a, <2>1, <2>2, <2>b, <2>g, <1>b DEF RunnerOnTarget, Exposed, Due, Follows,
           NoEosBefore, Emitted
    <2>11. PublishedWhatIsDue'
        <3>1. Exposed' = Exposed /\ Len(Due)' <= Len(Due) /\ Len(Due)' \in Nat
            BY <1>a, <1>b, <2>1, <2>b, <2>g DEF Exposed, Due
        <3>2. engine'.position = engine.position /\ drafter'.position = drafter.position
            BY <2>1
        <3> QED BY <3>1, <3>2, <1>s
    <2> QED BY <2>3, <2>4, <2>5, <2>6, <2>7, <2>8, <2>9, <2>10, <2>11 DEF IInv
<1>23. CASE PublishTarget
    <2>a. session.phase = "committing" /\ runtime.phase = "committing" /\ engine.phase = "verified" /\ request.busy
        BY <1>23 DEF PublishTarget, Publishing, PhasesAgree
    <2>b. /\ Rows \in Seq(Token) /\ Decided.prefix <= Len(Rows) /\ engine.consumed \in Seq(Token)
        BY <2>a DEF TypeOK, SessionType, EngineType, Ticket, Rows, Shape, Decided
    <2> DEFINE committed == SubSeq(Rows, 1, Decided.prefix)
    <2>c. committed \in Seq(Token) /\ Len(committed) = Decided.prefix /\ \A i \in 1..Decided.prefix : committed[i] = Rows[i]
        BY <1>a, <2>b, FirstRows
    <2> HIDE DEF committed
    <2>d. /\ Emitted >= 1 /\ session.seed = target[Emitted] /\ Rows[1] = session.seed
          /\ Emitted <= MaxNew
        <3>1. Emitted \in 1..Len(session.emitted)
            BY <1>a, <2>a DEF StreamOnTarget, Emitted
        <3> QED BY <2>a, <3>1 DEF StreamOnTarget, TicketAtFrontier, Follows, Emitted
    <2>e. /\ Emitted + Decided.prefix <= MaxNew
          /\ \A i \in 1..(Decided.prefix - 1) : Rows[i + 1] = target[Emitted + i]
        <3>1. CASE Decided.prefix = 0
            <4>1. Emitted + 0 = Emitted /\ 1..(0 - 1) = {}
                BY <1>n
            <4> QED BY <2>d, <3>1, <4>1
        <3>2. CASE Decided.prefix # 0
            BY <2>a, <3>2 DEF DecisionOnTarget
        <3> QED BY <3>1, <3>2
    <2>f. Follows(engine.consumed) /\ Len(engine.consumed) = Emitted - 1 /\ engine.position = session.position
        BY <2>a DEF EngineAtFrontier, At
    <2>g. ASSUME NEW i \in 1..Decided.prefix PROVE committed[i] = target[(Emitted - 1) + i]
        <3>1. CASE i = 1
            <4>1. (Emitted - 1) + i = Emitted
                BY <1>a, <3>1
            <4> QED BY <2>c, <2>d, <3>1, <4>1
        <3>2. CASE i # 1
            <4>1. i - 1 \in 1..(Decided.prefix - 1) /\ (i - 1) + 1 = i /\ Emitted + (i - 1) = (Emitted - 1) + i
                BY <1>a, <3>2
            <4> QED BY <2>c, <2>e, <4>1
        <3> QED BY <3>1, <3>2
    <2>h. Follows(engine.consumed \o committed)
          /\ Len(engine.consumed \o committed) = Emitted - 1 + Decided.prefix
        <3>1. Len(engine.consumed) + Len(committed) <= MaxNew
            <4>1. Emitted - 1 + Decided.prefix <= MaxNew
                BY <1>n, <2>e
            <4> QED BY <2>c, <2>f, <4>1
        <3>2. \A i \in 1..Len(committed) : committed[i] = target[Len(engine.consumed) + i]
            BY <2>c, <2>f, <2>g
        <3>3. Len(engine.consumed) + Len(committed) = Emitted - 1 + Decided.prefix
            BY <2>c, <2>f
        <3> QED BY <2>b, <2>c, <2>f, <3>1, <3>2, <3>3, FollowsConcat
    <2>1. /\ target' = target /\ session' = session /\ runtime' = runtime /\ drafter' = drafter
          /\ request' = request /\ bridge' = bridge /\ runner' = runner /\ frame' = frame
          /\ engine'.phase = "idle" /\ engine'.position = engine.position + Decided.prefix
          /\ engine'.consumed = engine.consumed \o committed
        BY <1>23 DEF PublishTarget, committed, Rows, Decided
    <2>2. session.phase = "committing"
        BY <2>a
    <2>3. StreamOnTarget'
        BY <1>a, <2>1, <2>2 DEF StreamOnTarget, Follows, NoEosBefore, Emitted
    <2>4. TicketAtFrontier'
        BY <1>a, <2>1, <2>2 DEF TicketAtFrontier, Rows, Emitted
    <2>5. PhasesAgree'
        BY <1>a, <2>1, <2>2, <2>a DEF PhasesAgree
    <2>6. EngineAtFrontier'
        <3>1. engine'.position = session.position + Decided.prefix
            BY <2>1, <2>f
        <3>2. At(session.position + Decided.prefix, Emitted - 1 + Decided.prefix)'
            BY <2>1, <2>h, <3>1 DEF At, Follows, Decided, Emitted
        <3> QED BY <2>1, <2>2, <3>2 DEF EngineAtFrontier
    <2>7. DrafterAtFrontier'
        BY <1>a, <2>1, <2>2 DEF DrafterAtFrontier, Decided
    <2>8. PredictionsOnTarget'
        BY <1>a, <2>1, <2>2 DEF PredictionsOnTarget, Predicts, Rows
    <2>9. DecisionOnTarget'
        BY <1>a, <2>1, <2>2 DEF DecisionOnTarget, Decided, Emitted, Rows
    <2>10. RunnerOnTarget'
        BY <1>a, <2>1, <2>2 DEF RunnerOnTarget, Exposed, Due, Follows, NoEosBefore, Emitted
    <2>11. PublishedWhatIsDue'
        <3>1. Shown' = Shown /\ Shown \in Int
            BY <1>a, <2>1 DEF Shown, Exposed, Due
        <3>2. Shown <= engine.position + Decided.prefix
            BY <1>a, <3>1, IntegerOrder DEF PublishedWhatIsDue
        <3> QED BY <2>1, <3>1, <3>2 DEF PublishedWhatIsDue
    <2> QED BY <2>3, <2>4, <2>5, <2>6, <2>7, <2>8, <2>9, <2>10, <2>11 DEF IInv
<1>24. CASE CompleteCommit
    <2> DEFINE emitted == session.emitted \o Decided.emitted
    <2>a. /\ session.phase = "committing" /\ runtime.phase = "idle" /\ Decided.kind = "commit"
          /\ engine.phase = "idle" /\ request.busy /\ frame.output = NoOutput /\ ~bridge.failed
          /\ ~session.finished
        BY <1>24 DEF CompleteCommit, PhasesAgree, TicketAtFrontier, Decided
    <2>b. /\ Decided.prefix >= 1 /\ Len(Decided.emitted) = Decided.prefix /\ Emitted + Decided.prefix <= MaxNew
          /\ \A i \in 1..Decided.prefix : Decided.emitted[i] = target[Emitted + i]
          /\ \A i \in 1..(Decided.prefix - 1) : target[Emitted + i] \notin Eos
          /\ ~Decided.finished => Decided.next = target[Emitted + Decided.prefix] /\ Decided.next \notin Eos
        BY <2>a DEF DecisionOnTarget
    <2>c. session.emitted \in Seq(Token) /\ Decided.emitted \in Seq(Token)
        BY DEF TypeOK, SessionType, FrameType, Decision, Decided
    <2>d. /\ Emitted >= 1 /\ Follows(session.emitted) /\ NoEosBefore(Emitted) /\ target[Emitted] \notin Eos
          /\ session.position = Prompt + Emitted - 1
        <3>1. Emitted \in 1..Len(session.emitted)
            BY <1>a, <2>a DEF StreamOnTarget, Emitted
        <3> QED BY <2>a, <3>1 DEF StreamOnTarget, Follows, Emitted
    <2>e. Follows(emitted) /\ Len(emitted) = Emitted + Decided.prefix
        <3>1. Len(session.emitted) + Len(Decided.emitted) <= MaxNew
            BY <2>b DEF Emitted
        <3>2. \A i \in 1..Len(Decided.emitted) : Decided.emitted[i] = target[Len(session.emitted) + i]
            BY <2>b DEF Emitted
        <3>3. Follows(session.emitted \o Decided.emitted)
              /\ Len(session.emitted \o Decided.emitted) = Len(session.emitted) + Len(Decided.emitted)
            BY <2>c, <2>d, <3>1, <3>2, FollowsConcat
        <3> QED BY <2>b, <3>3 DEF Emitted
    <2> HIDE DEF emitted
    <2>f. NoEosBefore(Emitted + Decided.prefix)
        <3>1. ASSUME NEW i \in 1..((Emitted + Decided.prefix) - 1) PROVE target[i] \notin Eos
            <4>1. CASE i < Emitted
                <5>1. i \in 1..(Emitted - 1)
                    BY <1>n, <4>1
                <5> QED BY <2>d, <5>1 DEF NoEosBefore
            <4>2. CASE i = Emitted
                BY <2>d, <4>2
            <4>3. CASE i > Emitted
                <5>1. i - Emitted \in 1..(Decided.prefix - 1) /\ Emitted + (i - Emitted) = i
                    BY <1>n, <4>3
                <5> QED BY <2>b, <5>1
            <4> QED BY <1>n, <4>1, <4>2, <4>3
        <3> QED BY <3>1 DEF NoEosBefore
    <2>g. emitted[Emitted + Decided.prefix] = target[Emitted + Decided.prefix]
        <3>1. Decided.prefix >= 1
            BY <2>b
        <3>2. Emitted + Decided.prefix \in 1..(Emitted + Decided.prefix)
            BY <1>n, <3>1
        <3> QED BY <2>e, <3>2 DEF Follows
    <2>1. /\ target' = target /\ runtime' = runtime /\ engine' = engine /\ drafter' = drafter
          /\ bridge' = bridge /\ runner' = runner /\ ~request'.busy
          /\ session'.phase = "idle" /\ session'.position = session.position + Decided.prefix
          /\ session'.seed = Decided.next /\ session'.emitted = emitted /\ session'.pending = NoTicket
          /\ session'.finished = (Decided.finished \/ Len(emitted) = MaxNew)
          /\ frame'.output.tokens = Decided.emitted
          /\ frame'.output.position = session.position + Decided.prefix
        <3>1. /\ target' = target /\ runtime' = runtime /\ engine' = engine /\ drafter' = drafter
              /\ bridge' = bridge /\ runner' = runner
              /\ request' = [request EXCEPT !.busy = FALSE]
              /\ session' = [session EXCEPT !.position = session.position + Decided.prefix,
                     !.seed = Decided.next, !.emitted = emitted, !.phase = "idle", !.pending = NoTicket,
                     !.finished = Decided.finished \/ Len(emitted) = MaxNew]
              /\ frame' = [NoFrame EXCEPT !.output = [kind |-> "tokens", tokens |-> Decided.emitted,
                     position |-> session.position + Decided.prefix]]
            BY <1>24 DEF CompleteCommit, Decided, emitted
        <3>2. session \in SessionType /\ request \in [busy : BOOLEAN, cancelled : BOOLEAN, closed : BOOLEAN]
            BY DEF TypeOK
        <3> HIDE DEF emitted
        <3>3. /\ session'.phase = "idle" /\ session'.position = session.position + Decided.prefix
              /\ session'.seed = Decided.next /\ session'.emitted = emitted /\ session'.pending = NoTicket
              /\ session'.finished = (Decided.finished \/ Len(emitted) = MaxNew)
            BY <3>1, <3>2 DEF SessionType
        <3>4. ~request'.busy
            BY <3>1, <3>2
        <3>5. /\ frame'.output.tokens = Decided.emitted
              /\ frame'.output.position = session.position + Decided.prefix
            BY <3>1 DEF NoFrame
        <3> QED BY <3>1, <3>3, <3>4, <3>5
    <2>2. Emitted' = Emitted + Decided.prefix /\ Exposed' = Exposed /\ Due' = Decided.emitted
          /\ Exposed = Emitted
        <3>1. Exposed + Len(Due) = Emitted
            BY <2>a DEF RunnerOnTarget
        <3>2. Len(Due) = 0
            BY <1>b, <2>a DEF Due
        <3> QED BY <1>a, <2>1, <2>e, <3>1, <3>2 DEF Emitted, Exposed, Due
    <2>k. session.position + Decided.prefix = Prompt + (Emitted + Decided.prefix) - 1
        BY <1>d, <1>n, <2>d
    <2>3. StreamOnTarget'
        <3>1. Emitted' >= 1 /\ Follows(session.emitted)' /\ NoEosBefore(Emitted)'
            BY <1>a, <2>1, <2>2, <2>b, <2>e, <2>f DEF Follows, NoEosBefore
        <3>2. session'.position = Prompt + Emitted' - 1
            BY <2>1, <2>2, <2>k
        <3>3. ASSUME ~session'.finished
              PROVE  /\ session'.seed = session'.emitted[Emitted'] /\ session'.seed \notin Eos
                     /\ Emitted' < MaxNew
            <4>1. ~Decided.finished /\ Len(emitted) # MaxNew
                BY <2>1, <3>3
            <4> QED BY <1>a, <2>1, <2>2, <2>b, <2>e, <2>g, <4>1
        <3> QED BY <2>1, <3>1, <3>2, <3>3 DEF StreamOnTarget
    <2>4. TicketAtFrontier'
        BY <2>1 DEF TicketAtFrontier
    <2>5. PhasesAgree'
        BY <2>1, <2>a DEF PhasesAgree
    <2>6. EngineAtFrontier'
        <3>1. engine.position = session.position + Decided.prefix /\ Follows(engine.consumed)
              /\ Len(engine.consumed) = Emitted - 1 + Decided.prefix
            BY <2>a DEF EngineAtFrontier, At
        <3>2. Emitted - 1 + Decided.prefix = Emitted' - 1
            <4>1. Emitted - 1 + Decided.prefix = (Emitted + Decided.prefix) - 1
                BY <1>n
            <4> QED BY <2>2, <4>1
        <3>3. At(session.position, Emitted - 1)'
            BY <2>1, <3>1, <3>2 DEF At, Follows
        <3> QED BY <2>1, <3>3 DEF EngineAtFrontier
    <2>7. DrafterAtFrontier'
        BY <2>1, <2>a DEF DrafterAtFrontier
    <2>8. PredictionsOnTarget'
        BY <2>1 DEF PredictionsOnTarget
    <2>9. DecisionOnTarget'
        BY <2>1 DEF DecisionOnTarget
    <2>10. RunnerOnTarget'
        <3>1. /\ Exposed' >= 1 /\ Follows(runner.output)' /\ NoEosBefore(Exposed)'
              /\ runner'.computed = Prompt + Exposed' - 1
            BY <1>a, <2>1, <2>2 DEF RunnerOnTarget, Follows, NoEosBefore
        <3>2. ASSUME NEW i \in 1..Len(Due') PROVE Exposed' + i <= MaxNew /\ Due'[i] = target'[Exposed' + i]
            <4>1. i \in 1..Decided.prefix /\ Emitted + Decided.prefix <= MaxNew
                BY <2>2, <2>b
            <4>2. Emitted + i <= MaxNew
                BY <1>n, <4>1
            <4> QED BY <2>1, <2>2, <2>b, <4>1, <4>2
        <3>3. Exposed' + Len(Due') = Emitted'
            BY <2>2, <2>b
        <3> QED BY <2>1, <2>a, <3>1, <3>2, <3>3 DEF RunnerOnTarget
    <2>11. PublishedWhatIsDue'
        <3>1. Shown' = session.position + Decided.prefix
            <4>1. Exposed' = Emitted /\ Len(Due)' = Decided.prefix
                BY <2>2, <2>b
            <4>2. session.position = Prompt + Emitted - 1
                BY <2>d
            <4>3. Prompt + Emitted + Decided.prefix - 1 = session.position + Decided.prefix
                BY <1>n, <4>2
            <4> QED BY <4>1, <4>3 DEF Shown
        <3>2. engine.position = session.position + Decided.prefix /\ drafter.position = session.position + Decided.prefix
            BY <2>a DEF EngineAtFrontier, At, DrafterAtFrontier
        <3>3. session.position + Decided.prefix \in Int
            BY <1>d
        <3> QED BY <2>1, <3>1, <3>2, <3>3 DEF PublishedWhatIsDue
    <2> QED BY <2>3, <2>4, <2>5, <2>6, <2>7, <2>8, <2>9, <2>10, <2>11 DEF IInv
<1>25. CASE Deliver
    <2>a. /\ frame.output # NoOutput /\ ~request.busy /\ runner.computed = Prompt + Exposed - 1
          /\ frame.output.position = Prompt + Exposed + Len(Due) - 1
        BY <1>25 DEF Deliver, Applicable, Exposed, Due
    <2>b. /\ ~bridge.failed /\ session.phase \in {"idle", "failed"} /\ Exposed + Len(Due) = Emitted
          /\ Follows(session.emitted) /\ NoEosBefore(Emitted) /\ Emitted >= 1 /\ Emitted <= MaxNew
        BY <2>a DEF RunnerOnTarget, StreamOnTarget, Follows, Emitted
    <2>c. runner.output \in Seq(Token) /\ Due \in Seq(Token)
        BY DEF TypeOK, FrameType, Output, Due
    <2>d. Follows(runner.output \o Due) /\ Len(runner.output \o Due) = Emitted
        <3>1. \A i \in 1..Len(Due) : Due[i] = target[Len(runner.output) + i]
            BY DEF RunnerOnTarget, Exposed
        <3>2. Len(runner.output) + Len(Due) <= MaxNew /\ Follows(runner.output)
            BY <2>b DEF RunnerOnTarget, Exposed
        <3>3. Follows(runner.output \o Due) /\ Len(runner.output \o Due) = Len(runner.output) + Len(Due)
            BY <2>c, <3>1, <3>2, FollowsConcat
        <3> QED BY <2>b, <3>3 DEF Exposed
    <2>1. /\ target' = target /\ session' = session /\ runtime' = runtime /\ engine' = engine
          /\ drafter' = drafter /\ request' = request /\ bridge' = bridge
          /\ runner'.output = runner.output \o Due /\ runner'.computed = frame.output.position
          /\ frame'.predictions = frame.predictions /\ frame'.decision = frame.decision
          /\ frame'.output = NoOutput
        BY <1>25 DEF Deliver, TypeOK, FrameType, Due
    <2>2. Exposed' = Emitted /\ Emitted' = Emitted /\ Len(Due)' = 0
        BY <1>b, <2>1, <2>d DEF Exposed, Emitted, Due
    <2>3. StreamOnTarget'
        BY <1>a, <2>1, <2>2 DEF StreamOnTarget, Follows, NoEosBefore, Emitted
    <2>4. TicketAtFrontier'
        BY <1>a, <2>1, <2>2 DEF TicketAtFrontier, Rows, Emitted
    <2>5. PhasesAgree'
        BY <1>a, <2>1, <2>2, <2>a DEF PhasesAgree
    <2>6. EngineAtFrontier'
        BY <1>a, <2>1, <2>2 DEF EngineAtFrontier, At, Follows, Emitted, Decided
    <2>7. DrafterAtFrontier'
        BY <1>a, <2>1, <2>2 DEF DrafterAtFrontier, Decided
    <2>8. PredictionsOnTarget'
        BY <1>a, <2>1, <2>2, <2>a DEF PredictionsOnTarget, Predicts, Rows
    <2>9. DecisionOnTarget'
        BY <1>a, <2>1, <2>2 DEF DecisionOnTarget, Decided, Emitted, Rows
    <2>10. RunnerOnTarget'
        <3>1. Exposed' >= 1 /\ Follows(runner.output)' /\ NoEosBefore(Exposed)'
            BY <2>1, <2>2, <2>b, <2>d DEF Follows, NoEosBefore
        <3>2. runner'.computed = Prompt + Exposed' - 1
            <4>1. Exposed + Len(Due) = Emitted /\ Len(Due) \in Nat
                BY <1>a, <2>b
            <4>2. Prompt + Exposed + Len(Due) - 1 = Prompt + Emitted - 1
                BY <1>n, <4>1
            <4> QED BY <2>1, <2>2, <2>a, <4>2
        <3>3. Exposed' + Len(Due)' = Emitted'
            BY <1>a, <2>2
        <3> QED BY <2>1, <2>2, <3>1, <3>2, <3>3 DEF RunnerOnTarget
    <2>11. PublishedWhatIsDue'
        <3>1. Shown' = Shown
            <4>1. Exposed + Len(Due) = Emitted /\ Len(Due) \in Nat
                BY <1>a, <2>b
            <4>2. Prompt + Exposed + Len(Due) - 1 = Prompt + Emitted + 0 - 1
                BY <1>n, <4>1
            <4> QED BY <2>2, <4>2 DEF Shown
        <3> QED BY <2>1, <3>1 DEF PublishedWhatIsDue
    <2> QED BY <2>3, <2>4, <2>5, <2>6, <2>7, <2>8, <2>9, <2>10, <2>11 DEF IInv
<1>26. CASE UNCHANGED vars
    <2>1. /\ target' = target /\ session' = session /\ runtime' = runtime /\ engine' = engine
          /\ drafter' = drafter /\ request' = request /\ bridge' = bridge /\ runner' = runner
          /\ frame' = frame
        BY <1>26 DEF vars
    <2>3. StreamOnTarget'
        BY <1>a, <2>1 DEF StreamOnTarget, Follows, NoEosBefore, Emitted
    <2>4. TicketAtFrontier'
        BY <1>a, <2>1 DEF TicketAtFrontier, Rows, Emitted
    <2>5. PhasesAgree'
        BY <1>a, <2>1 DEF PhasesAgree
    <2>6. EngineAtFrontier'
        BY <1>a, <2>1 DEF EngineAtFrontier, At, Follows, Emitted, Decided
    <2>7. DrafterAtFrontier'
        BY <1>a, <2>1 DEF DrafterAtFrontier, Decided, PhasesAgree
    <2>8. PredictionsOnTarget'
        BY <1>a, <2>1 DEF PredictionsOnTarget, Predicts, Rows
    <2>9. DecisionOnTarget'
        BY <1>a, <2>1 DEF DecisionOnTarget, Decided, Emitted, Rows
    <2>10. RunnerOnTarget'
        BY <1>a, <2>1 DEF RunnerOnTarget, Exposed, Due, Follows, NoEosBefore, Emitted
    <2>11. PublishedWhatIsDue'
        <3>1. Exposed' = Exposed /\ Len(Due)' <= Len(Due) /\ Len(Due)' \in Nat
            BY <1>a, <2>1, <1>b DEF Exposed, Due
        <3>2. engine'.position = engine.position /\ drafter'.position = drafter.position
            BY <1>a, <2>1
        <3> QED BY <3>1, <3>2, <1>s
    <2> QED BY <2>3, <2>4, <2>5, <2>6, <2>7, <2>8, <2>9, <2>10, <2>11 DEF IInv
<1> QED
    BY <1>1, <1>2, <1>3, <1>4, <1>5, <1>6, <1>8, <1>9, <1>11, <1>12, <1>13, <1>14, <1>15, <1>16,
       <1>17, <1>19, <1>20, <1>21, <1>22, <1>23, <1>24, <1>25, <1>26
    DEF Next, Draft, Step, Publish, Complete, Fault, Cancel, Over

\* What every reachable state satisfies.
Reachable == TypeOK /\ Shape /\ IInv

LEMMA ReachableInvariant == Spec => []Reachable
<1>1. Init => Reachable
    <2> SUFFICES ASSUME Init PROVE IInv
        BY InitTyped DEF TypeInv, Reachable
    <2> USE BudgetAssumption
    <2>1. /\ session.emitted = <<target[1]>> /\ runner.output = <<target[1]>> /\ target[1] \notin Eos
          /\ Emitted = 1 /\ Exposed = 1 /\ Due = <<>> /\ Decided = NoDecision
          /\ engine.consumed = <<>> /\ frame.output = NoOutput
        BY DEF Init, Emitted, Exposed, Due, Decided, NoFrame, NoOutput
    <2>2. /\ session.phase = "idle" /\ ~session.finished /\ session.position = Prompt
          /\ session.seed = target[1] /\ session.pending = NoTicket
          /\ runtime.phase = "idle" /\ runtime.position = Prompt
          /\ engine.phase = "idle" /\ engine.position = Prompt
          /\ drafter.position = Prompt /\ drafter.pending = 0
          /\ ~request.busy /\ ~bridge.failed /\ runner.computed = Prompt
        BY DEF Init
    <2>3. StreamOnTarget /\ TicketAtFrontier /\ PhasesAgree
        BY <2>1, <2>2 DEF StreamOnTarget, TicketAtFrontier, PhasesAgree, Follows, NoEosBefore
    <2>4. EngineAtFrontier /\ DrafterAtFrontier
        BY <2>1, <2>2 DEF EngineAtFrontier, DrafterAtFrontier, At, Follows
    <2>5. PredictionsOnTarget /\ DecisionOnTarget
        BY <2>2 DEF PredictionsOnTarget, DecisionOnTarget
    <2>6. RunnerOnTarget /\ PublishedWhatIsDue
        BY <2>1, <2>2 DEF RunnerOnTarget, PublishedWhatIsDue, Shown, Follows, NoEosBefore
    <2> QED BY <2>3, <2>4, <2>5, <2>6 DEF IInv
<1>2. Reachable /\ [Next]_vars => Reachable'
    BY TypeStep, IInvStep DEF Reachable, TypeInv
<1> QED BY <1>1, <1>2, PTL DEF Spec

\* The sizes and positions of a typed state are natural numbers, its streams are sequences.
LEMMA Sizes ==
    ASSUME TypeOK
    PROVE  /\ Emitted \in Nat /\ Exposed \in Nat /\ Len(Due) \in Nat
           /\ session.emitted \in Seq(Token) /\ runner.output \in Seq(Token) /\ Due \in Seq(Token)
           /\ engine.consumed \in Seq(Token) /\ engine.position \in Nat /\ drafter.position \in Nat
           /\ Prompt \in Nat /\ MaxNew \in Nat
           /\ engine.phase \in {"idle", "verified", "failed", "closed"}
           /\ session.phase \in {"idle", "pending", "committing", "failed", "closed"}
<1>1. /\ session.emitted \in Seq(Token) /\ runner.output \in Seq(Token) /\ Due \in Seq(Token)
      /\ engine.consumed \in Seq(Token) /\ engine.position \in Nat /\ drafter.position \in Nat
      /\ engine.phase \in {"idle", "verified", "failed", "closed"}
      /\ session.phase \in {"idle", "pending", "committing", "failed", "closed"}
    BY DEF TypeOK, SessionType, EngineType, FrameType, Output, Due
<1>2. Emitted \in Nat /\ Exposed \in Nat /\ Len(Due) \in Nat
    BY <1>1, LenProperties DEF Emitted, Exposed
<1> QED BY <1>1, <1>2, BudgetAssumption

\* Two streams of one length that both follow the target are equal.
LEMMA SameStream ==
    ASSUME NEW s \in Seq(Token), NEW t \in Seq(Token), Follows(s), Follows(t), Len(s) = Len(t)
    PROVE  s = t
<1>1. \A i \in 1..Len(s) : s[i] = t[i]
    BY DEF Follows
<1> QED BY <1>1, SeqEqual

\* Between two steps of a healthy request the five components stand at one frontier, so
\* verify, the draft runtime and validate_runner_reservation never refuse the next step.
THEOREM FrontiersMeet == Spec => []FrontiersAgree
<1>1. Reachable => FrontiersAgree
    <2> SUFFICES ASSUME Reachable, Healthy
                 PROVE  /\ session.position = runtime.position /\ session.position = drafter.position
                        /\ session.position = engine.position /\ session.position = runner.computed
                        /\ session.position = Prompt + Len(session.emitted) - 1
                        /\ runner.output = session.emitted
                        /\ (session.phase = "idle" => NeuralReady \/ session.finished)
        BY DEF FrontiersAgree
    <2>1. TypeOK /\ IInv
        BY DEF Reachable
    <2>2. /\ ~request.busy /\ frame.output = NoOutput /\ ~bridge.failed
          /\ session.phase \in {"idle", "pending"} /\ engine.phase = "idle"
        BY <2>1, Sizes DEF Healthy, Settled, IInv, PhasesAgree
    <2>3. Len(Due) = 0 /\ Exposed + Len(Due) = Emitted
        BY <2>1, <2>2 DEF Due, NoOutput, IInv, RunnerOnTarget
    <2>4. Exposed = Emitted
        BY <2>1, <2>3, Sizes
    <2>5. runner.output = session.emitted
        <3>1. Follows(runner.output) /\ Follows(session.emitted)
            BY <2>1, <2>2 DEF IInv, RunnerOnTarget, StreamOnTarget
        <3> QED BY <2>1, <2>4, <3>1, Sizes, SameStream DEF Exposed, Emitted
    <2>6. /\ session.position = runtime.position /\ session.position = drafter.position
          /\ session.position = engine.position
        BY <2>1, <2>2 DEF IInv, DrafterAtFrontier, EngineAtFrontier, At
    <2>7. session.position = Prompt + Emitted - 1 /\ runner.computed = Prompt + Exposed - 1
        BY <2>1, <2>2 DEF IInv, StreamOnTarget, RunnerOnTarget
    <2>8. session.phase = "idle" => NeuralReady \/ session.finished
        BY <2>1, <2>2, <2>6 DEF IInv, PhasesAgree, StreamOnTarget, NeuralReady, Emitted
    <2> QED BY <2>4, <2>5, <2>6, <2>7, <2>8 DEF Emitted
<1> QED BY <1>1, ReachableInvariant, PTL

\* Rejected drafts never stay in the target's recurrent state: VerifierEngine.publish
\* leaves it at the emitted stream without the next seed.
THEOREM ConsumedIsTheStream == Spec => []StateMatchesStream
<1>1. Reachable => StateMatchesStream
    <2> SUFFICES ASSUME Reachable, engine.phase = "idle", session.phase \in {"idle", "pending"}
                 PROVE  engine.consumed = SubSeq(session.emitted, 1, Len(session.emitted) - 1)
        BY DEF StateMatchesStream
    <2>1. TypeOK /\ IInv
        BY DEF Reachable
    <2>2. /\ Follows(engine.consumed) /\ Len(engine.consumed) = Emitted - 1
          /\ Emitted >= 1 /\ Follows(session.emitted)
        BY <2>1 DEF IInv, EngineAtFrontier, At, StreamOnTarget
    <2> DEFINE head == SubSeq(session.emitted, 1, Emitted - 1)
    <2>3. Emitted - 1 \in Nat /\ Emitted - 1 <= Len(session.emitted) /\ Emitted - 1 <= MaxNew
        BY <2>1, <2>2, Sizes DEF Follows, Emitted
    <2>4. head \in Seq(Token) /\ Len(head) = Emitted - 1 /\ \A i \in 1..(Emitted - 1) : head[i] = session.emitted[i]
        BY <2>1, <2>3, Sizes, FirstRows
    <2> HIDE DEF head
    <2>5. \A i \in 1..(Emitted - 1) : i \in 1..Len(session.emitted)
        BY <2>1, <2>3, Sizes DEF Emitted
    <2>6. Follows(head)
        BY <2>2, <2>3, <2>4, <2>5 DEF Follows
    <2>7. engine.consumed = head
        BY <2>1, <2>2, <2>4, <2>6, Sizes, SameStream
    <2> QED BY <2>7 DEF head, Emitted
<1> QED BY <1>1, ReachableInvariant, PTL

\* No token reaches the runner before the target's state and the drafter's history both
\* hold its publication, in failed states too (DFlashRequestRuntime.publish before
\* FastRequest.step returns).
THEOREM PublicationFirst == Spec => []PublishedBeforeExposed
<1>1. Reachable => PublishedBeforeExposed
    <2> SUFFICES ASSUME Reachable PROVE PublishedBeforeExposed
        OBVIOUS
    <2>1. TypeOK /\ Shown <= engine.position /\ Shown <= drafter.position
        BY DEF Reachable, IInv, PublishedWhatIsDue
    <2>2. /\ Prompt + Exposed - 1 \in Int /\ Shown \in Int /\ Prompt + Exposed - 1 <= Shown
        <3>1. Prompt \in Nat /\ Exposed \in Nat /\ Len(Due) \in Nat
            BY <2>1, Sizes
        <3> DEFINE due == Len(Due)
        <3>2. due \in Nat
            BY <3>1
        <3> HIDE DEF due
        <3>3. Prompt + Exposed + due - 1 \in Int /\ Prompt + Exposed - 1 <= Prompt + Exposed + due - 1
            BY <3>1, <3>2
        <3> QED BY <3>1, <3>3 DEF Shown, due
    <2>3. engine.position \in Int /\ drafter.position \in Int
        BY <2>1, Sizes
    <2>4. Prompt + Exposed - 1 <= engine.position
        BY <2>1, <2>2, <2>3, IntegerOrder
    <2>5. Prompt + Exposed - 1 <= drafter.position
        BY <2>1, <2>2, <2>3, IntegerOrder
    <2> QED BY <2>4, <2>5 DEF PublishedBeforeExposed, Exposed
<1> QED BY <1>1, ReachableInvariant, PTL

\* Only GreedySession.propose and narrow install a live ticket, and both take the next epoch.
LEMMA TicketStep ==
    ASSUME TypeOK, [Next]_vars
    PROVE  \/ session'.pending = session.pending
           \/ session'.pending = NoTicket
           \/ session'.pending.epoch = session.epoch + 1 /\ session'.epoch = session.epoch + 1
<1>1. ASSUME NEW limit, NEW proposals, Propose(limit, proposals)
      PROVE  session'.pending.epoch = session.epoch + 1 /\ session'.epoch = session.epoch + 1
    BY <1>1 DEF Propose, TypeOK, SessionType
<1>2. CASE Draft
    <2>1. \E limit, proposals : Propose(limit, proposals)
        BY <1>2, Zenon DEF Draft, DraftFromLookup, DraftFromNeural
    <2> QED BY <1>1, <2>1
<1>3. CASE Narrow
    BY <1>3 DEF Narrow, TypeOK, SessionType
<1>4. CASE DiscardStaleTicket \/ Complete
    <2>1. CASE DiscardStaleTicket
        BY <2>1 DEF DiscardStaleTicket, TypeOK, SessionType
    <2>2. CASE CompleteCommit
        BY <2>2 DEF CompleteCommit, TypeOK, SessionType
    <2>3. CASE CompleteCancel \/ CompleteRefusal
        BY <2>3 DEF CompleteCancel, CompleteRefusal, TypeOK, SessionType
    <2> QED BY <1>4, <2>1, <2>2, <2>3 DEF Complete
<1>5. CASE Verify \/ AdoptPacked \/ PublishTarget \/ CommitHistory \/ RefreshFails \/ PartnerFails
           \/ Deliver \/ UNCHANGED vars
    <2>1. CASE Verify \/ AdoptPacked
        <3>1. \E cap : Verified(cap)
            BY <2>1, Zenon DEF Verify, AdoptPacked
        <3>2. session' = session
            BY <3>1 DEF Verified
        <3> QED BY <3>2
    <2>2. CASE PublishTarget \/ CommitHistory \/ Deliver
        BY <2>2 DEF PublishTarget, CommitHistory, Deliver
    <2>3. CASE RefreshFails \/ PartnerFails \/ UNCHANGED vars
        BY <2>3 DEF RefreshFails, PartnerFails, vars
    <2> QED BY <1>5, <2>1, <2>2, <2>3
<1>6. CASE BeginCommit \/ BeginAbort("cancel") \/ BeginAbort("refuse")
    BY <1>6 DEF BeginCommit, BeginAbort, TypeOK, SessionType
<1>7. CASE DraftFails \/ VerifyFails \/ PackedVerifyFails \/ PublicationFails \/ CancelBeforeVerify
    BY <1>7 DEF DraftFails, VerifyFails, PackedVerifyFails, PublicationFails, CancelBeforeVerify,
                TypeOK, SessionType
<1>8. CASE Close
    BY <1>8 DEF Close, TypeOK, SessionType
<1> QED
    BY <1>2, <1>3, <1>4, <1>5, <1>6, <1>7, <1>8
    DEF Next, Step, Publish, Fault, Cancel, Over

\* A late holder of an old ticket is refused by check_ticket: a live ticket is never
\* replaced by one of the same or an older epoch.
THEOREM TicketsAreFresh == Spec => FreshTickets
<1>1. TypeOK /\ [Next]_vars =>
        [(session'.pending # session.pending /\ session'.pending # NoTicket)
           => session'.pending.epoch > session.epoch /\ session'.epoch = session'.pending.epoch]_vars
    <2> SUFFICES ASSUME TypeOK, [Next]_vars, session'.pending # session.pending, session'.pending # NoTicket
                 PROVE  session'.pending.epoch > session.epoch /\ session'.epoch = session'.pending.epoch
        OBVIOUS
    <2>1. session'.pending.epoch = session.epoch + 1 /\ session'.epoch = session.epoch + 1
        BY TicketStep
    <2>2. session.epoch \in Nat
        BY DEF TypeOK, SessionType
    <2> QED BY <2>1, <2>2
<1> QED BY <1>1, TypeCorrect, PTL DEF Spec, FreshTickets

\* A closed request has released its engine, and no step of a released or of a cancelled
\* request is under way or holds tokens for the runner.  IInv does not say so: after a
\* cancellation that came with the verify its phases are those of a request between two steps.
DeadIsQuiet ==
    /\ session.phase = "closed" \/ request.closed => engine.phase = "closed"
    /\ engine.phase = "closed" \/ request.cancelled => ~request.busy /\ Due = <<>>

\* Only the steps of a live request start a round, and a round that is over is dead or delivers.
LEMMA QuietStep ==
    ASSUME Reachable, DeadIsQuiet, [Next]_vars
    PROVE  DeadIsQuiet'
<1>1. TypeOK /\ PhasesAgree
    BY DEF Reachable, IInv
<1>2. CASE Draft \/ DraftFails \/ DiscardStaleTicket \/ Narrow \/ PackedVerifyFails
    <2>1. session'.phase # "closed" /\ UNCHANGED <<engine, request, frame>>
        <3>1. CASE Draft
            <4>1. \E limit, proposals : Propose(limit, proposals)
                BY <3>1, Zenon DEF Draft, DraftFromLookup, DraftFromNeural
            <4>2. session'.phase = "pending"
                BY <1>1, <4>1 DEF Propose, TypeOK, SessionType
            <4>3. UNCHANGED <<engine, request, frame>>
                BY <3>1, Zenon DEF Draft, DraftFromLookup, DraftFromNeural
            <4> QED BY <4>2, <4>3
        <3>2. CASE DraftFails \/ DiscardStaleTicket \/ PackedVerifyFails
            BY <1>1, <3>2 DEF DraftFails, DiscardStaleTicket, PackedVerifyFails, TypeOK, SessionType
        <3>3. CASE Narrow
            BY <1>1, <3>3 DEF Narrow, Prepared, TypeOK, SessionType
        <3> QED BY <1>2, <3>1, <3>2, <3>3
    <2> QED BY <2>1 DEF DeadIsQuiet, Due
<1>3. CASE Verify \/ AdoptPacked
    <2>1. \E cap : Verified(cap)
        BY <1>3, Zenon DEF Verify, AdoptPacked
    <2>2. /\ session' = session /\ engine'.phase = "verified" /\ request'.closed = request.closed
          /\ request'.cancelled = request.cancelled
        BY <1>1, <2>1 DEF Verified, TypeOK, EngineType
    <2>3. engine.phase = "idle" /\ ~request.cancelled
        BY <1>3 DEF Verify, AdoptPacked, Prepared
    <2> QED BY <2>2, <2>3 DEF DeadIsQuiet
<1>4. CASE RefreshFails \/ VerifyFails
    <2>1. /\ session'.phase # "closed" /\ engine'.phase = "failed" /\ UNCHANGED <<request, frame>>
          /\ session.phase # "closed" /\ engine.phase = "idle"
        BY <1>1, <1>4 DEF RefreshFails, VerifyFails, Prepared, TypeOK, SessionType, EngineType
    <2> QED BY <2>1 DEF DeadIsQuiet, Due
<1>5. CASE CancelBeforeVerify
    <2>1. /\ session'.phase = "failed" /\ UNCHANGED engine /\ request'.busy = request.busy
          /\ request'.closed = request.closed /\ frame'.output.tokens = <<>> /\ ~request.busy
        BY <1>1, <1>5 DEF CancelBeforeVerify, Prepared, Settled, TypeOK, SessionType, FrameType
    <2> QED BY <2>1 DEF DeadIsQuiet, Due
<1>6. CASE \/ BeginCommit \/ BeginAbort("cancel") \/ BeginAbort("refuse")
           \/ PublishTarget \/ CommitHistory \/ PublicationFails
    <2>1. request.busy /\ ~request.closed /\ ~request.cancelled /\ engine.phase # "closed"
        BY <1>1, <1>6 DEF BeginCommit, BeginAbort, AwaitingDecision, PublishTarget, CommitHistory,
           PublicationFails, Publishing, PhasesAgree, DeadIsQuiet
    <2>2. session'.phase # "closed" /\ engine'.phase # "closed"
        BY <1>1, <1>6, <2>1 DEF BeginCommit, BeginAbort, PublishTarget, CommitHistory, PublicationFails,
           Publishing, TypeOK, SessionType, EngineType
    <2>3. request'.closed = request.closed /\ request'.cancelled = request.cancelled
        BY <1>1, <1>6 DEF BeginCommit, BeginAbort, PublishTarget, CommitHistory, PublicationFails, TypeOK
    <2> QED BY <2>1, <2>2, <2>3 DEF DeadIsQuiet
<1>7. CASE Complete
    <2>1. request.busy /\ ~request.closed /\ ~request.cancelled /\ engine.phase # "closed"
        <3>1. session.phase = "committing"
            BY <1>7 DEF Complete, CompleteCommit, CompleteCancel, CompleteRefusal
        <3> QED BY <1>1, <3>1 DEF PhasesAgree, DeadIsQuiet
    <2>2. session'.phase # "closed" /\ UNCHANGED engine /\ ~request'.closed /\ ~request'.busy
        <3>1. CASE CompleteCommit
            BY <1>1, <2>1, <3>1 DEF CompleteCommit, TypeOK, SessionType
        <3>2. CASE CompleteCancel
            BY <1>1, <2>1, <3>2 DEF CompleteCancel, TypeOK, SessionType
        <3>3. CASE CompleteRefusal
            BY <1>1, <2>1, <3>3 DEF CompleteRefusal, TypeOK, SessionType
        <3> QED BY <1>7, <3>1, <3>2, <3>3 DEF Complete
    <2>3. request'.cancelled => Due' = <<>>
        <3>1. CASE CompleteCommit \/ CompleteRefusal
            BY <1>1, <2>1, <3>1 DEF CompleteCommit, CompleteRefusal, TypeOK
        <3>2. CASE CompleteCancel
            BY <3>2 DEF CompleteCancel, NoFrame, Due
        <3> QED BY <1>7, <3>1, <3>2 DEF Complete
    <2> QED BY <2>1, <2>2, <2>3 DEF DeadIsQuiet
<1>8. CASE Deliver \/ PartnerFails
    <2>1. UNCHANGED <<session, engine, request>>
        BY <1>8 DEF Deliver, PartnerFails
    <2>2. Due' = <<>>
        BY <1>1, <1>8 DEF Deliver, PartnerFails, NoFrame, NoOutput, Due, TypeOK, FrameType
    <2> QED BY <2>1, <2>2 DEF DeadIsQuiet
<1>9. CASE Close
    <2>1. engine'.phase = "closed" /\ request'.busy = request.busy /\ UNCHANGED frame
        BY <1>1, <1>9 DEF Close, TypeOK, EngineType
    <2>2. ~request.busy /\ Due = <<>>
        BY <1>9 DEF Close, Settled, NoOutput, Due
    <2> QED BY <2>1, <2>2 DEF DeadIsQuiet, Due
<1>10. CASE UNCHANGED vars
    BY <1>10 DEF vars, DeadIsQuiet, Due
<1> QED
    BY <1>2, <1>3, <1>4, <1>5, <1>6, <1>7, <1>8, <1>9, <1>10
    DEF Next, Step, Publish, Fault, Cancel, Over

\* Once a request is dead, only its release, the settling of a partner's step and an output
\* with nothing in it are left.
LEMMA DeadStep ==
    ASSUME Reachable, DeadIsQuiet, [Next]_vars, Dead
    PROVE  /\ Dead'
           /\ session'.epoch = session.epoch /\ engine'.phase # "verified"
           /\ engine'.consumed = engine.consumed /\ drafter'.position = drafter.position
           /\ runner'.output = runner.output
<1>1. TypeOK /\ IInv
    BY DEF Reachable
<1>2. ~request.busy /\ session.phase # "committing" /\ engine.phase # "verified"
    BY <1>1 DEF IInv, PhasesAgree, DeadIsQuiet, Dead
<1>3. Due = <<>>
    <2>1. CASE session.phase = "failed" \/ bridge.failed
        BY <1>1, <2>1 DEF IInv, RunnerOnTarget, NoOutput, Due
    <2>2. CASE session.phase = "closed" \/ request.cancelled \/ request.closed \/ engine.phase = "closed"
        BY <2>2 DEF DeadIsQuiet
    <2> QED BY <2>1, <2>2 DEF Dead
<1>4. ~MayDraft /\ ~Prepared
    BY DEF MayDraft, Prepared, Dead
<1>5. CASE Draft \/ DraftFails \/ DiscardStaleTicket \/ Step \/ RefreshFails \/ VerifyFails \/ PackedVerifyFails
           \/ CancelBeforeVerify
    BY <1>4, <1>5, Zenon DEF Draft, DraftFromLookup, DraftFromNeural, DraftFails,
       DiscardStaleTicket, Step, Verify,
       AdoptPacked, Narrow, RefreshFails, VerifyFails, PackedVerifyFails, CancelBeforeVerify
<1>6. CASE Publish \/ Complete \/ PublicationFails \/ BeginAbort("cancel") \/ BeginAbort("refuse")
    BY <1>2, <1>6, Zenon DEF Publish, Complete, BeginCommit, BeginAbort, AwaitingDecision,
       PublishTarget,
       CommitHistory, Publishing, PublicationFails, CompleteCommit, CompleteCancel, CompleteRefusal
<1>7. CASE Deliver
    <2>1. runner'.output = runner.output \o Due /\ UNCHANGED <<session, request, bridge, engine, drafter>>
        BY <1>7 DEF Deliver, Due
    <2>2. runner'.output = runner.output
        BY <1>1, <1>3, <2>1, Sizes, ConcatEmptySeq
    <2> QED BY <1>2, <2>1, <2>2 DEF Dead
<1>8. CASE PartnerFails
    <2>1. bridge'.failed /\ UNCHANGED <<session, engine, drafter, runner>>
        BY <1>1, <1>8 DEF PartnerFails, TypeOK
    <2> QED BY <1>2, <2>1 DEF Dead
<1>9. CASE Close
    <2>1. engine'.phase = "closed" /\ engine'.consumed = engine.consumed
        BY <1>1, <1>9 DEF Close, TypeOK, EngineType
    <2>2. session'.epoch = session.epoch /\ drafter'.position = drafter.position /\ UNCHANGED runner
        BY <1>1, <1>9 DEF Close, TypeOK, SessionType
    <2> QED BY <2>1, <2>2 DEF Dead
<1>10. CASE UNCHANGED vars
    BY <1>2, <1>10 DEF vars, Dead
<1> QED
    BY <1>5, <1>6, <1>7, <1>8, <1>9, <1>10 DEF Next, Fault, Cancel, Over

\* FastRequest.close is all that is left of a request that failed, was cancelled before or
\* after its verify, or was closed: it drafts, verifies, publishes and emits nothing more.
THEOREM TheDeadStayDead == Spec => DeadStaysDead
<1>1. Init => DeadIsQuiet
    BY DEF Init, DeadIsQuiet, Due, NoFrame, NoOutput
<1>2. Reachable /\ DeadIsQuiet /\ [Next]_vars => DeadIsQuiet'
    BY QuietStep
<1>3. Reachable /\ DeadIsQuiet /\ [Next]_vars =>
        [Dead => /\ Dead'
                 /\ session'.epoch = session.epoch /\ engine'.phase # "verified"
                 /\ engine'.consumed = engine.consumed /\ drafter'.position = drafter.position
                 /\ runner'.output = runner.output]_vars
    BY DeadStep
<1> QED BY <1>1, <1>2, <1>3, ReachableInvariant, PTL DEF Spec, DeadStaysDead

\* Every step but the delivery of a committed block leaves the client's stream alone.
LEMMA OutputStep ==
    ASSUME Next, ~Deliver
    PROVE  runner' = runner /\ target' = target
<1>1. CASE Draft \/ DraftFails \/ DiscardStaleTicket \/ Step
    <2>1. CASE Draft
        BY <2>1, Zenon DEF Draft, DraftFromLookup, DraftFromNeural
    <2>2. CASE DraftFails \/ DiscardStaleTicket
        BY <2>2 DEF DraftFails, DiscardStaleTicket
    <2>3. CASE Verify \/ AdoptPacked
        <3>1. \E cap : Verified(cap)
            BY <2>3, Zenon DEF Verify, AdoptPacked
        <3> QED BY <3>1 DEF Verified
    <2>4. CASE Narrow
        BY <2>4 DEF Narrow
    <2> QED BY <1>1, <2>1, <2>2, <2>3, <2>4 DEF Step
<1>2. CASE Publish \/ Complete \/ Cancel
    BY <1>2 DEF Publish, BeginCommit, PublishTarget, CommitHistory, Complete, CompleteCommit,
       CompleteCancel,
       CompleteRefusal, Cancel, CancelBeforeVerify, BeginAbort
<1>3. CASE Fault
    BY <1>3 DEF Fault, DraftFails, RefreshFails, VerifyFails, PackedVerifyFails, BeginAbort,
       PublicationFails, PartnerFails
<1>4. CASE Close \/ Over
    BY <1>4 DEF Close, Over, vars
<1> QED BY <1>1, <1>2, <1>3, <1>4 DEF Next

\* A delivered block is a step of plain greedy decoding, or holds nothing.
LEMMA DeliverIsEmit ==
    ASSUME Reachable, Deliver
    PROVE  Greedy!Emit \/ UNCHANGED <<target, runner.output>>
<1>1. TypeOK /\ IInv
    BY DEF Reachable
<1>2. /\ frame.output # NoOutput /\ target' = target /\ runner'.output = runner.output \o Due
    BY DEF Deliver, Due
<1>3. /\ ~bridge.failed /\ session.phase \in {"idle", "failed"} /\ Exposed + Len(Due) = Emitted /\ Exposed >= 1
      /\ Follows(runner.output) /\ Follows(session.emitted) /\ NoEosBefore(Emitted) /\ Emitted <= MaxNew
      /\ \A i \in 1..Len(Due) : Due[i] = target[Exposed + i]
    BY <1>1, <1>2 DEF IInv, RunnerOnTarget, StreamOnTarget, Follows, Emitted
<1>4. CASE Due = <<>>
    BY <1>1, <1>2, <1>4, Sizes, ConcatEmptySeq
<1>5. CASE Due # <<>>
    <2>1. Len(Due) \in Nat \ {0} /\ Exposed \in Nat /\ Emitted \in Nat /\ MaxNew \in Nat
        BY <1>1, <1>5, Sizes, EmptySeq
    <2>2. Exposed < Emitted /\ Exposed < MaxNew /\ Emitted \in (Exposed + 1)..MaxNew
        BY <1>3, <2>1
    <2>3. Len(runner.output) < MaxNew /\ runner.output[Len(runner.output)] \notin Eos
        <3>1. Exposed \in 1..Len(runner.output) /\ Exposed \in 1..(Emitted - 1)
            BY <1>3, <2>1, <2>2 DEF Exposed
        <3>2. runner.output[Exposed] = target[Exposed] /\ target[Exposed] \notin Eos
            BY <1>3, <3>1 DEF Follows, NoEosBefore
        <3> QED BY <2>2, <3>2 DEF Exposed
    <2>4. runner.output \o Due \in Seq(Token) /\ Follows(runner.output \o Due) /\ Len(runner.output \o Due) = Emitted
        <3>1. Len(runner.output) + Len(Due) = Emitted
            BY <1>3 DEF Exposed
        <3>2. \A i \in 1..Len(Due) : Due[i] = target[Len(runner.output) + i]
            BY <1>3 DEF Exposed
        <3> QED BY <1>1, <1>3, <3>1, <3>2, Sizes, FollowsConcat, ConcatProperties
    <2>5. runner.output \o Due = [i \in 1..Emitted |-> target[i]]
        <3>1. runner.output \o Due \in [1..Emitted -> Token]
            BY <2>4, LenProperties
        <3>2. \A i \in 1..Emitted : (runner.output \o Due)[i] = target[i]
            BY <2>4 DEF Follows
        <3> QED BY <3>1, <3>2
    <2>6. \A i \in (Exposed + 1)..(Emitted - 1) : target[i] \notin Eos
        <3>1. \A i \in (Exposed + 1)..(Emitted - 1) : i \in 1..(Emitted - 1)
            BY <1>3, <2>1
        <3> QED BY <1>3, <3>1 DEF NoEosBefore
    <2> QED BY <1>2, <2>2, <2>3, <2>5, <2>6 DEF Greedy!Emit, Greedy!Open, Exposed
<1> QED BY <1>4, <1>5

\* Speculative decoding changes nothing the client can see: drafts, widths, discarded,
\* narrowed, aborted and failed rounds together implement plain greedy decoding of the
\* target, delivered block by block.
THEOREM ImplementsGreedy == Spec => ImplementsGreedyDecode
<1>1. Init => Greedy!Init
    BY DEF Init, Greedy!Init, Streams
<1>2. Reachable /\ [Next]_vars => [Greedy!Emit]_<<target, runner.output>>
    <2> SUFFICES ASSUME Reachable, [Next]_vars PROVE [Greedy!Emit]_<<target, runner.output>>
        OBVIOUS
    <2>1. CASE Deliver
        BY <2>1, DeliverIsEmit
    <2>2. CASE Next /\ ~Deliver
        BY <2>2, OutputStep
    <2>3. CASE UNCHANGED vars
        BY <2>3 DEF vars
    <2> QED BY <2>1, <2>2, <2>3
<1> QED BY <1>1, <1>2, ReachableInvariant, PTL DEF Spec, ImplementsGreedyDecode, Greedy!Spec

=============================================================================
