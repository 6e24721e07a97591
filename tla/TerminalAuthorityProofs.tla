------------------------ MODULE TerminalAuthorityProofs ------------------------
(***************************************************************************)
(* Proofs about TerminalAuthority, for any views, any number of outputs,   *)
(* epochs and troubles, and any bound on what is held.                     *)
(*                                                                         *)
(* Whoever answers the queries of a terminal has to be alone. The server   *)
(* takes its leases at the receipt of the last acknowledgement (Receipt),  *)
(* several steps after the browser's parser was turned off, and a frame    *)
(* that turns a parser on again may still be on its way. Fit, the          *)
(* inductive invariant, says why nothing of that comes in between:         *)
(*                                                                         *)
(* Promoting: behind each frame that turns a parser on there is the        *)
(* boundary of the promotion that is under way, and until that has gone    *)
(* out nobody has acknowledged it, so its commit waits for it. After it    *)
(* the views that acknowledged answer no more.                             *)
(*                                                                         *)
(* Alone: with the leases no parser answers, none is let in, and no frame  *)
(* turns one on.                                                           *)
(*                                                                         *)
(* Exact, only without late receipts: at most one receipt is on its way,   *)
(* of the promotion that is under way; it installs the leases, and only    *)
(* then come the frames that release what was held. So in the server's     *)
(* mode the leases are there and no receipt is left to drop them.          *)
(*                                                                         *)
(* Past: what an earlier promotion left behind, receipts, acknowledgements *)
(* and frames, is of a smaller epoch than the next one, which therefore    *)
(* ignores it.                                                             *)
(*                                                                         *)
(* Most operations only take away: they may return to the browsers, drop   *)
(* leases and add frames that say nothing of a promotion. Yields says so;  *)
(* StepFrom composes such steps, and YieldsFit is the one place that shows *)
(* the invariant for them all. The steps that give something, a promotion  *)
(* that is entered, an acknowledgement, a receipt, a frame that goes out,  *)
(* a parser that is turned on, have lemmas of their own (...Fits).         *)
(*                                                                         *)
(* Accounted, over Fit: the query of an output is in at most one place,    *)
(* answered, staged or in line, so nothing is answered twice.              *)
(***************************************************************************)
EXTENDS TerminalAuthority, TLAPS, FiniteSetTheorems, SequenceTheorems

-----------------------------------------------------------------------------
(* Types.                                                                  *)

\* What is kept of an authority.
Fields ==
    {"mode", "epoch", "fenced", "opening", "begin", "commit", "rbegin", "ccommit",
     "recovering", "views", "targets", "acks", "receipts", "deadline", "leases",
     "revoked", "admitted", "rollback", "restarted", "held", "owners", "applied",
     "since", "effects", "chain", "sending", "lost", "retry", "timer", "moved",
     "answers", "troubles"}

\* The fields that decide nothing of who answers.
Free ==
    {"fenced", "begin", "rbegin", "ccommit", "deadline", "revoked", "owners", "since",
     "effects", "retry", "timer", "moved", "answers", "troubles"}

\* b is a but for some fields.
Keeps(b, a, changed) == DOMAIN b = Fields /\ \A f \in Fields \ changed : b[f] = a[f]

Modes == {"legacy", "promoting", "server", "rolling-back"}

\* Frames that say nothing of a promotion.
Plain == {"legacy", "server", "tail", "start", "checkpoint"}

\* Frames of a promotion.
Transfer == {"boundary", "recovery", "held"}

Frame ==
    [kind : {"legacy", "server", "tail"} \cup Transfer, n : Nat, epoch : Nat,
     by : SUBSET Views]
    \cup [kind : {"start", "checkpoint"}, n : Nat, epoch : Nat \ {0}, by : SUBSET Views]
    \cup [kind : {"enable"}, n : Nat, epoch : Nat \ {0}, by : SUBSET Views, to : Views]

Query == [n : Nat, told : BOOLEAN]

Rollback ==
    [epoch : Nat \ {0}, drained : Nat, locked : BOOLEAN, drains : SUBSET Views,
     queries : Seq(Query), settled : BOOLEAN, pending : Seq(Nat),
     affected : SUBSET Views, selected : Views]

\* Every field that decides something has its type.
Typed(a) ==
    /\ DOMAIN a = Fields
    /\ a.mode \in Modes /\ a.epoch \in Nat /\ a.opening \in Nat /\ a.commit \in Nat
    /\ a.views \in SUBSET Views /\ a.targets \in SUBSET Views
    /\ a.acks \in SUBSET Views /\ a.lost \in SUBSET Views
    /\ a.receipts \in SUBSET [view : Views, epoch : Nat]
    /\ a.rollback \in Rollback \cup {NoRollback}
    /\ a.restarted \in Seq(Query) /\ a.held \in Seq(Nat) /\ a.applied \in Nat
    /\ a.chain \in Seq(Frame)

\* What is held is bounded: outputs in the chain, queries of a rollback.
Bounded(a) ==
    /\ Chunks(a) <= MaxHeldChunks /\ Len(a.restarted) <= MaxHeldChunks
    /\ a.rollback.epoch # 0 => Len(a.rollback.queries) <= MaxHeldChunks

Sound(a) == Typed(a) /\ Bounded(a)

-----------------------------------------------------------------------------
(* Steps that only take away.                                              *)

\* d is c and frames behind it that say nothing of a promotion.
Longer(d, c) ==
    /\ Len(c) <= Len(d)
    /\ \A k \in 1 .. Len(c) : d[k] = c[k]
    /\ \A k \in 1 .. Len(d) : k > Len(c) => d[k].kind \in Plain

\* b comes from a by steps that take away: the leases and the promotion may go, not come.
Yields(b, a) ==
    /\ a.epoch <= b.epoch /\ b.opening = a.opening
    /\ b.commit = a.commit \/ b.commit = 0
    /\ b.receipts = a.receipts
    /\ b.leases => a.leases
    /\ b.admitted => a.admitted
    /\ b.mode = a.mode \/ b.mode = "rolling-back"
    /\ b.mode = "server" => b.leases = a.leases
    /\ b.mode = "promoting" =>
          /\ b.views = a.views /\ b.acks \subseteq a.acks
          /\ b.recovering = a.recovering /\ b.epoch = a.epoch
          /\ b.leases = a.leases
    /\ b.sending = a.sending
    /\ Longer(b.chain, a.chain)

Step(b, a) == Sound(b) /\ Yields(b, a)

\* Such steps compose.
LEMMA StepFrom ==
    ASSUME NEW a, NEW b, NEW c, Sound(a), Step(b, a), Step(c, b)
    PROVE  Step(c, a)
<1>1. Longer(c.chain, a.chain)
  <2>1. a.chain \in Seq(Frame) /\ b.chain \in Seq(Frame) /\ c.chain \in Seq(Frame)
    BY DEF Step, Sound, Typed
  <2>2. Longer(b.chain, a.chain) /\ Longer(c.chain, b.chain)
    BY DEF Step, Yields
  <2> QED  BY <2>1, <2>2, LenProperties DEF Longer
<1>2. a.epoch \in Nat /\ b.epoch \in Nat /\ c.epoch \in Nat
  BY DEF Step, Sound, Typed
<1> QED  BY <1>1, <1>2 DEF Step, Yields

\* So is a change of fields that decide nothing,
LEMMA FreeStep ==
    ASSUME NEW a, NEW b, Sound(a), Keeps(b, a, Free)
    PROVE  Step(b, a)
<1>1. Sound(b)
  BY DEF Sound, Typed, Bounded, Keeps, Fields, Free, Chunks, PendingTail
<1>2. Longer(b.chain, a.chain)
  <2>1. b.chain = a.chain /\ a.chain \in Seq(Frame)
    BY DEF Sound, Typed, Keeps, Fields, Free
  <2> QED  BY <2>1, LenProperties DEF Longer
<1>3. a.epoch \in Nat
  BY DEF Sound, Typed
<1>4. /\ b.epoch = a.epoch /\ b.opening = a.opening /\ b.commit = a.commit
      /\ b.receipts = a.receipts /\ b.leases = a.leases /\ b.admitted = a.admitted
      /\ b.mode = a.mode /\ b.views = a.views /\ b.acks = a.acks
      /\ b.recovering = a.recovering /\ b.sending = a.sending
  BY DEF Keeps, Fields, Free
<1> QED  BY <1>1, <1>2, <1>3, <1>4 DEF Step, Yields

\* a return to the browsers,
LEMMA RollingStep ==
    ASSUME NEW a, NEW b, Sound(a),
           Keeps(b, a, Free \cup {"recovering", "mode", "acks", "views", "targets"}),
           b.mode = "rolling-back", b.acks \subseteq Views, b.views \subseteq Views,
           b.targets \subseteq Views
    PROVE  Step(b, a)
<1>1. Sound(b)
  BY DEF Sound, Typed, Bounded, Keeps, Fields, Free, Chunks, PendingTail, Modes
<1>2. Longer(b.chain, a.chain)
  <2>1. b.chain = a.chain /\ a.chain \in Seq(Frame)
    BY DEF Sound, Typed, Keeps, Fields, Free
  <2> QED  BY <2>1, LenProperties DEF Longer
<1>3. a.epoch \in Nat
  BY DEF Sound, Typed
<1>4. /\ b.epoch = a.epoch /\ b.opening = a.opening /\ b.commit = a.commit
      /\ b.receipts = a.receipts /\ b.leases = a.leases /\ b.admitted = a.admitted
      /\ b.sending = a.sending
  BY DEF Keeps, Fields, Free
<1> QED  BY <1>1, <1>2, <1>3, <1>4 DEF Step, Yields

\* a retry,
LEMMA ScheduleStep == ASSUME NEW a, Sound(a) PROVE Step(Schedule(a), a)
<1>1. Keeps(Schedule(a), a, Free)
  BY DEF Sound, Typed, Schedule, Keeps, Fields, Free
<1> QED  BY <1>1, FreeStep

\* and a recovery, which is a retry when one is under way.
LEMMA RecoveryStep == ASSUME NEW a, Sound(a) PROVE Step(RequestRecovery(a), a)
<1>1. CASE a.recovering
  <2>1. Keeps(RequestRecovery(a), a, Free)
    BY <1>1 DEF RequestRecovery, Sound, Typed, Keeps
  <2> QED  BY <2>1, FreeStep
<1>2. CASE ~a.recovering
  <2> DEFINE b == RequestRecovery(a)
  <2>1. Keeps(b, a, Free \cup {"recovering", "mode", "acks", "views", "targets"})
    BY <1>2 DEF RequestRecovery, Schedule, Sound, Typed, Keeps, Fields, Free
  <2>2. b.mode = "rolling-back" /\ b.acks = {} /\ b.views = a.views /\ b.targets = a.targets
    BY <1>2 DEF RequestRecovery, Schedule, Sound, Typed, Fields
  <2>3. a.views \subseteq Views /\ a.targets \subseteq Views
    BY DEF Sound, Typed
  <2> QED  BY <2>1, <2>2, <2>3, RollingStep
<1> QED  BY <1>1, <1>2

-----------------------------------------------------------------------------
(* How many outputs a chain holds.                                         *)

Count(c) == Cardinality(OutputFrames(c))

LEMMA FramesFinite ==
    ASSUME NEW c \in Seq(Frame)
    PROVE  IsFiniteSet(OutputFrames(c)) /\ Count(c) \in Nat
<1>1. DOMAIN c = 1 .. Len(c) /\ Len(c) \in Nat
  BY LenProperties
<1>2. IsFiniteSet(DOMAIN c)
  BY <1>1, FS_Interval
<1>3. OutputFrames(c) \in SUBSET DOMAIN c
  BY DEF OutputFrames
<1> QED  BY <1>2, <1>3, FS_Subset, FS_CardinalityType DEF Count

LEMMA Span ==
    ASSUME NEW n \in Nat, NEW m \in Nat
    PROVE  IsFiniteSet(n + 1 .. n + m) /\ Cardinality(n + 1 .. n + m) = m
<1> DEFINE p == n + 1
<1> DEFINE q == n + m
<1>1. p \in Int /\ q \in Int /\ (IF p > q THEN 0 ELSE q - p + 1) = m
  OBVIOUS
<1> HIDE DEF p, q
<1>2. IsFiniteSet(p .. q) /\ Cardinality(p .. q) = IF p > q THEN 0 ELSE q - p + 1
  BY <1>1, FS_Interval
<1>3. IsFiniteSet(p .. q) /\ Cardinality(p .. q) = m
  BY <1>1, <1>2
<1> QED  BY <1>3 DEF p, q

LEMMA CountJoined ==
    ASSUME NEW c \in Seq(Frame), NEW d \in Seq(Frame)
    PROVE  Count(c \o d) <= Count(c) + Len(d)
<1> DEFINE n == Len(c)
<1> DEFINE m == Len(d)
<1> DEFINE new == n + 1 .. n + m
<1>1. n \in Nat /\ m \in Nat /\ DOMAIN c = 1 .. n
  BY LenProperties
<1>2. /\ c \o d \in Seq(Frame) /\ DOMAIN (c \o d) = 1 .. n + m
      /\ \A k \in 1 .. n : (c \o d)[k] = c[k]
  BY <1>1, ConcatProperties, LenProperties
<1>3. IsFiniteSet(new) /\ Cardinality(new) = m
  BY <1>1, Span
<1>4. OutputFrames(c \o d) \subseteq OutputFrames(c) \cup new
  BY <1>1, <1>2 DEF OutputFrames
<1>5. IsFiniteSet(OutputFrames(c)) /\ Count(c) \in Nat
  BY FramesFinite
<1>6. OutputFrames(c) \cap new = {}
  BY <1>1 DEF OutputFrames
<1>7. /\ IsFiniteSet(OutputFrames(c) \cup new)
      /\ Cardinality(OutputFrames(c) \cup new) = Count(c) + m
  <2>1. /\ IsFiniteSet(OutputFrames(c) \cup new)
        /\ Cardinality(OutputFrames(c) \cup new) =
              Count(c) + m - Cardinality(OutputFrames(c) \cap new)
    BY <1>3, <1>5, FS_Union DEF Count
  <2>2. Cardinality(OutputFrames(c) \cap new) = 0
    BY <1>6, FS_EmptySet
  <2> QED  BY <1>1, <1>5, <2>1, <2>2
<1> QED  BY <1>4, <1>7, FS_Subset DEF Count

LEMMA CountAppended ==
    ASSUME NEW c \in Seq(Frame), NEW f \in Frame
    PROVE  /\ Count(Append(c, f)) <= Count(c) + 1
           /\ f.kind \notin OutputKinds => Count(Append(c, f)) = Count(c)
<1> DEFINE n == Len(c)
<1>1. n \in Nat /\ DOMAIN c = 1 .. n
  BY LenProperties
<1>2. /\ Append(c, f) \in Seq(Frame) /\ DOMAIN Append(c, f) = 1 .. n + 1
      /\ \A k \in 1 .. n : Append(c, f)[k] = c[k]
      /\ Append(c, f)[n + 1] = f
  BY <1>1, AppendProperties, LenProperties
<1>3. IsFiniteSet(OutputFrames(c)) /\ Count(c) \in Nat
  BY FramesFinite
<1>4. /\ OutputFrames(Append(c, f)) \subseteq OutputFrames(c) \cup {n + 1}
      /\ f.kind \notin OutputKinds => OutputFrames(Append(c, f)) = OutputFrames(c)
  BY <1>1, <1>2 DEF OutputFrames
<1>5. /\ IsFiniteSet(OutputFrames(c) \cup {n + 1})
      /\ Cardinality(OutputFrames(c) \cup {n + 1}) <= Count(c) + 1
  <2>1. n + 1 \notin OutputFrames(c)
    BY <1>1 DEF OutputFrames
  <2>2. Cardinality(OutputFrames(c) \cup {n + 1}) = Count(c) + 1
    BY <1>3, <2>1, FS_AddElement DEF Count
  <2> QED  BY <1>3, <2>2, FS_AddElement
<1>6. Count(Append(c, f)) <= Cardinality(OutputFrames(c) \cup {n + 1})
  BY <1>4, <1>5, FS_Subset DEF Count
<1>7. Count(Append(c, f)) \in Nat /\ Cardinality(OutputFrames(c) \cup {n + 1}) \in Nat
  BY <1>2, <1>5, FramesFinite, FS_CardinalityType
<1> QED  BY <1>3, <1>4, <1>5, <1>6, <1>7 DEF Count

LEMMA CountTail ==
    ASSUME NEW c \in Seq(Frame), c # <<>>
    PROVE  Count(Tail(c)) <= Count(c)
<1> DEFINE n == Len(c)
<1>1. n \in Nat \ {0} /\ DOMAIN c = 1 .. n
  BY LenProperties, EmptySeq
<1>2. /\ Tail(c) \in Seq(Frame) /\ DOMAIN Tail(c) = 1 .. n - 1
      /\ \A k \in 1 .. n - 1 : Tail(c)[k] = c[k + 1]
  BY <1>1, HeadTailProperties, LenProperties
<1> DEFINE f == [k \in OutputFrames(Tail(c)) |-> k + 1]
<1>3. f \in Injection(OutputFrames(Tail(c)), OutputFrames(c))
  <2>1. \A k \in OutputFrames(Tail(c)) : k \in 1 .. n - 1 /\ k + 1 \in OutputFrames(c)
    BY <1>1, <1>2 DEF OutputFrames
  <2>2. \A j, k \in OutputFrames(Tail(c)) : f[j] = f[k] => j = k
    BY <2>1
  <2> QED  BY <2>1, <2>2 DEF Injection, IsInjective
<1>4. IsFiniteSet(OutputFrames(c))
  BY FramesFinite
<1> QED  BY <1>3, <1>4, FS_Injection DEF Count

\* Frames behind the others lengthen the chain.
LEMMA Grows ==
    ASSUME NEW c \in Seq(Frame), NEW f \in Frame, f.kind \in Plain
    PROVE  Append(c, f) \in Seq(Frame) /\ Longer(Append(c, f), c)
<1>1. /\ Append(c, f) \in Seq(Frame) /\ Len(Append(c, f)) = Len(c) + 1 /\ Len(c) \in Nat
      /\ \A k \in 1 .. Len(c) : Append(c, f)[k] = c[k]
      /\ Append(c, f)[Len(c) + 1] = f
  BY AppendProperties, LenProperties
<1> QED  BY <1>1 DEF Longer

-----------------------------------------------------------------------------
\* What a step may change while the mode stays what it is.
Stays == Free \cup {"chain", "held", "rollback", "restarted", "applied"}

\* What a step may change on the way to a rollback, or in it.
Rolls == Stays \cup {"recovering", "mode", "acks", "views", "targets", "leases",
                     "admitted", "epoch"}

\* Both are such steps when the chain only grows.
LEMMA StaysStep ==
    ASSUME NEW a, NEW b, Sound(a), Keeps(b, a, Stays),
           b.rollback \in Rollback \cup {NoRollback}, b.restarted \in Seq(Query),
           b.held \in Seq(Nat), b.applied \in Nat, b.chain \in Seq(Frame), Bounded(b),
           Longer(b.chain, a.chain)
    PROVE  Step(b, a)
<1>1. Typed(b)
  BY DEF Typed, Sound, Keeps, Fields, Stays, Free, Modes
<1>2. a.epoch \in Nat
  BY DEF Sound, Typed
<1>3. /\ b.opening = a.opening /\ b.commit = a.commit /\ b.receipts = a.receipts
      /\ b.sending = a.sending
      /\ b.epoch = a.epoch /\ b.leases = a.leases /\ b.admitted = a.admitted
      /\ b.mode = a.mode /\ b.views = a.views /\ b.acks = a.acks
      /\ b.recovering = a.recovering
  BY DEF Keeps, Fields, Stays, Free
<1> QED  BY <1>1, <1>2, <1>3 DEF Step, Yields, Sound

LEMMA RollsStep ==
    ASSUME NEW a, NEW b, Sound(a), Keeps(b, a, Rolls), b.mode = "rolling-back",
           b.acks \in SUBSET Views, b.views \in SUBSET Views, b.targets \in SUBSET Views,
           b.epoch \in Nat, a.epoch <= b.epoch, b.leases => a.leases,
           b.admitted => a.admitted,
           b.rollback \in Rollback \cup {NoRollback}, b.restarted \in Seq(Query),
           b.held \in Seq(Nat), b.applied \in Nat, b.chain \in Seq(Frame), Bounded(b),
           Longer(b.chain, a.chain)
    PROVE  Step(b, a)
<1>1. Typed(b)
  BY DEF Typed, Sound, Keeps, Fields, Rolls, Stays, Free, Modes
<1>2. a.epoch \in Nat
  BY DEF Sound, Typed
<1>3. /\ b.opening = a.opening /\ b.commit = a.commit /\ b.receipts = a.receipts
      /\ b.sending = a.sending
  BY DEF Keeps, Fields, Rolls, Stays, Free
<1> QED  BY <1>1, <1>2, <1>3 DEF Step, Yields, Sound

LEMMA SameChain ==
    ASSUME NEW c \in Seq(Frame)
    PROVE  Longer(c, c)
BY LenProperties DEF Longer

LEMMA Waiting ==
    ASSUME NEW a, Typed(a)
    PROVE  /\ Chunks(a) = Count(a.chain) + Len(PendingTail(a))
           /\ PendingTail(a) \in Seq(Nat) /\ Len(PendingTail(a)) \in Nat
           /\ Count(a.chain) \in Nat
           /\ a.rollback.epoch # 0 <=> a.rollback \in Rollback
<1>1. a.rollback.epoch # 0 <=> a.rollback \in Rollback
  BY DEF Typed, Rollback, NoRollback
<1>2. PendingTail(a) \in Seq(Nat)
  <2>1. a.rollback \in Rollback => a.rollback.pending \in Seq(Nat)
    BY DEF Rollback
  <2>2. <<>> \in Seq(Nat)
    BY EmptySeq
  <2> QED  BY <1>1, <2>1, <2>2 DEF PendingTail
<1>3. Len(PendingTail(a)) \in Nat
  BY <1>2, LenProperties
<1>4. Count(a.chain) \in Nat
  BY FramesFinite DEF Typed
<1> QED  BY <1>1, <1>2, <1>3, <1>4 DEF Chunks, Count

\* A rollback that is given up: the queries nobody was told of wait for the next.
LEMMA InvalidateStep ==
    ASSUME NEW a, Sound(a), a.rollback.epoch # 0, NEW quiet \in BOOLEAN
    PROVE  Step(Invalidate(a, quiet), a)
<1> DEFINE queries == a.rollback.queries
<1> DEFINE told == {k \in DOMAIN queries : queries[k].told}
<1> DEFINE untold == SubSeq(queries, Cardinality(told) + 1, Len(queries))
<1> DEFINE room == MaxHeldChunks - Len(a.restarted)
<1> DEFINE last == IF Len(untold) < room THEN Len(untold) ELSE room
<1> DEFINE kept == SubSeq(untold, 1, last)
<1> DEFINE b == [a EXCEPT !.restarted = @ \o kept, !.rollback = NoRollback,
                       !.rbegin = 0, !.ccommit = 0,
                       !.recovering = TRUE, !.mode = "rolling-back"]
<1>1. Typed(a) /\ Bounded(a)
  BY DEF Sound
<1>2. queries \in Seq(Query) /\ Len(queries) \in Nat
  <2>1. a.rollback \in Rollback
    BY <1>1, Waiting
  <2> QED  BY <2>1, LenProperties DEF Rollback
<1>3. IsFiniteSet(told) /\ Cardinality(told) \in Nat
  <2>1. IsFiniteSet(DOMAIN queries)
    BY <1>2, LenProperties, FS_Interval
  <2> QED  BY <2>1, FS_Subset, FS_CardinalityType
<1>4. untold \in Seq(Query) /\ Len(untold) \in Nat
  <2>1. \A i \in Cardinality(told) + 1 .. Len(queries) : queries[i] \in Query
    BY <1>2, <1>3, ElementOfSeq
  <2>2. untold \in Seq(Query)
    BY <1>2, <1>3, <2>1, SubSeqProperties
  <2> QED  BY <2>2, LenProperties
<1> HIDE DEF untold, told, queries
<1>5. Len(a.restarted) \in Nat /\ room \in Nat
  BY <1>1, LenProperties, AuthorityAssumption DEF Typed, Bounded
<1>6. last \in Nat /\ last <= Len(untold) /\ last <= room
  BY <1>4, <1>5
<1>60. MaxHeldChunks = room + Len(a.restarted)
  BY <1>5, AuthorityAssumption
<1> HIDE DEF last, room
<1>7. kept \in Seq(Query) /\ Len(kept) = last
  <2>1. \A i \in 1 .. last : untold[i] \in Query
    BY <1>4, <1>6, ElementOfSeq
  <2> QED  BY <1>4, <1>6, <2>1, SubSeqProperties
<1> HIDE DEF kept
<1>8. /\ a.restarted \o kept \in Seq(Query)
      /\ Len(a.restarted \o kept) <= MaxHeldChunks
  BY <1>1, <1>5, <1>6, <1>60, <1>7, ConcatProperties DEF Typed
<1>9. Step(b, a)
  <2>1. /\ Keeps(b, a, Rolls) /\ b.mode = "rolling-back" /\ b.rollback = NoRollback
        /\ b.restarted = a.restarted \o kept /\ b.acks = a.acks /\ b.views = a.views
        /\ b.targets = a.targets /\ b.epoch = a.epoch /\ b.leases = a.leases
        /\ b.admitted = a.admitted /\ b.held = a.held /\ b.applied = a.applied
        /\ b.chain = a.chain
    BY <1>1 DEF Typed, Keeps, Fields, Rolls, Stays, Free
  <2>2. Chunks(b) <= Chunks(a)
    <3>1. PendingTail(b) = <<>>
      BY <2>1 DEF PendingTail, NoRollback
    <3> QED  BY <1>1, <2>1, <3>1, Waiting, EmptySeq DEF Chunks, Count
  <2>3. Chunks(b) \in Nat /\ Chunks(a) \in Nat
    <3>1. PendingTail(b) = <<>>
      BY <2>1 DEF PendingTail, NoRollback
    <3> QED  BY <1>1, <2>1, <3>1, Waiting, EmptySeq DEF Chunks, Count
  <2>4. Bounded(b)
    BY <1>1, <1>8, <2>1, <2>2, <2>3, AuthorityAssumption DEF Bounded, NoRollback
  <2> QED
    <3>1. /\ a.acks \in SUBSET Views /\ a.views \in SUBSET Views
          /\ a.targets \in SUBSET Views /\ a.epoch \in Nat /\ a.held \in Seq(Nat)
          /\ a.applied \in Nat /\ a.chain \in Seq(Frame)
      BY <1>1 DEF Typed
    <3>2. Longer(b.chain, a.chain)
      BY <2>1, <3>1, SameChain
    <3>3. /\ b.rollback \in Rollback \cup {NoRollback} /\ a.epoch <= b.epoch
          /\ b.leases => a.leases
          /\ b.admitted => a.admitted
      BY <2>1, <3>1
    <3> HIDE DEF b
    <3> QED  BY <1>8, <2>1, <2>4, <3>1, <3>2, <3>3, RollsStep
<1>10. Step(Schedule(b), a)
  BY <1>9, ScheduleStep, StepFrom DEF Step
<1>11. Invalidate(a, quiet) = IF quiet THEN b ELSE Schedule(b)
  BY DEF Invalidate, queries, told, untold, room, last, kept
<1> QED  BY <1>9, <1>10, <1>11

\* A frame that says nothing of a promotion.
LEMMA PlainStep ==
    ASSUME NEW a, Sound(a), NEW kind \in Plain, NEW n \in Nat, NEW epoch \in Nat,
           kind \in {"start", "checkpoint"} => epoch # 0,
           kind \in OutputKinds => Chunks(a) + 1 <= MaxHeldChunks
    PROVE  Step(QueueFrame(a, kind, n, epoch, {}), a)
<1> DEFINE f == [kind |-> kind, n |-> n, epoch |-> epoch, by |-> {}]
<1> DEFINE b == QueueFrame(a, kind, n, epoch, {})
<1>1. Typed(a) /\ Bounded(a)
  BY DEF Sound
<1>2. /\ Keeps(b, a, Stays) /\ b.chain = Append(a.chain, f)
      /\ b.rollback = a.rollback /\ b.restarted = a.restarted /\ b.held = a.held
      /\ b.applied = a.applied
  BY <1>1 DEF Typed, QueueFrame, Keeps, Fields, Stays, Free
<1>3. f \in Frame /\ f.kind \in Plain /\ f.kind = kind
  BY DEF Frame, Plain, Transfer
<1>4. /\ a.rollback \in Rollback \cup {NoRollback} /\ a.restarted \in Seq(Query)
      /\ a.held \in Seq(Nat) /\ a.applied \in Nat /\ a.chain \in Seq(Frame)
  BY <1>1 DEF Typed
<1> HIDE DEF b, f
<1>5. b.chain \in Seq(Frame) /\ Longer(b.chain, a.chain)
  BY <1>2, <1>3, <1>4, Grows
<1>6. /\ Count(b.chain) <= Count(a.chain) + 1
      /\ kind \notin OutputKinds => Count(b.chain) = Count(a.chain)
  BY <1>2, <1>3, <1>4, CountAppended
<1>7. Chunks(b) <= MaxHeldChunks
  <2>1. Chunks(b) = Count(b.chain) + Len(PendingTail(a))
    BY <1>2 DEF Chunks, Count, PendingTail
  <2>2. /\ Chunks(a) = Count(a.chain) + Len(PendingTail(a))
        /\ Len(PendingTail(a)) \in Nat /\ Count(a.chain) \in Nat
    BY <1>1, Waiting
  <2>3. Count(b.chain) \in Nat
    BY <1>5, FramesFinite
  <2> QED  BY <1>1, <1>6, <2>1, <2>2, <2>3, AuthorityAssumption DEF Bounded
<1>8. Bounded(b)
  BY <1>1, <1>2, <1>7 DEF Bounded
<1>9. Step(b, a)
  BY <1>2, <1>4, <1>5, <1>8, StaysStep
<1> QED  BY <1>9 DEF b

LEMMA QueueOutputStep ==
    ASSUME NEW a, Sound(a), NEW kind \in {"legacy", "server", "tail"}, NEW n \in Nat,
           NEW epoch \in Nat
    PROVE  Step(QueueOutput(a, kind, n, epoch), a)
<1>1. CASE Chunks(a) + 1 > MaxHeldChunks
  BY <1>1, RecoveryStep DEF QueueOutput
<1>2. CASE ~(Chunks(a) + 1 > MaxHeldChunks)
  <2>1. Chunks(a) + 1 <= MaxHeldChunks
    BY <1>2, Waiting, AuthorityAssumption DEF Sound
  <2>2. kind \in Plain /\ kind \notin {"start", "checkpoint"}
    BY DEF Plain
  <2> QED  BY <1>2, <2>1, <2>2, PlainStep DEF QueueOutput
<1> QED  BY <1>1, <1>2

\* The outputs that waited for a checkpoint follow it.
LEMMA QueueTailsStep ==
    ASSUME NEW a, Sound(a), NEW outputs \in Seq(Nat), NEW epoch \in Nat
    PROVE  Step(QueueTails(a, outputs, epoch), a)
<1> DEFINE room == MaxHeldChunks - Chunks(a)
<1> DEFINE fit == IF Len(outputs) < room THEN Len(outputs) ELSE room
<1> DEFINE tails == [k \in 1 .. fit |->
                     [kind |-> "tail", n |-> outputs[k], epoch |-> epoch, by |-> {}]]
<1> DEFINE b == [a EXCEPT !.chain = @ \o tails]
<1>1. Typed(a) /\ Bounded(a)
  BY DEF Sound
<1>2. /\ Chunks(a) = Count(a.chain) + Len(PendingTail(a))
      /\ Len(PendingTail(a)) \in Nat /\ Count(a.chain) \in Nat
  BY <1>1, Waiting
<1>3. Len(outputs) \in Nat /\ Chunks(a) \in Nat /\ room \in Nat
  BY <1>1, <1>2, LenProperties, AuthorityAssumption DEF Bounded
<1>4. fit \in Nat /\ fit <= Len(outputs) /\ Chunks(a) + fit <= MaxHeldChunks
  BY <1>3, AuthorityAssumption
<1> HIDE DEF fit, room
<1>5. tails \in Seq(Frame) /\ Len(tails) = fit
  <2>1. \A k \in 1 .. fit : outputs[k] \in Nat
    BY <1>3, <1>4, ElementOfSeq
  <2>2. \A k \in 1 .. fit : tails[k] \in Frame
    BY <2>1 DEF Frame
  <2> QED  BY <1>4, <2>2
<1>6. \A k \in 1 .. fit : tails[k].kind = "tail"
  OBVIOUS
<1> HIDE DEF tails
<1>7. /\ Keeps(b, a, Stays) /\ b.chain = a.chain \o tails
      /\ b.rollback = a.rollback /\ b.restarted = a.restarted /\ b.held = a.held
      /\ b.applied = a.applied
  BY <1>1 DEF Typed, Keeps, Fields, Stays, Free
<1>8. /\ a.rollback \in Rollback \cup {NoRollback} /\ a.restarted \in Seq(Query)
      /\ a.held \in Seq(Nat) /\ a.applied \in Nat /\ a.chain \in Seq(Frame)
  BY <1>1 DEF Typed
<1> HIDE DEF b
<1>9. b.chain \in Seq(Frame) /\ Longer(b.chain, a.chain)
  <2> DEFINE n == Len(a.chain)
  <2>1. n \in Nat
    BY <1>8, LenProperties
  <2>2. /\ a.chain \o tails \in Seq(Frame)
        /\ Len(a.chain \o tails) = n + Len(tails)
        /\ \A k \in 1 .. n + Len(tails) :
              (a.chain \o tails)[k] = IF k <= n THEN a.chain[k] ELSE tails[k - n]
    BY <1>5, <1>8, ConcatProperties
  <2>3. b.chain \in Seq(Frame) /\ Len(b.chain) = n + fit
    BY <1>5, <1>7, <2>2
  <2>4. \A k \in 1 .. n : b.chain[k] = a.chain[k]
    BY <1>4, <1>5, <1>7, <2>1, <2>2
  <2>5. ASSUME NEW k \in 1 .. n + fit, k > n
        PROVE  b.chain[k].kind = "tail"
    <3>1. b.chain[k] = tails[k - n] /\ k - n \in 1 .. fit
      BY <1>4, <1>5, <1>7, <2>1, <2>2, <2>5
    <3> QED  BY <1>6, <3>1
  <2> QED  BY <1>4, <2>1, <2>3, <2>4, <2>5 DEF Longer, Plain
<1>10. Chunks(b) <= MaxHeldChunks
  <2>1. Chunks(b) = Count(b.chain) + Len(PendingTail(a))
    BY <1>7 DEF Chunks, Count, PendingTail
  <2>2. Count(b.chain) <= Count(a.chain) + fit
    BY <1>5, <1>7, <1>8, CountJoined
  <2>3. Count(b.chain) \in Nat
    BY <1>9, FramesFinite
  <2> QED  BY <1>2, <1>4, <2>1, <2>2, <2>3, AuthorityAssumption
<1>11. Bounded(b)
  BY <1>1, <1>7, <1>10 DEF Bounded
<1>12. Step(b, a)
  BY <1>7, <1>8, <1>9, <1>11, StaysStep
<1>13. Step(RequestRecovery(b), a)
  BY <1>12, RecoveryStep, StepFrom DEF Step
<1>14. QueueTails(a, outputs, epoch) = IF fit < Len(outputs) THEN RequestRecovery(b) ELSE b
  BY DEF QueueTails, b, tails, fit, room
<1> QED  BY <1>12, <1>13, <1>14

\* A rollback begins, with the epoch after the last.
LEMMA BeginRollbackStep ==
    ASSUME NEW a, Sound(a), NEW selected \in Views
    PROVE  Step(BeginRollback(a, selected), a)
<1> DEFINE e == a.epoch + 1
<1> DEFINE r == [epoch |-> e, drained |-> a.applied, locked |-> FALSE, drains |-> {},
                 queries |-> a.restarted, settled |-> FALSE, pending |-> <<>>,
                 affected |-> a.views, selected |-> selected]
<1> DEFINE f == [kind |-> "start", n |-> a.applied, epoch |-> e, by |-> {}]
<1> DEFINE b == BeginRollback(a, selected)
<1>1. Typed(a) /\ Bounded(a)
  BY DEF Sound
<1>2. /\ a.epoch \in Nat /\ a.restarted \in Seq(Query) /\ a.held \in Seq(Nat)
      /\ a.applied \in Nat /\ a.chain \in Seq(Frame) /\ a.views \in SUBSET Views
      /\ a.targets \in SUBSET Views /\ a.acks \in SUBSET Views
  BY <1>1 DEF Typed
<1>3. /\ Keeps(b, a, Rolls) /\ b.mode = "rolling-back" /\ b.chain = Append(a.chain, f)
      /\ b.rollback = r /\ b.restarted = <<>> /\ b.held = <<>> /\ b.applied = a.applied
      /\ b.acks = a.acks /\ b.views = a.views /\ b.targets = a.targets /\ b.epoch = e
      /\ ~b.leases /\ ~b.admitted
  <2>1. b.mode = "rolling-back" /\ b.chain = Append(a.chain, f) /\ b.rollback = r
    BY <1>1 DEF Typed, BeginRollback, QueueFrame, Fields
  <2>2. /\ b.restarted = <<>> /\ b.held = <<>> /\ b.applied = a.applied
        /\ b.acks = a.acks /\ b.views = a.views /\ b.targets = a.targets
    BY <1>1 DEF Typed, BeginRollback, QueueFrame, Fields
  <2>3. b.epoch = e /\ ~b.leases /\ ~b.admitted
    BY <1>1 DEF Typed, BeginRollback, QueueFrame, Fields
  <2>4. DOMAIN b = Fields
    BY <1>1 DEF Typed, BeginRollback, QueueFrame
  <2>5. \A x \in Fields \ Rolls : b[x] = a[x]
    BY <1>1 DEF Typed, BeginRollback, QueueFrame, Fields, Rolls, Stays, Free
  <2> QED  BY <2>1, <2>2, <2>3, <2>4, <2>5 DEF Keeps
<1>4. r \in Rollback /\ e \in Nat /\ a.epoch <= e /\ e # 0
  BY <1>2, EmptySeq DEF Rollback
<1>5. f \in Frame /\ f.kind \in Plain /\ f.kind \notin OutputKinds
  BY <1>2, <1>4 DEF Frame, Plain, OutputKinds
<1>6. /\ r.epoch # 0 /\ r.queries = a.restarted /\ r.pending = <<>>
      /\ <<>> \in Seq(Query) /\ <<>> \in Seq(Nat) /\ Len(<<>>) = 0
  BY <1>4, EmptySeq
<1> HIDE DEF b, f, r, e
<1>7. b.chain \in Seq(Frame) /\ Longer(b.chain, a.chain)
  BY <1>2, <1>3, <1>5, Grows
<1>8. Bounded(b)
  <2>1. Chunks(b) = Count(b.chain)
    <3>1. PendingTail(b) = <<>>
      BY <1>3, <1>6 DEF PendingTail
    <3>2. Count(b.chain) \in Nat
      BY <1>7, FramesFinite
    <3> QED  BY <1>6, <3>1, <3>2 DEF Chunks, Count
  <2>2. Count(b.chain) = Count(a.chain)
    BY <1>2, <1>3, <1>5, CountAppended
  <2>3. Chunks(b) <= MaxHeldChunks
    BY <1>1, <2>1, <2>2, Waiting, AuthorityAssumption DEF Bounded
  <2> QED  BY <1>1, <1>3, <1>6, <2>3, AuthorityAssumption DEF Bounded
<1>9. Step(b, a)
  BY <1>2, <1>3, <1>4, <1>6, <1>7, <1>8, RollsStep
<1> QED  BY <1>9 DEF b

\* Acknowledgements and a commit that are taken back, and views that changed.
LEMMA LessStep ==
    ASSUME NEW a, NEW b, Sound(a),
           Keeps(b, a, Free \cup {"commit", "acks", "targets", "views", "lost"}),
           b.commit = a.commit \/ b.commit = 0, b.acks \subseteq a.acks,
           b.targets \in SUBSET Views, b.views \in SUBSET Views, b.lost \in SUBSET Views,
           a.mode = "promoting" => b.views = a.views
    PROVE  Step(b, a)
<1>1. a.epoch \in Nat /\ a.acks \in SUBSET Views /\ a.chain \in Seq(Frame) /\ a.commit \in Nat
  BY DEF Sound, Typed
<1>2. /\ b.epoch = a.epoch /\ b.opening = a.opening /\ b.receipts = a.receipts
      /\ b.leases = a.leases /\ b.admitted = a.admitted /\ b.mode = a.mode
      /\ b.recovering = a.recovering /\ b.sending = a.sending /\ b.chain = a.chain
      /\ b.rollback = a.rollback /\ b.restarted = a.restarted /\ b.held = a.held
      /\ b.applied = a.applied /\ DOMAIN b = Fields
  BY DEF Keeps, Fields, Free
<1>3. Sound(b)
  BY <1>1, <1>2 DEF Sound, Typed, Bounded, Chunks, PendingTail
<1>4. Longer(b.chain, a.chain)
  BY <1>1, <1>2, SameChain
<1> QED  BY <1>1, <1>2, <1>3, <1>4 DEF Step, Yields

LEMMA PreparedStep ==
    ASSUME NEW a, Sound(a), NEW live \in SUBSET Views
    PROVE  Step(Prepared(a, live), a)
<1>1. CASE a.mode = "rolling-back"
  <2> DEFINE c == IF a.rollback.epoch # 0 THEN Invalidate(a, TRUE) ELSE a
  <2> DEFINE b == [c EXCEPT !.views = live, !.targets = live, !.acks = {}]
  <2>1. Keeps(a, a, Free)
    BY DEF Sound, Typed, Keeps
  <2>2. Step(c, a)
    BY <2>1, InvalidateStep, FreeStep
  <2>3. c.mode = "rolling-back"
    BY <1>1, <2>2 DEF Step, Yields
  <2> HIDE DEF c
  <2>4. /\ Keeps(b, c, Free \cup {"recovering", "mode", "acks", "views", "targets"})
        /\ b.mode = "rolling-back" /\ b.acks \subseteq Views /\ b.views \subseteq Views
        /\ b.targets \subseteq Views
    BY <2>2, <2>3 DEF Step, Sound, Typed, Keeps, Fields, Free
  <2> HIDE DEF b
  <2>5. Step(b, a)
    BY <2>2, <2>4, RollingStep, StepFrom DEF Step
  <2>6. Prepared(a, live) = b
    BY <1>1 DEF Prepared, b, c
  <2> QED  BY <2>5, <2>6
<1>2. CASE a.mode = "server"
  <2> DEFINE b == [a EXCEPT !.targets = live, !.views = IF live = {} THEN @ ELSE live]
  <2>1. a.views \in SUBSET Views /\ a.lost \in SUBSET Views /\ DOMAIN a = Fields
    BY DEF Sound, Typed
  <2>2. /\ Keeps(b, a, Free \cup {"commit", "acks", "targets", "views", "lost"})
        /\ b.commit = a.commit /\ b.acks = a.acks /\ b.targets = live /\ b.lost = a.lost
        /\ b.views \in SUBSET Views
    BY <2>1 DEF Keeps, Fields, Free
  <2> HIDE DEF b
  <2>3. Step(b, a)
    BY <1>2, <2>1, <2>2, LessStep
  <2>4. Prepared(a, live) = b
    BY <1>2 DEF Prepared, b
  <2> QED  BY <2>3, <2>4
<1>3. CASE a.mode \notin {"rolling-back", "server"}
  <2>1. Prepared(a, live) = a
    BY <1>3 DEF Prepared
  <2>2. Keeps(a, a, Free)
    BY DEF Sound, Typed, Keeps
  <2> QED  BY <2>1, <2>2, FreeStep
<1> QED  BY <1>1, <1>2, <1>3

LEMMA NoStep == ASSUME NEW a, Sound(a) PROVE Step(a, a)
<1>1. Keeps(a, a, Free)
  BY DEF Sound, Typed, Keeps
<1> QED  BY <1>1, FreeStep

LEMMA SessionStep ==
    ASSUME NEW a, Sound(a), NEW prepared \in BOOLEAN, NEW live \in SUBSET Views
    PROVE  Step(RollbackSession(a, prepared, live).au, a)
<1> DEFINE b == IF prepared THEN a ELSE Prepared(a, live)
<1> DEFINE selected == CHOOSE v \in b.targets : TRUE
<1>1. Step(a, a) /\ Step(b, a)
  BY NoStep, PreparedStep
<1> HIDE DEF b
<1>2. CASE a.mode # "legacy" /\ b.targets # {} /\ MayBegin(b) /\ selected \in b.views
  <2>1. selected \in Views
    BY <1>1, <1>2 DEF Step, Sound, Typed
  <2> HIDE DEF selected
  <2>2. Step(BeginRollback(b, selected), a)
    BY <1>1, <2>1, BeginRollbackStep, StepFrom DEF Step
  <2>3. RollbackSession(a, prepared, live).au = BeginRollback(b, selected)
    BY <1>2 DEF RollbackSession, b, selected
  <2> QED  BY <2>2, <2>3
<1>3. CASE ~(a.mode # "legacy" /\ b.targets # {} /\ MayBegin(b) /\ selected \in b.views)
  <2>1. RollbackSession(a, prepared, live).au \in {a, b}
    BY <1>3 DEF RollbackSession, b
  <2> QED  BY <1>1, <2>1
<1> QED  BY <1>2, <1>3

LEMMA ResumeStep ==
    ASSUME NEW a, Sound(a), NEW live \in SUBSET Views
    PROVE  Step(ResumeRollback(a, live), a)
BY NoStep, SessionStep DEF ResumeRollback

LEMMA RetryStep ==
    ASSUME NEW a, Sound(a), NEW ok \in BOOLEAN
    PROVE  Step(RetryEnds(a, ok), a)
<1>1. Keeps(RetryEnds(a, ok), a, Free)
  BY DEF RetryEnds, Sound, Typed, Keeps, Fields, Free
<1> QED  BY <1>1, FreeStep

LEMMA BeginEndsStep ==
    ASSUME NEW a, Sound(a), NEW e, NEW ok \in BOOLEAN
    PROVE  Step(BeginEnds(a, e, ok), a)
<1> DEFINE b == IF ok THEN [a EXCEPT !.deadline = FALSE] ELSE a
<1>1. Keeps(b, a, Free)
  BY DEF Sound, Typed, Keeps, Fields, Free
<1> HIDE DEF b
<1>2. Step(b, a)
  BY <1>1, FreeStep
<1>3. Step(RetryEnds(b, ok), a)
  BY <1>2, RetryStep, StepFrom DEF Step
<1> QED  BY <1>2, <1>3 DEF BeginEnds, b

LEMMA CommitEndsStep ==
    ASSUME NEW a, Sound(a), NEW e, NEW by, NEW live \in SUBSET Views
    PROVE  Step(CommitEnds(a, e, by, live), a)
<1> DEFINE b == [a EXCEPT !.commit = IF @ = e THEN 0 ELSE @, !.acks = @ \ by]
<1>1. a.views \in SUBSET Views /\ a.lost \in SUBSET Views /\ DOMAIN a = Fields
      /\ a.targets \in SUBSET Views
  BY DEF Sound, Typed
<1>2. /\ Keeps(b, a, Free \cup {"commit", "acks", "targets", "views", "lost"})
      /\ b.commit = a.commit \/ b.commit = 0
      /\ b.acks \subseteq a.acks /\ b.targets = a.targets /\ b.views = a.views
      /\ b.lost = a.lost
  BY <1>1 DEF Keeps, Fields, Free
<1> HIDE DEF b
<1>3. Step(b, a)
  BY <1>1, <1>2, LessStep
<1>4. Step(ResumeRollback(b, live), a)
  BY <1>3, ResumeStep, StepFrom DEF Step
<1> QED  BY <1>4 DEF CommitEnds, b

\* What a rollback notes down: queries, outputs that wait, the drains it heard of.
LEMMA NoteStep ==
    ASSUME NEW a, NEW b, Sound(a), Keeps(b, a, Free \cup {"rollback"}),
           a.rollback \in Rollback, b.rollback \in Rollback,
           Len(b.rollback.queries) <= MaxHeldChunks,
           \/ Len(b.rollback.pending) <= Len(a.rollback.pending)
           \/ /\ Len(b.rollback.pending) = Len(a.rollback.pending) + 1
              /\ Chunks(a) + 1 <= MaxHeldChunks
    PROVE  Step(b, a)
<1>1. Typed(a) /\ Bounded(a)
  BY DEF Sound
<1>2. /\ a.restarted \in Seq(Query) /\ a.held \in Seq(Nat) /\ a.applied \in Nat
      /\ a.chain \in Seq(Frame)
  BY <1>1 DEF Typed
<1>3. /\ Keeps(b, a, Stays) /\ b.restarted = a.restarted /\ b.held = a.held
      /\ b.applied = a.applied /\ b.chain = a.chain
  BY DEF Keeps, Fields, Stays, Free
<1>4. Chunks(b) <= MaxHeldChunks
  <2>1. a.rollback.epoch # 0 /\ b.rollback.epoch # 0
    BY DEF Rollback
  <2>2. /\ Chunks(a) = Count(a.chain) + Len(a.rollback.pending)
        /\ Chunks(b) = Count(a.chain) + Len(b.rollback.pending)
    BY <1>3, <2>1 DEF Chunks, Count, PendingTail
  <2>3. /\ Count(a.chain) \in Nat /\ Len(a.rollback.pending) \in Nat
        /\ Len(b.rollback.pending) \in Nat
    <3>1. a.rollback.pending \in Seq(Nat) /\ b.rollback.pending \in Seq(Nat)
      BY DEF Rollback
    <3> QED  BY <1>2, <3>1, FramesFinite, LenProperties
  <2>4. MaxHeldChunks \in Nat /\ Chunks(a) <= MaxHeldChunks
    BY <1>1, AuthorityAssumption DEF Bounded
  <2>5. CASE Len(b.rollback.pending) <= Len(a.rollback.pending)
    BY SMTT(30), <2>2, <2>3, <2>4, <2>5
  <2>6. CASE /\ Len(b.rollback.pending) = Len(a.rollback.pending) + 1
             /\ Chunks(a) + 1 <= MaxHeldChunks
    BY <2>2, <2>3, <2>4, <2>6
  <2> QED  BY <2>5, <2>6
<1>5. Bounded(b)
  BY <1>1, <1>3, <1>4 DEF Bounded
<1> QED  BY <1>2, <1>3, <1>5, StaysStep, SameChain

LEMMA PendingSet ==
    ASSUME NEW r \in Rollback, NEW pending \in Seq(Nat)
    PROVE  LET s == [r EXCEPT !.pending = pending]
           IN  s \in Rollback /\ s.pending = pending /\ s.queries = r.queries
BY DEF Rollback

LEMMA SettledSet ==
    ASSUME NEW r \in Rollback
    PROVE  LET s == [r EXCEPT !.settled = TRUE]
           IN  /\ s \in Rollback /\ s.pending = r.pending /\ s.queries = r.queries
               /\ r.epoch # 0 /\ r.pending \in Seq(Nat)
BY DEF Rollback

LEMMA DrainedSet ==
    ASSUME NEW r \in Rollback, NEW n \in Nat
    PROVE  LET s == [r EXCEPT !.drained = n, !.drains = {}]
           IN  s \in Rollback /\ s.pending = r.pending /\ s.queries = r.queries
BY DEF Rollback

LEMMA SettleStep ==
    ASSUME NEW a, Sound(a), NEW n \in Nat, NEW tailed \in BOOLEAN
    PROVE  Step(SettleEffect(a, n, tailed), a)
<1>1. CASE a.mode = "rolling-back" /\ a.rollback.epoch # 0 /\ tailed
  <2> DEFINE q == [n |-> n, told |-> FALSE]
  <2> DEFINE b == [a EXCEPT !.rollback.queries = Append(@, q)]
  <2>1. CASE Len(a.rollback.queries) >= MaxHeldChunks
    <3>1. SettleEffect(a, n, tailed) = Invalidate(a, FALSE)
      BY <1>1, <2>1 DEF SettleEffect
    <3> QED  BY <1>1, <3>1, InvalidateStep
  <2>2. CASE ~(Len(a.rollback.queries) >= MaxHeldChunks)
    <3>1. a.rollback \in Rollback /\ DOMAIN a = Fields
      BY <1>1, Waiting DEF Sound, Typed
    <3>2. /\ Append(a.rollback.queries, q) \in Seq(Query)
          /\ Len(Append(a.rollback.queries, q)) <= MaxHeldChunks
      <4>1. a.rollback.queries \in Seq(Query) /\ q \in Query
        BY <3>1 DEF Rollback, Query
      <4>2. /\ Append(a.rollback.queries, q) \in Seq(Query)
            /\ Len(Append(a.rollback.queries, q)) = Len(a.rollback.queries) + 1
            /\ Len(a.rollback.queries) \in Nat
        BY <4>1, AppendProperties, LenProperties
      <4> QED  BY <2>2, <4>2, AuthorityAssumption
    <3> HIDE DEF q
    <3>3. /\ Keeps(b, a, Free \cup {"rollback"})
          /\ b.rollback = [a.rollback EXCEPT !.queries = Append(a.rollback.queries, q)]
      BY <3>1 DEF Keeps, Fields, Free
    <3>4. /\ b.rollback \in Rollback /\ b.rollback.pending = a.rollback.pending
          /\ b.rollback.queries = Append(a.rollback.queries, q)
          /\ a.rollback.pending \in Seq(Nat)
      BY ZenonT(40), <3>1, <3>2, <3>3 DEF Rollback
    <3>5. Len(b.rollback.pending) <= Len(a.rollback.pending)
      BY <3>4, LenProperties
    <3> HIDE DEF b
    <3>6. Step(b, a)
      BY <3>1, <3>2, <3>3, <3>4, <3>5, NoteStep
    <3>7. SettleEffect(a, n, tailed) = b
      BY <1>1, <2>2 DEF SettleEffect, b, q
    <3> QED  BY <3>6, <3>7
  <2> QED  BY <2>1, <2>2
<1>2. CASE ~(a.mode = "rolling-back" /\ a.rollback.epoch # 0 /\ tailed)
  <2>1. Keeps(SettleEffect(a, n, tailed), a, Free)
    BY <1>2 DEF SettleEffect, Sound, Typed, Keeps, Fields, Free
  <2> QED  BY <2>1, FreeStep
<1> QED  BY <1>1, <1>2

LEMMA EffectStep ==
    ASSUME NEW a, Sound(a), NEW n \in Nat, NEW tailed \in BOOLEAN
    PROVE  Step(Effect(a, n, tailed), a)
<1>1. CASE a.owners[n] = "server" \/ (a.owners[n] = "staged" /\ a.mode = "rolling-back")
  BY <1>1, SettleStep DEF Effect
<1>2. CASE ~(a.owners[n] = "server" \/ (a.owners[n] = "staged" /\ a.mode = "rolling-back"))
  <2>1. Keeps(Effect(a, n, tailed), a, Free)
    BY <1>2 DEF Effect, Sound, Typed, Keeps, Fields, Free
  <2> QED  BY <2>1, FreeStep
<1> QED  BY <1>1, <1>2

\* An output that the headless terminal has applied.
LEMMA DeliveredStep ==
    ASSUME NEW a, Sound(a), NEW n \in Nat
    PROVE  Step(Delivered(a, n), a)
<1>1. Typed(a) /\ Bounded(a)
  BY DEF Sound
<1>2. CASE a.mode = "promoting"
  <2> DEFINE b == [a EXCEPT !.held = Append(@, n)]
  <2>1. /\ Keeps(b, a, Stays) /\ b.rollback = a.rollback /\ b.restarted = a.restarted
        /\ b.applied = a.applied /\ b.chain = a.chain /\ b.held = Append(a.held, n)
    BY <1>1 DEF Typed, Keeps, Fields, Stays, Free
  <2>2. /\ a.rollback \in Rollback \cup {NoRollback} /\ a.restarted \in Seq(Query)
        /\ Append(a.held, n) \in Seq(Nat) /\ a.applied \in Nat /\ a.chain \in Seq(Frame)
    BY <1>1, AppendProperties DEF Typed
  <2> HIDE DEF b
  <2>3. Bounded(b)
    BY <1>1, <2>1 DEF Bounded, Chunks, PendingTail
  <2>4. Step(b, a)
    BY <2>1, <2>2, <2>3, StaysStep, SameChain
  <2>5. Step(RequestRecovery(b), a)
    BY <2>4, RecoveryStep, StepFrom DEF Step
  <2>6. Delivered(a, n) \in {b, RequestRecovery(b)}
    BY <1>2 DEF Delivered, b
  <2> QED  BY <2>4, <2>5, <2>6
<1>3. CASE a.mode = "rolling-back" /\ a.rollback.epoch # 0
  <2> DEFINE b == IF a.rollback.locked THEN a
                  ELSE [a EXCEPT !.rollback.drained = n, !.rollback.drains = {}]
  <2> DEFINE c == [b EXCEPT !.rollback.pending = Append(@, n)]
  <2>1. a.rollback \in Rollback /\ DOMAIN a = Fields
    BY <1>1, <1>3, Waiting DEF Typed
  <2>2. /\ Keeps(b, a, Free \cup {"rollback"})
        /\ b.rollback = IF a.rollback.locked THEN a.rollback
                        ELSE [a.rollback EXCEPT !.drained = n, !.drains = {}]
    BY <2>1 DEF Keeps, Fields, Free
  <2>3. /\ b.rollback \in Rollback /\ b.rollback.pending = a.rollback.pending
        /\ b.rollback.queries = a.rollback.queries
        /\ a.rollback.epoch # 0 /\ b.rollback.epoch # 0
        /\ b.rollback.pending \in Seq(Nat)
    <3>1. CASE a.rollback.locked
      BY <2>1, <2>2, <3>1 DEF Rollback
    <3>2. CASE ~a.rollback.locked
      <4>1. b.rollback = [a.rollback EXCEPT !.drained = n, !.drains = {}]
        BY <2>2, <3>2
      <4>2. /\ b.rollback \in Rollback /\ b.rollback.pending = a.rollback.pending
            /\ b.rollback.queries = a.rollback.queries
        BY ZenonT(40), <2>1, <4>1, DrainedSet
      <4> QED  BY <2>1, <4>2 DEF Rollback
    <3> QED  BY <3>1, <3>2
  <2> HIDE DEF b
  <2>4. Step(b, a)
    <3>1. Len(b.rollback.queries) <= MaxHeldChunks
      BY <1>1, <2>3 DEF Bounded
    <3>2. Len(b.rollback.pending) <= Len(a.rollback.pending)
      BY <2>3, LenProperties
    <3> QED  BY <2>1, <2>2, <2>3, <3>1, <3>2, NoteStep
  <2>5. Sound(b)
    BY <2>4 DEF Step
  <2>6. CASE b.rollback.settled
    <3>1. Delivered(a, n) = QueueOutput(b, "tail", n, b.rollback.epoch)
      BY <1>3, <2>6 DEF Delivered, b
    <3>2. b.rollback.epoch \in Nat
      BY <2>3 DEF Rollback
    <3>3. Step(QueueOutput(b, "tail", n, b.rollback.epoch), b)
      BY <2>5, <3>2, QueueOutputStep
    <3> QED  BY <2>4, <3>1, <3>3, StepFrom
  <2>7. CASE ~b.rollback.settled /\ Chunks(b) + 1 > MaxHeldChunks
    <3>1. Delivered(a, n) = Invalidate(b, FALSE)
      BY <1>3, <2>7 DEF Delivered, b
    <3>2. Step(Invalidate(b, FALSE), b)
      BY <2>3, <2>5, InvalidateStep
    <3> QED  BY <2>4, <3>1, <3>2, StepFrom
  <2>8. CASE ~b.rollback.settled /\ ~(Chunks(b) + 1 > MaxHeldChunks)
    <3>1. Delivered(a, n) = c
      BY <1>3, <2>8 DEF Delivered, b
    <3>2. /\ Keeps(c, b, Free \cup {"rollback"})
          /\ c.rollback = [b.rollback EXCEPT !.pending = Append(b.rollback.pending, n)]
      BY <2>5 DEF Sound, Typed, Keeps, Fields, Free
    <3>3. /\ Append(b.rollback.pending, n) \in Seq(Nat)
          /\ Len(Append(b.rollback.pending, n)) = Len(b.rollback.pending) + 1
      BY <2>3, AppendProperties
    <3> DEFINE more == Append(b.rollback.pending, n)
    <3>40. more \in Seq(Nat) /\ c.rollback = [b.rollback EXCEPT !.pending = more]
      BY <3>2, <3>3
    <3> HIDE DEF more
    <3>41. /\ c.rollback \in Rollback /\ c.rollback.queries = b.rollback.queries
           /\ c.rollback.pending = more
      BY ZenonT(40), <2>3, <3>40, PendingSet
    <3>4. /\ c.rollback \in Rollback /\ c.rollback.queries = b.rollback.queries
          /\ c.rollback.pending = Append(b.rollback.pending, n)
      BY <3>41 DEF more
    <3>5. Chunks(b) + 1 <= MaxHeldChunks
      BY <2>5, <2>8, Waiting, AuthorityAssumption DEF Sound
    <3>6. Len(c.rollback.queries) <= MaxHeldChunks
      BY <1>1, <2>3, <3>4 DEF Bounded
    <3> HIDE DEF c
    <3>7. Step(c, b)
      BY <2>3, <2>5, <3>2, <3>3, <3>4, <3>5, <3>6, NoteStep
    <3> QED  BY <2>4, <3>1, <3>7, StepFrom
  <2> QED  BY <2>6, <2>7, <2>8
<1>4. CASE a.mode = "rolling-back" /\ ~(a.rollback.epoch # 0)
  BY <1>4, NoStep DEF Delivered
<1>5. CASE a.mode \in {"legacy", "server"}
  <2>1. Delivered(a, n) = QueueOutput(a, a.mode, n, a.epoch)
    BY <1>5 DEF Delivered
  <2>2. a.epoch \in Nat
    BY <1>1 DEF Typed
  <2> QED  BY <1>5, <2>1, <2>2, QueueOutputStep
<1> QED  BY <1>1, <1>2, <1>3, <1>4, <1>5 DEF Typed, Modes

-----------------------------------------------------------------------------
(* Transactions that go on when a frame has left the chain.                *)

LEMMA AfterStartStep ==
    ASSUME NEW a, Sound(a), NEW i \in Frame, i.kind = "start", NEW ok \in BOOLEAN
    PROVE  Step(AfterStart(a, i, ok), a)
<1>1. i.n \in Nat /\ i.epoch \in Nat \ {0}
  BY DEF Frame, Transfer
<1>2. CASE ok
  <2>1. "checkpoint" \in Plain /\ "checkpoint" \notin OutputKinds
    BY DEF Plain, OutputKinds
  <2> QED  BY <1>1, <1>2, <2>1, PlainStep DEF AfterStart
<1>3. CASE ~ok
  BY <1>3, BeginEndsStep DEF AfterStart
<1> QED  BY <1>2, <1>3

LEMMA TailsKeepRollback ==
    ASSUME NEW a, Sound(a), NEW outputs, NEW epoch
    PROVE  QueueTails(a, outputs, epoch).rollback = a.rollback
BY DEF QueueTails, RequestRecovery, Schedule, Sound, Typed, Fields

LEMMA AfterCheckpointStep ==
    ASSUME NEW a, Sound(a), NEW i \in Frame, i.kind = "checkpoint", NEW ok \in BOOLEAN,
           ok => a.rollback.epoch # 0
    PROVE  Step(AfterCheckpoint(a, i, ok), a)
<1>1. CASE ~ok
  BY <1>1, BeginEndsStep DEF AfterCheckpoint
<1>2. CASE ok
  <2> DEFINE outputs == a.rollback.pending
  <2> DEFINE b == [a EXCEPT !.rollback.pending = <<>>]
  <2> DEFINE c == QueueTails(b, outputs, i.epoch)
  <2> DEFINE d == [c EXCEPT !.rollback.settled = TRUE, !.rbegin = 0]
  <2>1. a.rollback \in Rollback /\ outputs \in Seq(Nat)
    <3>1. a.rollback \in Rollback
      BY <1>2, Waiting DEF Sound
    <3> QED  BY <3>1 DEF Rollback
  <2>2. Step(b, a) /\ b.rollback \in Rollback
    <3>1. DOMAIN a = Fields
      BY DEF Sound, Typed
    <3>2. /\ Keeps(b, a, Free \cup {"rollback"})
          /\ b.rollback = [a.rollback EXCEPT !.pending = <<>>]
      BY <3>1 DEF Keeps, Fields, Free
    <3> HIDE DEF b
    <3>3. <<>> \in Seq(Nat) /\ Len(<<>>) = 0
      BY EmptySeq
    <3>4. /\ b.rollback \in Rollback /\ b.rollback.pending = <<>>
          /\ b.rollback.queries = a.rollback.queries
      <4> DEFINE none == <<>>
      <4>1. none \in Seq(Nat) /\ b.rollback = [a.rollback EXCEPT !.pending = none]
        BY <3>2, <3>3
      <4> HIDE DEF none
      <4>2. /\ b.rollback \in Rollback /\ b.rollback.pending = none
            /\ b.rollback.queries = a.rollback.queries
        BY <2>1, <4>1, PendingSet
      <4> QED  BY <4>2 DEF none
    <3>5. Len(b.rollback.pending) <= Len(a.rollback.pending)
      BY <2>1, <3>3, <3>4, LenProperties
    <3>6. Len(b.rollback.queries) <= MaxHeldChunks
      BY <1>2, <3>4 DEF Sound, Bounded
    <3> QED  BY <2>1, <3>2, <3>4, <3>5, <3>6, NoteStep
  <2>3. i.epoch \in Nat
    BY DEF Frame, Transfer
  <2> HIDE DEF b, outputs
  <2>4. Step(c, a) /\ c.rollback \in Rollback
    <3>1. Step(c, b)
      BY <2>1, <2>2, <2>3, QueueTailsStep DEF Step
    <3>2. c.rollback = b.rollback
      BY <2>2, TailsKeepRollback DEF Step
    <3> QED  BY <2>2, <3>1, <3>2, StepFrom
  <2> HIDE DEF c
  <2>5. Step(d, c)
    <3>1. Sound(c) /\ DOMAIN c = Fields
      BY <2>4 DEF Step, Sound, Typed
    <3>2. /\ Keeps(d, c, Free \cup {"rollback"})
          /\ d.rollback = [c.rollback EXCEPT !.settled = TRUE]
      BY <3>1 DEF Keeps, Fields, Free
    <3> HIDE DEF d
    <3>3. /\ d.rollback \in Rollback /\ d.rollback.pending = c.rollback.pending
          /\ d.rollback.queries = c.rollback.queries /\ c.rollback.epoch # 0
          /\ c.rollback.pending \in Seq(Nat)
      BY <2>4, <3>2, SettledSet
    <3>4. Len(d.rollback.pending) <= Len(c.rollback.pending)
      BY <3>3, LenProperties
    <3>5. Len(d.rollback.queries) <= MaxHeldChunks
      BY <3>1, <3>3 DEF Sound, Bounded
    <3> QED  BY <2>4, <3>1, <3>2, <3>3, <3>4, <3>5, NoteStep
  <2> HIDE DEF d
  <2>6. Step(d, a)
    BY <2>4, <2>5, StepFrom
  <2>7. Step(BeginEnds(d, i.epoch, TRUE), a)
    BY <2>6, BeginEndsStep, StepFrom DEF Step
  <2> QED  BY <1>2, <2>7 DEF AfterCheckpoint, d, c, b, outputs
<1> QED  BY <1>1, <1>2

LEMMA AfterBoundaryStep ==
    ASSUME NEW a, Sound(a), NEW ok \in BOOLEAN, NEW live \in SUBSET Views
    PROVE  Step(AfterBoundary(a, ok, live), a)
<1>1. CASE ok
  <2>1. Keeps(AfterBoundary(a, ok, live), a, Free)
    BY <1>1 DEF AfterBoundary, Sound, Typed, Keeps, Fields, Free
  <2> QED  BY <2>1, FreeStep
<1>2. CASE ~ok
  BY <1>2, ResumeStep DEF AfterBoundary
<1> QED  BY <1>1, <1>2

LEMMA AbortedStep ==
    ASSUME NEW a, Sound(a), NEW live \in SUBSET Views
    PROVE  Step(Aborted(a, live), a)
<1> DEFINE b == AbortNoticed(a, live)
<1>1. /\ Keeps(b, a, Free \cup {"recovering", "mode", "acks", "views", "targets"})
      /\ b.mode = "rolling-back" /\ b.acks \subseteq Views /\ b.views \subseteq Views
      /\ b.targets \subseteq Views
  BY DEF AbortNoticed, Sound, Typed, Keeps, Fields, Free
<1> HIDE DEF b
<1>2. Step(b, a)
  BY <1>1, RollingStep
<1>3. Step(Schedule(b), a)
  BY <1>2, ScheduleStep, StepFrom DEF Step
<1>4. Step(RollbackSession(Schedule(b), TRUE, live).au, a)
  BY <1>3, SessionStep, StepFrom DEF Step
<1> QED  BY <1>3, <1>4 DEF Aborted, b

\* The rollback is given up for a fresh one, if there is one.
LEMMA AgainStep ==
    ASSUME NEW a, Sound(a), NEW quiet \in BOOLEAN
    PROVE  Step(IF a.rollback.epoch # 0 THEN Invalidate(a, quiet) ELSE a, a)
BY NoStep, InvalidateStep

LEMMA WakeStep ==
    ASSUME NEW a, Sound(a), a.mode = "rolling-back", NEW live \in SUBSET Views
    PROVE  Step(Wake(a, live), a)
<1> DEFINE c == IF a.rollback.epoch # 0 THEN Invalidate(a, TRUE) ELSE a
<1> DEFINE b == [c EXCEPT !.moved = FALSE, !.targets = live, !.timer = TRUE]
<1>1. Step(c, a)
  BY AgainStep
<1> HIDE DEF c
<1>2. c.mode = "rolling-back"
  BY <1>1 DEF Step, Yields
<1>3. Sound(c) /\ DOMAIN c = Fields /\ c.acks \in SUBSET Views /\ c.views \in SUBSET Views
  BY <1>1 DEF Step, Sound, Typed
<1>4. /\ Keeps(b, c, Free \cup {"recovering", "mode", "acks", "views", "targets"})
      /\ b.mode = c.mode /\ b.acks = c.acks /\ b.views = c.views /\ b.targets = live
  BY <1>3 DEF Keeps, Fields, Free
<1> HIDE DEF b
<1>5. Step(b, c)
  BY <1>2, <1>3, <1>4, RollingStep
<1>6. Step(b, a)
  BY <1>1, <1>5, StepFrom
<1>7. Wake(a, live) \in {a, b}
  BY DEF Wake, b, c
<1> QED  BY <1>6, <1>7, NoStep

-----------------------------------------------------------------------------
(***************************************************************************)
(* The invariant.                                                          *)
(***************************************************************************)
BrowserFields == {"attached", "seen", "answering", "disabled", "handoff", "drained"}

Drain == [epoch : Nat \ {0}, n : Nat]

\* Every field of the browsers has its type.
BrowsersTyped(br) ==
    /\ DOMAIN br = BrowserFields
    /\ br.attached \in SUBSET Views /\ br.seen \in [Views -> Nat]
    /\ br.disabled \in [Views -> Nat] /\ br.handoff \in [Views -> Nat]
    /\ br.drained \in [Views -> Drain \cup {NoRollback}]

\* An epoch that was begun, before the promotion that is being opened.
Begun(x, a) == x <= a.epoch /\ (a.opening # 0 => x < a.opening)

\* Whatever is on its way is of an epoch that was begun.
Past(a, br) ==
    /\ \A v \in Views : Begun(br.disabled[v], a)
    /\ Begun(a.commit, a)
    /\ \A r \in a.receipts : Begun(r.epoch, a)
    /\ \A k \in 1 .. Len(a.chain) :
          a.chain[k].kind \in Transfer => Begun(a.chain[k].epoch, a)

\* A promotion is opened while the browsers answer; what goes out is the first frame.
Orderly(a) ==
    /\ a.opening # 0 => a.mode \in {"legacy", "rolling-back"} /\ ~a.leases
    /\ a.sending => a.chain # <<>>

\* Frame k is the boundary of epoch e; one such comes after frame k.
Marks(c, e, k) == k \in 1 .. Len(c) /\ c[k].kind = "boundary" /\ c[k].epoch = e
Behind(c, e, k) == \E j \in 1 .. Len(c) : j > k /\ Marks(c, e, j)

\* Frame k has not gone out.
Ahead(a, k) == k > 1 \/ ~a.sending

\* No attached view has an acknowledgement of epoch e on its way.
Quiet(br, e) == \A v \in br.attached : br.disabled[v] # e

\* Until the boundary of a promotion has gone out nobody has acknowledged it.
Promoting(a, br) ==
    a.mode = "promoting" =>
      /\ ~a.recovering /\ a.epoch # 0
      /\ br.attached \subseteq a.views
      /\ \A k \in 1 .. Len(a.chain) :
            a.chain[k].kind = "enable" => Behind(a.chain, a.epoch, k)
      /\ \A j, k \in 1 .. Len(a.chain) :
            Marks(a.chain, a.epoch, j) /\ Marks(a.chain, a.epoch, k) => j = k
      /\ \A k \in 1 .. Len(a.chain) :
            Marks(a.chain, a.epoch, k) /\ Ahead(a, k) =>
               a.acks = {} /\ a.commit # a.epoch /\ Quiet(br, a.epoch)
      /\ \A v \in br.attached : br.disabled[v] = a.epoch => v \notin br.answering
      /\ a.acks \cap br.answering = {}
      /\ a.commit = a.epoch => br.answering \cap br.attached = {}

\* With the leases nobody else answers, nor will.
Alone(a, br) ==
    a.leases =>
      /\ ~a.admitted
      /\ br.answering \cap br.attached = {}
      /\ \A k \in 1 .. Len(a.chain) : a.chain[k].kind # "enable"

Releases(c, k) == c[k].kind \in {"recovery", "held"}

\* The leases are there exactly in the server's mode, when no receipt is late.
Exact(a, br) ==
    /\ a.opening # 0 => a.receipts = {}
    /\ a.mode = "server" =>
          /\ a.leases /\ a.receipts = {}
          /\ \A k \in 1 .. Len(a.chain) : ~Releases(a.chain, k)
    /\ a.mode = "promoting" =>
          /\ \A r \in a.receipts : r.epoch = a.epoch
          /\ \A r, s \in a.receipts : r = s
          /\ a.leases => a.receipts = {}
          /\ \A v \in br.attached : br.disabled[v] = a.epoch => v \notin a.acks
          /\ \A k \in 1 .. Len(a.chain) :
                Releases(a.chain, k) =>
                   IF a.chain[k].epoch = a.epoch THEN a.leases
                   ELSE Behind(a.chain, a.epoch, k)
          /\ \A j, k \in 1 .. Len(a.chain) :
                /\ Releases(a.chain, j) /\ a.chain[j].epoch = a.epoch
                /\ Releases(a.chain, k) /\ a.chain[k].epoch = a.epoch
                => j = k
          /\ a.receipts # {} \/ a.leases \/ a.commit = a.epoch =>
                /\ Quiet(br, a.epoch)
                /\ \A k \in 1 .. Len(a.chain) : Marks(a.chain, a.epoch, k) => ~Ahead(a, k)

\* The inductive invariant.
Fit(a, br) ==
    /\ Sound(a) /\ BrowsersTyped(br)
    /\ Past(a, br) /\ Orderly(a) /\ Promoting(a, br) /\ Alone(a, br)
    /\ a.mode = "legacy" => ~a.leases
    /\ ~LateReceipts => Exact(a, br)

\* What only yields keeps the invariant.
LEMMA YieldsFit ==
    ASSUME NEW a, NEW b, NEW br, Fit(a, br), Step(b, a)
    PROVE  Fit(b, br)
<1>1. Sound(a) /\ Sound(b) /\ Yields(b, a) /\ BrowsersTyped(br)
  BY DEF Fit, Step
<1>2. /\ a.chain \in Seq(Frame) /\ b.chain \in Seq(Frame)
      /\ a.epoch \in Nat /\ b.epoch \in Nat /\ a.opening \in Nat /\ a.commit \in Nat
      /\ a.receipts \in SUBSET [view : Views, epoch : Nat]
      /\ a.acks \in SUBSET Views
  BY <1>1 DEF Sound, Typed
<1> DEFINE n == Len(a.chain)
<1> DEFINE m == Len(b.chain)
<1>3. /\ n \in Nat /\ m \in Nat /\ n <= m
      /\ \A k \in 1 .. n : k \in 1 .. m /\ b.chain[k] = a.chain[k]
      /\ \A k \in 1 .. m : k \notin 1 .. n => b.chain[k].kind \in Plain
  BY <1>1, <1>2, LenProperties DEF Yields, Longer
<1>4. Past(b, br)
  <2>1. \A x \in Nat : Begun(x, a) => Begun(x, b)
    BY <1>1, <1>2 DEF Yields, Begun
  <2>2. \A v \in Views : Begun(br.disabled[v], b)
    BY <1>1, <2>1 DEF Fit, Past, BrowsersTyped
  <2>3. Begun(b.commit, b)
    <3>1. Begun(0, b)
      BY <1>1, <1>2 DEF Begun, Yields
    <3>2. Begun(a.commit, b)
      BY <1>2, <2>1 DEF Fit, Past
    <3> QED  BY <1>1, <3>1, <3>2 DEF Yields
  <2>4. \A r \in b.receipts : Begun(r.epoch, b)
    BY <1>1, <1>2, <2>1 DEF Fit, Past, Yields
  <2>5. ASSUME NEW k \in 1 .. m, b.chain[k].kind \in Transfer
        PROVE  Begun(b.chain[k].epoch, b)
    <3>1. k \in 1 .. n /\ b.chain[k] = a.chain[k]
      BY <1>3, <2>5 DEF Plain, Transfer
    <3>2. Begun(a.chain[k].epoch, a)
      BY <2>5, <3>1 DEF Fit, Past
    <3>3. a.chain[k] \in Frame
      BY <1>2, <3>1, ElementOfSeq
    <3>4. a.chain[k].epoch \in Nat
      BY <3>3 DEF Frame
    <3> QED  BY <2>1, <3>1, <3>2, <3>4
  <2> QED  BY <2>2, <2>3, <2>4, <2>5 DEF Past
<1>5. Orderly(b)
  <2>1. a.chain # <<>> => b.chain # <<>>
    <3>1. ASSUME a.chain # <<>> PROVE b.chain # <<>>
      BY <1>2, <1>3, <3>1, EmptySeq
    <3> QED  BY <3>1
  <2> QED  BY <1>1, <2>1 DEF Fit, Orderly, Yields
<1>6. Alone(b, br)
  <2> SUFFICES ASSUME b.leases PROVE Alone(b, br)
    BY DEF Alone
  <2>1. a.leases /\ Alone(a, br)
    BY <1>1 DEF Fit, Yields
  <2>2. \A k \in 1 .. m : b.chain[k].kind # "enable"
    BY <1>3, <2>1 DEF Alone, Plain
  <2> QED  BY <1>1, <2>1, <2>2 DEF Alone, Yields
<1>7. b.mode = "legacy" => ~b.leases
  BY <1>1 DEF Fit, Yields
<1>8. ASSUME b.mode = "promoting"
      PROVE  /\ a.mode = "promoting" /\ b.epoch = a.epoch /\ b.views = a.views
             /\ b.acks \subseteq a.acks /\ b.recovering = a.recovering
             /\ b.leases = a.leases /\ b.sending = a.sending /\ b.receipts = a.receipts
             /\ b.opening = a.opening
             /\ b.commit = b.epoch => a.commit = a.epoch
             /\ \A k : Ahead(b, k) <=> Ahead(a, k)
             /\ \A k : Marks(b.chain, b.epoch, k) <=> Marks(a.chain, a.epoch, k)
             /\ \A k \in 1 .. n : Behind(a.chain, a.epoch, k) => Behind(b.chain, b.epoch, k)
  <2>1. /\ a.mode = "promoting" /\ b.epoch = a.epoch /\ b.views = a.views
        /\ b.acks \subseteq a.acks /\ b.recovering = a.recovering
        /\ b.leases = a.leases /\ b.sending = a.sending /\ b.receipts = a.receipts
        /\ b.opening = a.opening
    BY <1>1, <1>8 DEF Yields
  <2>2. b.commit = b.epoch => a.commit = a.epoch
    <3>1. SUFFICES ASSUME b.commit = 0, b.epoch = 0 PROVE a.commit = a.epoch
      BY <1>1, <2>1 DEF Yields
    <3>2. Begun(a.commit, a)
      BY DEF Fit, Past
    <3> QED  BY <1>2, <2>1, <3>1, <3>2 DEF Begun
  <2>3. \A k : Ahead(b, k) <=> Ahead(a, k)
    BY <2>1 DEF Ahead
  <2>4. \A k : Marks(b.chain, b.epoch, k) <=> Marks(a.chain, a.epoch, k)
    BY <1>3, <2>1 DEF Marks, Plain
  <2>5. \A k \in 1 .. n : Behind(a.chain, a.epoch, k) => Behind(b.chain, b.epoch, k)
    BY <1>3, <2>4 DEF Behind
  <2> QED  BY <2>1, <2>2, <2>3, <2>4, <2>5
<1>9. Promoting(b, br)
  <2> SUFFICES ASSUME b.mode = "promoting" PROVE Promoting(b, br)
    BY DEF Promoting
  <2>1. Promoting(a, br) /\ a.mode = "promoting"
    BY <1>8 DEF Fit
  <2>2. ASSUME NEW k \in 1 .. m, b.chain[k].kind = "enable"
        PROVE  Behind(b.chain, b.epoch, k)
    BY <1>3, <1>8, <2>1, <2>2 DEF Promoting, Plain
  <2>3. ASSUME NEW j, NEW k, Marks(b.chain, b.epoch, j), Marks(b.chain, b.epoch, k)
        PROVE  j = k
    <3>1. Marks(a.chain, a.epoch, j) /\ Marks(a.chain, a.epoch, k)
      BY <1>8, <2>3
    <3> QED  BY <2>1, <3>1 DEF Promoting, Marks
  <2>4. ASSUME NEW k, Marks(b.chain, b.epoch, k), Ahead(b, k)
        PROVE  b.acks = {} /\ b.commit # b.epoch /\ Quiet(br, b.epoch)
    <3>1. Marks(a.chain, a.epoch, k) /\ Ahead(a, k)
      BY <1>8, <2>4
    <3>2. a.acks = {} /\ a.commit # a.epoch /\ Quiet(br, a.epoch)
      BY <2>1, <3>1 DEF Promoting, Marks
    <3> QED  BY <1>8, <3>2
  <2> QED  BY <1>8, <2>1, <2>2, <2>3, <2>4 DEF Promoting
<1>10. ~LateReceipts => Exact(b, br)
  <2> SUFFICES ASSUME ~LateReceipts PROVE Exact(b, br)
    OBVIOUS
  <2>1. Exact(a, br)
    BY DEF Fit
  <2>2. b.opening # 0 => b.receipts = {}
    BY <1>1, <2>1 DEF Exact, Yields
  <2>3. ASSUME b.mode = "server"
        PROVE  /\ b.leases /\ b.receipts = {}
               /\ \A k \in 1 .. m : ~Releases(b.chain, k)
    <3>1. a.mode = "server" /\ b.leases = a.leases /\ b.receipts = a.receipts
      BY <1>1, <2>3 DEF Yields
    <3> QED  BY <1>3, <2>1, <3>1 DEF Exact, Releases, Plain
  <2>4. ASSUME b.mode = "promoting", NEW k \in 1 .. m, Releases(b.chain, k)
        PROVE  /\ k \in 1 .. n /\ Releases(a.chain, k) /\ b.chain[k] = a.chain[k]
               /\ IF b.chain[k].epoch = b.epoch THEN b.leases
                  ELSE Behind(b.chain, b.epoch, k)
    <3>1. k \in 1 .. n /\ Releases(a.chain, k) /\ b.chain[k] = a.chain[k]
      BY <1>3, <2>4 DEF Releases, Plain
    <3> QED  BY <1>8, <2>1, <2>4, <3>1 DEF Exact
  <2>5. b.mode = "promoting" =>
           /\ \A r \in b.receipts : r.epoch = b.epoch
           /\ \A r, s \in b.receipts : r = s
           /\ b.leases => b.receipts = {}
           /\ \A v \in br.attached : br.disabled[v] = b.epoch => v \notin b.acks
    BY <1>8, <2>1 DEF Exact
  <2>6. ASSUME b.mode = "promoting", NEW j \in 1 .. m, NEW k \in 1 .. m,
               Releases(b.chain, j), b.chain[j].epoch = b.epoch,
               Releases(b.chain, k), b.chain[k].epoch = b.epoch
        PROVE  j = k
    BY <1>8, <2>1, <2>4, <2>6 DEF Exact
  <2>7. ASSUME b.mode = "promoting", b.receipts # {} \/ b.leases \/ b.commit = b.epoch
        PROVE  /\ Quiet(br, b.epoch)
               /\ \A k \in 1 .. m : Marks(b.chain, b.epoch, k) => ~Ahead(b, k)
    <3>1. /\ Quiet(br, a.epoch)
          /\ \A k \in 1 .. n : Marks(a.chain, a.epoch, k) => ~Ahead(a, k)
      BY <1>8, <2>1, <2>7 DEF Exact
    <3> QED  BY <1>8, <2>7, <3>1 DEF Marks
  <2> QED  BY <2>2, <2>3, <2>4, <2>5, <2>6, <2>7 DEF Exact
<1> QED  BY <1>1, <1>4, <1>5, <1>6, <1>7, <1>9, <1>10 DEF Fit

\* The first frame leaves the chain.
LEMMA PopFit ==
    ASSUME NEW a, NEW b, NEW br, Fit(a, br), a.chain # <<>>,
           Keeps(b, a, Free \cup {"chain", "sending", "lost"}),
           b.chain = Tail(a.chain), ~b.sending, b.lost \in SUBSET Views
    PROVE  /\ Fit(b, br) /\ Head(a.chain) \in Frame
           /\ Head(a.chain).kind = "enable" => ~b.leases
           /\ Head(a.chain).kind \in {"recovery", "held"} /\ ~LateReceipts =>
                /\ b.mode # "server"
                /\ b.mode = "promoting" =>
                      IF Head(a.chain).epoch = b.epoch
                      THEN b.leases /\ \A k \in 1 .. Len(b.chain) : ~Releases(b.chain, k)
                      ELSE ~b.leases
<1> DEFINE n == Len(a.chain)
<1> DEFINE i == Head(a.chain)
<1>1. Sound(a) /\ Typed(a) /\ Bounded(a) /\ BrowsersTyped(br)
  BY DEF Fit, Sound
<1>2. a.chain \in Seq(Frame) /\ n \in Nat \ {0}
  BY <1>1, LenProperties, EmptySeq DEF Typed
<1>3. /\ b.chain \in Seq(Frame) /\ Len(b.chain) = n - 1
      /\ \A k \in 1 .. n - 1 : k + 1 \in 1 .. n /\ b.chain[k] = a.chain[k + 1]
  BY <1>2, HeadTailProperties
<1>4. i \in Frame /\ i = a.chain[1]
  BY <1>2, HeadTailProperties
<1>5. /\ DOMAIN b = Fields /\ b.mode = a.mode /\ b.epoch = a.epoch
      /\ b.opening = a.opening /\ b.commit = a.commit /\ b.views = a.views
      /\ b.targets = a.targets /\ b.acks = a.acks /\ b.receipts = a.receipts
      /\ b.rollback = a.rollback /\ b.restarted = a.restarted /\ b.held = a.held
      /\ b.applied = a.applied /\ b.leases = a.leases /\ b.admitted = a.admitted
      /\ b.recovering = a.recovering
  BY DEF Keeps, Fields, Free
<1>6. Sound(b)
  <2>1. Typed(b)
    BY <1>1, <1>3, <1>5 DEF Typed
  <2>2. Count(b.chain) <= Count(a.chain) /\ Count(b.chain) \in Nat
    BY <1>2, <1>3, CountTail, FramesFinite
  <2>3. /\ Chunks(a) = Count(a.chain) + Len(PendingTail(a))
        /\ Len(PendingTail(a)) \in Nat /\ Count(a.chain) \in Nat
    BY <1>1, Waiting
  <2>4. Chunks(b) = Count(b.chain) + Len(PendingTail(a))
    BY <1>5 DEF Chunks, Count, PendingTail
  <2>5. Chunks(b) <= MaxHeldChunks
    BY <1>1, <2>2, <2>3, <2>4, AuthorityAssumption DEF Bounded
  <2> QED  BY <1>1, <1>5, <2>1, <2>5 DEF Bounded, Sound
<1>7. \A e, k : Marks(b.chain, e, k) => Marks(a.chain, e, k + 1) /\ k + 1 > 1
  BY <1>2, <1>3 DEF Marks
<1>8. \A e : \A j \in 1 .. n : Marks(a.chain, e, j) /\ j > 1 =>
                j - 1 \in 1 .. n - 1 /\ Marks(b.chain, e, j - 1)
  BY <1>2, <1>3 DEF Marks
<1>9. \A e : \A k \in 1 .. n - 1 : Behind(a.chain, e, k + 1) => Behind(b.chain, e, k)
  BY <1>2, <1>3, <1>8 DEF Behind
<1>10. \A k : Ahead(b, k)
  BY DEF Ahead
<1>11. \A k : k > 1 => Ahead(a, k)
  BY DEF Ahead
<1>12. Past(b, br)
  <2>1. \A x : Begun(x, b) <=> Begun(x, a)
    BY <1>5 DEF Begun
  <2>2. \A k \in 1 .. Len(b.chain) :
           b.chain[k].kind \in Transfer => Begun(b.chain[k].epoch, b)
    BY <1>2, <1>3, <2>1 DEF Fit, Past
  <2> QED  BY <1>5, <2>1, <2>2 DEF Fit, Past
<1>13. Orderly(b) /\ (b.mode = "legacy" => ~b.leases)
  BY <1>5 DEF Fit, Orderly
<1>14. Alone(b, br)
  BY <1>2, <1>3, <1>5 DEF Fit, Alone
<1>15. Promoting(b, br)
  <2> SUFFICES ASSUME b.mode = "promoting" PROVE Promoting(b, br)
    BY DEF Promoting
  <2>1. Promoting(a, br) /\ a.mode = "promoting"
    BY <1>5 DEF Fit
  <2>2. ASSUME NEW k \in 1 .. n - 1, b.chain[k].kind = "enable"
        PROVE  Behind(b.chain, b.epoch, k)
    BY <1>3, <1>5, <1>9, <2>1, <2>2 DEF Promoting
  <2>3. ASSUME NEW j \in 1 .. n - 1, NEW k \in 1 .. n - 1,
               Marks(b.chain, b.epoch, j), Marks(b.chain, b.epoch, k)
        PROVE  j = k
    <3>1. j + 1 = k + 1
      BY <1>3, <1>5, <1>7, <2>1, <2>3 DEF Promoting
    <3> QED  BY <1>2, <3>1
  <2>4. ASSUME NEW k \in 1 .. n - 1, Marks(b.chain, b.epoch, k)
        PROVE  b.acks = {} /\ b.commit # b.epoch /\ Quiet(br, b.epoch)
    <3>1. k + 1 \in 1 .. n /\ Marks(a.chain, a.epoch, k + 1) /\ Ahead(a, k + 1)
      BY <1>3, <1>5, <1>7, <1>11, <2>4
    <3>2. a.acks = {} /\ a.commit # a.epoch /\ Quiet(br, a.epoch)
      BY <2>1, <3>1 DEF Promoting
    <3> QED  BY <1>5, <3>2
  <2> QED  BY <1>3, <1>5, <2>1, <2>2, <2>3, <2>4 DEF Promoting
<1>16. ~LateReceipts => Exact(b, br)
  <2> SUFFICES ASSUME ~LateReceipts PROVE Exact(b, br)
    OBVIOUS
  <2>1. Exact(a, br)
    BY DEF Fit
  <2>2. ASSUME b.mode = "promoting", NEW k \in 1 .. n - 1, Releases(b.chain, k)
        PROVE  /\ Releases(a.chain, k + 1)
               /\ IF b.chain[k].epoch = b.epoch THEN b.leases
                  ELSE Behind(b.chain, b.epoch, k)
    <3>1. k + 1 \in 1 .. n /\ Releases(a.chain, k + 1) /\ b.chain[k] = a.chain[k + 1]
      BY <1>3, <2>2 DEF Releases
    <3>2. IF a.chain[k + 1].epoch = a.epoch THEN a.leases
          ELSE Behind(a.chain, a.epoch, k + 1)
      BY <1>5, <2>1, <2>2, <3>1 DEF Exact
    <3> QED  BY <1>5, <1>9, <3>1, <3>2
  <2>3. ASSUME b.mode = "promoting", NEW j \in 1 .. n - 1, NEW k \in 1 .. n - 1,
               Releases(b.chain, j), b.chain[j].epoch = b.epoch,
               Releases(b.chain, k), b.chain[k].epoch = b.epoch
        PROVE  j = k
    <3>1. j + 1 = k + 1
      BY <1>3, <1>5, <2>1, <2>2, <2>3 DEF Exact
    <3> QED  BY <1>2, <3>1
  <2>4. ASSUME b.mode = "promoting", b.receipts # {} \/ b.leases \/ b.commit = b.epoch
        PROVE  /\ Quiet(br, b.epoch)
               /\ \A k \in 1 .. n - 1 : ~Marks(b.chain, b.epoch, k)
    <3>1. /\ Quiet(br, a.epoch)
          /\ \A k \in 1 .. n : Marks(a.chain, a.epoch, k) => ~Ahead(a, k)
      BY <1>5, <2>1, <2>4 DEF Exact
    <3> QED  BY <1>3, <1>5, <1>7, <1>11, <3>1
  <2>5. /\ b.opening # 0 => b.receipts = {}
        /\ b.mode = "server" =>
              /\ b.leases /\ b.receipts = {}
              /\ \A k \in 1 .. n - 1 : ~Releases(b.chain, k)
    BY <1>3, <1>5, <2>1 DEF Exact, Releases
  <2>6. b.mode = "promoting" =>
           /\ \A r \in b.receipts : r.epoch = b.epoch
           /\ \A r, s \in b.receipts : r = s
           /\ b.leases => b.receipts = {}
           /\ \A v \in br.attached : br.disabled[v] = b.epoch => v \notin b.acks
    BY <1>5, <2>1 DEF Exact
  <2> QED  BY <1>3, <2>2, <2>3, <2>4, <2>5, <2>6 DEF Exact
<1>17. Fit(b, br)
  BY <1>1, <1>6, <1>12, <1>13, <1>14, <1>15, <1>16 DEF Fit
<1>18. i.kind = "enable" => ~b.leases
  BY <1>2, <1>4, <1>5 DEF Fit, Alone
<1>19. ASSUME i.kind \in {"recovery", "held"}, ~LateReceipts
       PROVE  /\ b.mode # "server"
              /\ b.mode = "promoting" =>
                    IF i.epoch = b.epoch
                    THEN b.leases /\ \A k \in 1 .. Len(b.chain) : ~Releases(b.chain, k)
                    ELSE ~b.leases
  <2>1. Exact(a, br) /\ 1 \in 1 .. n /\ Releases(a.chain, 1)
    BY <1>2, <1>4, <1>19 DEF Fit, Releases
  <2>2. b.mode # "server"
    BY <1>5, <2>1 DEF Exact
  <2>3. ASSUME b.mode = "promoting", i.epoch = b.epoch
        PROVE  b.leases /\ \A k \in 1 .. Len(b.chain) : ~Releases(b.chain, k)
    <3>1. a.mode = "promoting" /\ a.leases
      BY <1>4, <1>5, <2>1, <2>3 DEF Exact
    <3>2. \A k \in 1 .. n : Marks(a.chain, a.epoch, k) => ~Ahead(a, k)
      BY <2>1, <3>1 DEF Exact
    <3>3. ASSUME NEW k \in 1 .. n - 1, Releases(b.chain, k)
          PROVE  FALSE
      <4>1. k + 1 \in 1 .. n /\ Releases(a.chain, k + 1) /\ k + 1 # 1
        BY <1>2, <1>3, <3>3 DEF Releases
      <4>2. a.chain[k + 1].epoch # a.epoch
        BY <1>4, <1>5, <2>1, <2>3, <3>1, <4>1 DEF Exact
      <4>3. Behind(a.chain, a.epoch, k + 1)
        BY <2>1, <3>1, <4>1, <4>2 DEF Exact
      <4>4. PICK j \in 1 .. n : j > k + 1 /\ Marks(a.chain, a.epoch, j)
        BY <4>3 DEF Behind
      <4>5. j > 1
        BY <1>2, <4>4
      <4> QED  BY <1>11, <3>2, <4>4, <4>5
    <3> QED  BY <1>3, <1>5, <3>1, <3>3
  <2>4. ASSUME b.mode = "promoting", i.epoch # b.epoch
        PROVE  ~b.leases
    <3>1. a.mode = "promoting" /\ Behind(a.chain, a.epoch, 1)
      BY <1>4, <1>5, <2>1, <2>4 DEF Exact
    <3>2. PICK j \in 1 .. n : j > 1 /\ Marks(a.chain, a.epoch, j)
      BY <3>1 DEF Behind
    <3> QED  BY <1>5, <1>11, <2>1, <3>1, <3>2 DEF Exact
  <2> QED  BY <2>2, <2>3, <2>4
<1> QED  BY <1>4, <1>17, <1>18, <1>19

\* Views that left, answers that were heard, screens that were painted.
LEMMA BrowsersFit ==
    ASSUME NEW a, NEW br, NEW cr, Fit(a, br), BrowsersTyped(cr),
           cr.attached \subseteq br.attached, cr.answering \subseteq br.answering,
           \A v \in Views : cr.disabled[v] \in {br.disabled[v], 0}
    PROVE  Fit(a, cr)
<1>1. /\ a.epoch \in Nat /\ a.opening \in Nat /\ a.acks \in SUBSET Views
      /\ cr.attached \in SUBSET Views
  BY DEF Fit, Sound, Typed, BrowsersTyped
<1>2. Past(a, cr)
  <2>1. Begun(0, a)
    BY <1>1 DEF Begun
  <2> QED  BY <2>1 DEF Fit, Past
<1>3. a.epoch # 0 =>
         /\ \A v \in cr.attached : cr.disabled[v] = a.epoch =>
               v \in br.attached /\ br.disabled[v] = a.epoch
         /\ Quiet(br, a.epoch) => Quiet(cr, a.epoch)
  BY <1>1 DEF Quiet
<1>4. Promoting(a, cr)
  <2> SUFFICES ASSUME a.mode = "promoting" PROVE Promoting(a, cr)
    BY DEF Promoting
  <2> QED  BY <1>3 DEF Fit, Promoting
<1>5. Alone(a, cr)
  BY DEF Fit, Alone
<1>6. ~LateReceipts => Exact(a, cr)
  <2>1. a.mode = "promoting" => a.epoch # 0
    BY DEF Fit, Promoting
  <2> QED  BY <1>3, <2>1 DEF Fit, Exact
<1> QED  BY <1>2, <1>4, <1>5, <1>6 DEF Fit

LEMMA ReceivedParts ==
    ASSUME NEW br, BrowsersTyped(br), NEW i \in Frame, NEW views \in SUBSET br.attached,
           NEW cr, cr = Received(br, i, views)
    PROVE  /\ BrowsersTyped(cr) /\ cr.attached = br.attached
           /\ i.kind = "boundary" => cr.answering = br.answering \ views
           /\ i.kind = "enable" => cr.answering = br.answering \cup views
           /\ i.kind \notin {"boundary", "enable"} => cr.answering = br.answering
           /\ \A v \in Views :
                 cr.disabled[v] = IF i.kind = "boundary" /\ v \in views THEN i.epoch
                                  ELSE br.disabled[v]
<1>1. i.n \in Nat /\ i.epoch \in Nat
  BY DEF Frame
<1>2. /\ DOMAIN cr = BrowserFields /\ cr.attached = br.attached /\ cr.drained = br.drained
      /\ i.kind = "boundary" => cr.answering = br.answering \ views
      /\ i.kind = "enable" => cr.answering = br.answering \cup views
      /\ i.kind \notin {"boundary", "enable"} => cr.answering = br.answering
  BY DEF Received, BrowsersTyped, BrowserFields
<1>3. cr.seen \in [Views -> Nat]
  BY <1>1 DEF Received, BrowsersTyped, BrowserFields
<1>4. /\ cr.disabled \in [Views -> Nat]
      /\ \A v \in Views :
            cr.disabled[v] = IF i.kind = "boundary" /\ v \in views THEN i.epoch
                             ELSE br.disabled[v]
  BY <1>1 DEF Received, BrowsersTyped, BrowserFields
<1>5. cr.handoff \in [Views -> Nat]
  BY <1>1 DEF Received, BrowsersTyped, BrowserFields
<1> QED  BY <1>2, <1>3, <1>4, <1>5 DEF BrowsersTyped

\* A frame goes out: a boundary disables, an enable finds nobody who relies on it.
LEMMA SendFit ==
    ASSUME NEW a, NEW b, NEW br, NEW views \in SUBSET br.attached, Fit(a, br),
           a.chain # <<>>, ~a.sending, FrameIsCurrent(a, Head(a.chain)),
           Keeps(b, a, Free \cup {"sending", "lost", "targets"}), b.sending,
           b.lost \in SUBSET Views, b.targets \in SUBSET Views
    PROVE  Fit(b, Received(br, Head(a.chain), views))
<1> DEFINE n == Len(a.chain)
<1> DEFINE i == Head(a.chain)
<1> DEFINE cr == Received(br, i, views)
<1>1. Sound(a) /\ Typed(a) /\ Bounded(a) /\ BrowsersTyped(br)
  BY DEF Fit, Sound
<1>2. a.chain \in Seq(Frame) /\ n \in Nat \ {0}
  BY <1>1, LenProperties, EmptySeq DEF Typed
<1>3. i \in Frame /\ i = a.chain[1] /\ 1 \in 1 .. n /\ Ahead(a, 1)
  BY <1>2, HeadTailProperties DEF Ahead
<1>4. /\ DOMAIN b = Fields /\ b.mode = a.mode /\ b.epoch = a.epoch
      /\ b.opening = a.opening /\ b.commit = a.commit /\ b.views = a.views
      /\ b.acks = a.acks /\ b.receipts = a.receipts
      /\ b.rollback = a.rollback /\ b.restarted = a.restarted /\ b.held = a.held
      /\ b.applied = a.applied /\ b.leases = a.leases /\ b.admitted = a.admitted
      /\ b.recovering = a.recovering /\ b.chain = a.chain
  BY DEF Keeps, Fields, Free
<1>5. /\ BrowsersTyped(cr) /\ cr.attached = br.attached
      /\ i.kind = "boundary" => cr.answering = br.answering \ views
      /\ i.kind = "enable" => cr.answering = br.answering \cup views
      /\ i.kind \notin {"boundary", "enable"} => cr.answering = br.answering
      /\ \A v \in Views :
            cr.disabled[v] = IF i.kind = "boundary" /\ v \in views THEN i.epoch
                             ELSE br.disabled[v]
  <2> HIDE DEF i
  <2> QED  BY <1>1, <1>3, ReceivedParts
<1> HIDE DEF cr
<1>6. Sound(b)
  BY <1>1, <1>4 DEF Sound, Typed, Bounded, Chunks, PendingTail
<1>7. \A k : Ahead(b, k) => Ahead(a, k) /\ k > 1
  BY DEF Ahead
<1>8. i.kind = "boundary" => a.mode = "promoting" /\ Marks(a.chain, a.epoch, 1)
  BY <1>3 DEF FrameIsCurrent, Marks
<1>9. i.kind = "boundary" =>
        /\ a.acks = {} /\ a.commit # a.epoch /\ Quiet(br, a.epoch)
        /\ ~LateReceipts => a.receipts = {} /\ ~a.leases
  BY <1>3, <1>8 DEF Fit, Promoting, Exact
<1>10. i.kind = "enable" => ~a.leases
  BY <1>3 DEF Fit, Alone
<1>11. i.kind = "enable" /\ a.mode = "promoting" =>
          a.acks = {} /\ a.commit # a.epoch /\ Quiet(br, a.epoch)
  <2> SUFFICES ASSUME i.kind = "enable", a.mode = "promoting"
               PROVE  a.acks = {} /\ a.commit # a.epoch /\ Quiet(br, a.epoch)
    OBVIOUS
  <2>1. Behind(a.chain, a.epoch, 1) /\ Promoting(a, br)
    BY <1>3 DEF Fit, Promoting
  <2>2. PICK j \in 1 .. n : j > 1 /\ Marks(a.chain, a.epoch, j)
    BY <2>1 DEF Behind
  <2>3. Ahead(a, j)
    BY <2>2 DEF Ahead
  <2> QED  BY <2>1, <2>2, <2>3 DEF Promoting
<1>12. Past(b, cr)
  <2>1. \A x : Begun(x, b) <=> Begun(x, a)
    BY <1>4 DEF Begun
  <2>2. i.kind = "boundary" => Begun(i.epoch, a)
    BY <1>3 DEF Fit, Past, Transfer
  <2> QED  BY <1>4, <1>5, <2>1, <2>2 DEF Fit, Past
<1>13. Orderly(b) /\ (b.mode = "legacy" => ~b.leases)
  BY <1>4 DEF Fit, Orderly
<1>14. Alone(b, cr)
  BY <1>4, <1>5, <1>10 DEF Fit, Alone
<1>15. \A k : Marks(b.chain, b.epoch, k) <=> Marks(a.chain, a.epoch, k)
  BY <1>4
<1>16. Promoting(b, cr)
  <2> SUFFICES ASSUME b.mode = "promoting" PROVE Promoting(b, cr)
    BY DEF Promoting
  <2>1. Promoting(a, br) /\ a.mode = "promoting" /\ br.attached \in SUBSET Views
    BY <1>1, <1>4 DEF Fit, BrowsersTyped
  <2>2. ASSUME NEW k \in 1 .. n, Marks(b.chain, b.epoch, k), Ahead(b, k)
        PROVE  b.acks = {} /\ b.commit # b.epoch /\ Quiet(cr, b.epoch)
    <3>1. Marks(a.chain, a.epoch, k) /\ Ahead(a, k) /\ k # 1
      BY <1>2, <1>7, <1>15, <2>2
    <3>2. a.acks = {} /\ a.commit # a.epoch /\ Quiet(br, a.epoch)
      BY <2>1, <3>1 DEF Promoting
    <3>3. i.kind # "boundary"
      BY <1>3, <1>8, <2>1, <3>1 DEF Promoting
    <3> QED  BY <1>4, <1>5, <2>1, <3>2, <3>3 DEF Quiet
  <2>3. ASSUME NEW v \in cr.attached, cr.disabled[v] = b.epoch
        PROVE  v \notin cr.answering
    <3>1. CASE i.kind = "boundary"
      BY <1>4, <1>5, <1>9, <2>1, <2>3, <3>1 DEF Quiet
    <3>2. CASE i.kind = "enable"
      BY <1>4, <1>5, <1>11, <2>1, <2>3, <3>2 DEF Quiet
    <3>3. CASE i.kind \notin {"boundary", "enable"}
      BY <1>4, <1>5, <2>1, <2>3, <3>3 DEF Promoting
    <3> QED  BY <3>1, <3>2, <3>3
  <2>4. b.acks \cap cr.answering = {}
    BY <1>4, <1>5, <1>11, <2>1 DEF Promoting
  <2>5. b.commit = b.epoch => cr.answering \cap cr.attached = {}
    BY <1>4, <1>5, <1>11, <2>1 DEF Promoting
  <2> QED  BY <1>4, <1>5, <2>1, <2>2, <2>3, <2>4, <2>5 DEF Promoting
<1>17. ~LateReceipts => Exact(b, cr)
  <2> SUFFICES ASSUME ~LateReceipts PROVE Exact(b, cr)
    OBVIOUS
  <2>1. Exact(a, br) /\ br.attached \in SUBSET Views
    BY <1>1 DEF Fit, BrowsersTyped
  <2>2. ASSUME b.mode = "promoting", NEW v \in cr.attached, cr.disabled[v] = b.epoch
        PROVE  v \notin b.acks
    <3>1. CASE i.kind = "boundary"
      BY <1>4, <1>9, <3>1
    <3>2. CASE i.kind # "boundary"
      BY <1>4, <1>5, <2>1, <2>2, <3>2 DEF Exact
    <3> QED  BY <3>1, <3>2
  <2>3. ASSUME b.mode = "promoting", b.receipts # {} \/ b.leases \/ b.commit = b.epoch
        PROVE  /\ Quiet(cr, b.epoch)
               /\ \A k \in 1 .. Len(b.chain) : Marks(b.chain, b.epoch, k) => ~Ahead(b, k)
    <3>1. i.kind # "boundary"
      BY <1>4, <1>9, <2>3
    <3>2. /\ Quiet(br, a.epoch)
          /\ \A k \in 1 .. n : Marks(a.chain, a.epoch, k) => ~Ahead(a, k)
      BY <1>4, <2>1, <2>3 DEF Exact
    <3>3. Quiet(cr, b.epoch)
      BY <1>4, <1>5, <2>1, <3>1, <3>2 DEF Quiet
    <3> QED  BY <1>4, <1>7, <1>15, <3>2, <3>3
  <2> QED  BY <1>4, <2>1, <2>2, <2>3 DEF Exact
<1> QED  BY <1>5, <1>6, <1>12, <1>13, <1>14, <1>16, <1>17 DEF Fit, cr

-----------------------------------------------------------------------------
(* The steps of a promotion.                                               *)

LEMMA StartFits ==
    ASSUME Fit(au, browsers), StartPromotion
    PROVE  Fit(au', browsers')
<1>1. /\ Typed(au) /\ Sound(au) /\ BrowsersTyped(browsers) /\ browsers' = browsers
      /\ au.epoch \in Nat /\ au.commit \in Nat /\ DOMAIN au = Fields
      /\ au.mode = "legacy" /\ ~au.leases
  BY DEF Fit, Sound, Typed, StartPromotion
<1>2. /\ Keeps(au', au, Free \cup {"admitted", "views", "opening"})
      /\ au'.views = browsers.attached /\ au'.opening = au.epoch + 1
  BY <1>1 DEF StartPromotion, Keeps, Fields, Free
<1>3. /\ au'.mode = au.mode /\ au'.epoch = au.epoch /\ au'.commit = au.commit
      /\ au'.targets = au.targets /\ au'.acks = au.acks /\ au'.lost = au.lost
      /\ au'.receipts = au.receipts /\ au'.leases = au.leases
      /\ au'.rollback = au.rollback /\ au'.restarted = au.restarted
      /\ au'.held = au.held /\ au'.applied = au.applied /\ au'.chain = au.chain
      /\ au'.sending = au.sending /\ DOMAIN au' = Fields
  BY <1>2 DEF Keeps, Fields, Free
<1>4. browsers.attached \in SUBSET Views
  BY <1>1 DEF BrowsersTyped
<1>5. Sound(au')
  BY <1>1, <1>2, <1>3, <1>4 DEF Sound, Typed, Bounded, Chunks, PendingTail
<1>6. \A x \in Nat : Begun(x, au) => Begun(x, au')
  BY <1>1, <1>2, <1>3 DEF Begun
<1>7. Past(au', browsers)
  <2>1. \A v \in Views : browsers.disabled[v] \in Nat
    BY <1>1 DEF BrowsersTyped
  <2>2. \A r \in au.receipts : r.epoch \in Nat
    BY <1>1 DEF Typed
  <2>3. \A k \in 1 .. Len(au.chain) : au.chain[k].epoch \in Nat
    <3>1. ASSUME NEW k \in 1 .. Len(au.chain) PROVE au.chain[k].epoch \in Nat
      <4>1. au.chain[k] \in Frame
        BY <1>1, ElementOfSeq DEF Typed
      <4> QED  BY <4>1 DEF Frame
    <3> QED  BY <3>1
  <2> QED  BY <1>1, <1>3, <1>6, <2>1, <2>2, <2>3 DEF Fit, Past
<1>8. Orderly(au') /\ Promoting(au', browsers) /\ Alone(au', browsers)
  BY <1>1, <1>3 DEF Fit, Orderly, Promoting, Alone
<1>9. ~LateReceipts => Exact(au', browsers)
  BY <1>1, <1>3 DEF StartPromotion, Exact
<1> QED  BY <1>1, <1>3, <1>5, <1>7, <1>8, <1>9 DEF Fit

LEMMA EnterFits ==
    ASSUME Fit(au, browsers), EnterPromotion
    PROVE  Fit(au', browsers')
<1> DEFINE e == au.opening
<1> DEFINE b == [au EXCEPT !.opening = 0, !.mode = "promoting", !.epoch = e, !.acks = {},
                           !.recovering = FALSE, !.begin = e, !.revoked = FALSE]
<1> DEFINE n == Len(au.chain)
<1>1. /\ Typed(au) /\ Bounded(au) /\ BrowsersTyped(browsers) /\ browsers' = browsers
      /\ au.commit \in Nat /\ DOMAIN au = Fields /\ e \in Nat /\ e # 0
      /\ au.chain \in Seq(Frame) /\ n \in Nat /\ ~au.leases
      /\ browsers.attached \in SUBSET Views /\ au.epoch \in Nat
  BY LenProperties DEF Fit, Sound, Typed, EnterPromotion, BoundaryDue, Orderly,
                       BrowsersTyped
<1>2. /\ Keeps(b, au, Free \cup {"opening", "mode", "epoch", "acks", "recovering"})
      /\ b.opening = 0 /\ b.mode = "promoting" /\ b.epoch = e /\ b.acks = {}
      /\ ~b.recovering /\ b.begin = e
  BY <1>1 DEF Keeps, Fields, Free
<1> HIDE DEF b
<1>3. /\ b.commit = au.commit /\ b.views = au.views
      /\ b.targets = au.targets /\ b.lost = au.lost
      /\ b.receipts = au.receipts /\ b.leases = au.leases
      /\ b.rollback = au.rollback /\ b.restarted = au.restarted
      /\ b.held = au.held /\ b.applied = au.applied /\ b.chain = au.chain
      /\ b.admitted = au.admitted /\ b.sending = au.sending
      /\ DOMAIN b = Fields
  BY <1>2 DEF Keeps, Fields, Free
<1>4. Sound(b)
  BY <1>1, <1>2, <1>3 DEF Sound, Typed, Bounded, Chunks, PendingTail, Modes
<1>5. /\ \A v \in Views : browsers.disabled[v] < e
      /\ au.commit < e
      /\ \A r \in au.receipts : r.epoch < e
      /\ \A k \in 1 .. n : au.chain[k].kind \in Transfer => au.chain[k].epoch < e
  BY <1>1 DEF Fit, Past, Begun
<1>6. \A x \in Nat : x <= e => Begun(x, b)
  BY <1>2 DEF Begun
<1>7. /\ \A v \in Views : browsers.disabled[v] \in Nat
      /\ \A r \in au.receipts : r.epoch \in Nat
      /\ \A k \in 1 .. n : au.chain[k].epoch \in Nat
  <2>1. ASSUME NEW k \in 1 .. n PROVE au.chain[k].epoch \in Nat
    <3>1. au.chain[k] \in Frame
      BY <1>1, ElementOfSeq
    <3> QED  BY <3>1 DEF Frame
  <2> QED  BY <1>1, <2>1 DEF BrowsersTyped, Typed
<1>8. ~LateReceipts => au.receipts = {}
  BY <1>1 DEF Fit, Exact
<1>9. CASE au.views # browsers.attached
  <2> DEFINE c == RequestRecovery(b)
  <2>1. Step(c, b)
    BY <1>4, RecoveryStep
  <2>2. /\ c.mode = "rolling-back" /\ c.chain = b.chain /\ c.commit = b.commit
        /\ c.epoch = b.epoch /\ c.opening = b.opening /\ c.receipts = b.receipts
        /\ c.leases = b.leases /\ c.sending = b.sending
    BY <1>2, <1>3 DEF RequestRecovery, Schedule, Fields
  <2> HIDE DEF c
  <2>3. Past(c, browsers)
    <3>1. \A x \in Nat : x <= e => Begun(x, c)
      BY <1>6, <2>2 DEF Begun
    <3> QED  BY <1>1, <1>3, <1>5, <1>7, <2>2, <3>1 DEF Past
  <2>4. Fit(c, browsers)
    BY <1>1, <1>2, <1>3, <1>8, <2>1, <2>2, <2>3
       DEF Fit, Orderly, Promoting, Alone, Exact, Step
  <2>5. Step(ResumeRollback(c, browsers.attached), c)
    BY <1>1, <2>1, ResumeStep DEF Step
  <2>6. au' = ResumeRollback(c, browsers.attached)
    BY <1>9 DEF EnterPromotion, c, b
  <2> QED  BY <1>1, <2>4, <2>5, <2>6, YieldsFit
<1>10. CASE au.views = browsers.attached
  <2> DEFINE f == [kind |-> "boundary", n |-> au.applied, epoch |-> e, by |-> {}]
  <2> DEFINE c == QueueFrame(b, "boundary", au.applied, e, {})
  <2>1. f \in Frame /\ f.kind = "boundary" /\ f.epoch = e /\ f.kind \notin OutputKinds
    BY <1>1 DEF Frame, Transfer, Typed, OutputKinds
  <2>2. Keeps(c, b, {"chain"}) /\ c.chain = Append(au.chain, f)
    BY <1>3 DEF QueueFrame, Keeps, Fields
  <2>3. au' = c
    BY <1>10 DEF EnterPromotion, c, b
  <2> HIDE DEF c, f
  <2>4. /\ c.mode = "promoting" /\ c.epoch = e /\ c.opening = 0 /\ c.acks = {}
        /\ ~c.recovering /\ c.commit = au.commit /\ c.views = au.views
        /\ c.targets = au.targets /\ c.lost = au.lost
        /\ c.receipts = au.receipts /\ ~c.leases
        /\ c.rollback = au.rollback /\ c.restarted = au.restarted
        /\ c.held = au.held /\ c.applied = au.applied /\ DOMAIN c = Fields
    BY <1>1, <1>2, <1>3, <2>2 DEF Keeps, Fields
  <2>5. /\ c.chain \in Seq(Frame) /\ Len(c.chain) = n + 1 /\ c.chain # <<>>
        /\ \A k \in 1 .. n : c.chain[k] = au.chain[k]
        /\ c.chain[n + 1] = f
    BY <1>1, <2>1, <2>2, AppendProperties
  <2>6. Sound(c)
    <3>1. Typed(c)
      BY <1>1, <2>4, <2>5 DEF Typed, Modes
    <3>2. Count(c.chain) = Count(au.chain)
      BY <1>1, <2>1, <2>2, CountAppended
    <3>3. Chunks(c) = Chunks(au)
      BY <2>4, <3>2 DEF Chunks, Count, PendingTail
    <3> QED  BY <1>1, <2>4, <3>1, <3>3 DEF Bounded, Sound
  <2>7. Past(c, browsers)
    <3>1. \A x \in Nat : x <= e => Begun(x, c)
      BY <2>4 DEF Begun
    <3>2. ASSUME NEW k \in 1 .. Len(c.chain), c.chain[k].kind \in Transfer
          PROVE  Begun(c.chain[k].epoch, c)
      <4>1. CASE k = n + 1
        BY <1>1, <2>1, <2>5, <3>1, <4>1
      <4>2. CASE k \in 1 .. n
        <5>1. au.chain[k].epoch \in Nat /\ au.chain[k].epoch < e
          BY <1>5, <1>7, <2>5, <3>2, <4>2
        <5>2. au.chain[k].epoch <= e
          BY <1>1, <5>1
        <5> QED  BY <2>5, <3>1, <4>2, <5>1, <5>2
      <4> QED  BY <1>1, <2>5, <4>1, <4>2
    <3> QED  BY <1>1, <1>5, <1>7, <2>4, <3>1, <3>2 DEF Past
  <2>8. \A k : Marks(c.chain, e, k) => k = n + 1
    BY SMTT(30), <1>1, <1>5, <1>7, <2>5 DEF Marks, Transfer
  <2>9. Marks(c.chain, e, n + 1)
    BY <1>1, <2>1, <2>5 DEF Marks
  <2>10. \A k \in 1 .. n : Behind(c.chain, e, k)
    BY <1>1, <2>5, <2>9 DEF Behind
  <2>11. \A v \in Views : browsers.disabled[v] # e
    BY <1>1, <1>5, <1>7
  <2>12. Promoting(c, browsers)
    <3>1. ASSUME NEW k \in 1 .. Len(c.chain), c.chain[k].kind = "enable"
          PROVE  Behind(c.chain, e, k)
      BY <1>1, <2>1, <2>5, <2>10, <3>1
    <3>2. au.commit # e /\ Quiet(browsers, e)
      BY <1>1, <1>5, <2>11 DEF Quiet
    <3> QED  BY <1>1, <1>10, <2>4, <2>8, <2>11, <3>1, <3>2 DEF Promoting
  <2>13. ~LateReceipts => Exact(c, browsers)
    <3> SUFFICES ASSUME ~LateReceipts PROVE Exact(c, browsers)
      OBVIOUS
    <3>1. ASSUME NEW k \in 1 .. Len(c.chain), Releases(c.chain, k)
          PROVE  k \in 1 .. n /\ c.chain[k].epoch # e /\ Behind(c.chain, e, k)
      <4>1. k \in 1 .. n
        BY <1>1, <2>1, <2>5, <3>1 DEF Releases
      <4> QED  BY <1>1, <1>5, <1>7, <2>5, <2>10, <3>1, <4>1 DEF Releases, Transfer
    <3>2. au.commit # e
      BY <1>1, <1>5
    <3> QED  BY <1>1, <1>8, <2>4, <2>11, <3>1, <3>2 DEF Exact
  <2> QED  BY <1>1, <2>3, <2>4, <2>5, <2>6, <2>7, <2>12, <2>13 DEF Fit, Orderly, Alone
<1> QED  BY <1>9, <1>10

\* An answer was heard: a view has nothing more on its way.
Heard(br, v) == [br EXCEPT !.disabled[v] = 0]

LEMMA HeardBrowsers ==
    ASSUME NEW a, NEW br, NEW v \in Views, Fit(a, br),
           NEW cr, cr = Heard(br, v)
    PROVE  /\ Fit(a, cr) /\ cr.attached = br.attached /\ cr.answering = br.answering
           /\ \A w \in Views : cr.disabled[w] = IF w = v THEN 0 ELSE br.disabled[w]
<1>1. BrowsersTyped(br)
  BY DEF Fit
<1>2. /\ DOMAIN cr = BrowserFields /\ cr.attached = br.attached
      /\ cr.answering = br.answering /\ cr.seen = br.seen /\ cr.handoff = br.handoff
      /\ cr.drained = br.drained
      /\ cr.disabled = [br.disabled EXCEPT ![v] = 0]
  BY <1>1 DEF Heard, BrowsersTyped, BrowserFields
<1>3. /\ cr.disabled \in [Views -> Nat]
      /\ \A w \in Views : cr.disabled[w] = IF w = v THEN 0 ELSE br.disabled[w]
  BY <1>1, <1>2 DEF BrowsersTyped
<1>4. BrowsersTyped(cr)
  BY <1>1, <1>2, <1>3 DEF BrowsersTyped
<1>5. Fit(a, cr)
  BY <1>2, <1>3, <1>4, BrowsersFit
<1> QED  BY <1>2, <1>3, <1>5

\* A view has acknowledged that it no longer answers; the last one commits.
LEMMA AcknowledgeFits ==
    ASSUME NEW a, NEW br, NEW v \in br.attached, NEW cr, Fit(a, br),
           cr = Heard(br, v),
           a.mode = "promoting", br.disabled[v] = a.epoch,
           NEW b, Keeps(b, a, Free \cup {"acks"}), b.acks = a.acks \cup {v},
           NEW c, Keeps(c, b, Free \cup {"commit", "receipts"}), c.commit = a.epoch,
           c.receipts = b.receipts \cup {[view |-> v, epoch |-> a.epoch]}
    PROVE  Fit(b, cr) /\ (b.acks = b.views => Fit(c, cr))
<1> DEFINE n == Len(a.chain)
<1>1. /\ Typed(a) /\ Bounded(a) /\ a.epoch \in Nat /\ br.attached \in SUBSET Views
      /\ v \in Views /\ a.acks \in SUBSET Views /\ a.epoch # 0 /\ a.opening = 0
      /\ a.receipts \in SUBSET [view : Views, epoch : Nat]
      /\ Promoting(a, br)
  BY DEF Fit, Sound, Typed, BrowsersTyped, Promoting, Orderly
<1>2. /\ Fit(a, cr) /\ cr.attached = br.attached /\ cr.answering = br.answering
      /\ \A w \in Views : cr.disabled[w] = IF w = v THEN 0 ELSE br.disabled[w]
  BY <1>1, HeardBrowsers
<1>3. /\ b.mode = a.mode /\ b.epoch = a.epoch /\ b.opening = a.opening
      /\ b.commit = a.commit /\ b.views = a.views /\ b.targets = a.targets
      /\ b.lost = a.lost /\ b.receipts = a.receipts /\ b.leases = a.leases
      /\ b.rollback = a.rollback /\ b.restarted = a.restarted /\ b.held = a.held
      /\ b.applied = a.applied /\ b.chain = a.chain /\ b.admitted = a.admitted
      /\ b.sending = a.sending /\ b.recovering = a.recovering /\ DOMAIN b = Fields
  BY DEF Keeps, Fields, Free
<1>4. /\ c.mode = a.mode /\ c.epoch = a.epoch /\ c.opening = a.opening
      /\ c.acks = b.acks /\ c.views = a.views /\ c.targets = a.targets
      /\ c.lost = a.lost /\ c.leases = a.leases
      /\ c.rollback = a.rollback /\ c.restarted = a.restarted /\ c.held = a.held
      /\ c.applied = a.applied /\ c.chain = a.chain /\ c.admitted = a.admitted
      /\ c.sending = a.sending /\ c.recovering = a.recovering /\ DOMAIN c = Fields
  BY <1>3 DEF Keeps, Fields, Free
<1>5. \A k \in 1 .. n : Marks(a.chain, a.epoch, k) => ~Ahead(a, k)
  BY <1>1 DEF Promoting, Quiet
<1>6. v \notin cr.answering /\ b.acks \cap cr.answering = {}
  BY <1>1, <1>2 DEF Promoting
<1>7. ~LateReceipts =>
         /\ a.receipts = {} /\ ~a.leases /\ a.commit # a.epoch
         /\ \A w \in cr.attached : cr.disabled[w] = a.epoch => w \notin b.acks
  <2> SUFFICES ASSUME ~LateReceipts
               PROVE  /\ a.receipts = {} /\ ~a.leases /\ a.commit # a.epoch
                      /\ \A w \in cr.attached : cr.disabled[w] = a.epoch => w \notin b.acks
    OBVIOUS
  <2>1. Exact(a, br) /\ ~Quiet(br, a.epoch)
    BY DEF Fit, Quiet
  <2>2. ASSUME NEW w \in cr.attached, cr.disabled[w] = a.epoch
        PROVE  w \notin b.acks
    <3>1. w # v /\ br.disabled[w] = a.epoch /\ w \in br.attached
      BY <1>1, <1>2, <2>2
    <3> QED  BY <2>1, <3>1 DEF Exact
  <2> QED  BY <2>1, <2>2 DEF Exact
<1>8. \A k : (Ahead(b, k) <=> Ahead(a, k)) /\ (Ahead(c, k) <=> Ahead(a, k))
  BY <1>3, <1>4 DEF Ahead
<1>9. Fit(b, cr)
  <2>1. Sound(b)
    BY <1>1, <1>3 DEF Sound, Typed, Bounded, Chunks, PendingTail
  <2>2. Past(b, cr)
    <3>1. \A x : Begun(x, b) <=> Begun(x, a)
      BY <1>3 DEF Begun
    <3> QED  BY <1>2, <1>3, <3>1 DEF Fit, Past
  <2>3. Promoting(b, cr)
    BY <1>2, <1>3, <1>5, <1>6, <1>8 DEF Fit, Promoting
  <2>4. ~LateReceipts => Exact(b, cr)
    BY <1>2, <1>3, <1>7, <1>8 DEF Fit, Exact
  <2>5. Orderly(b) /\ Alone(b, cr) /\ (b.mode = "legacy" => ~b.leases)
    BY <1>2, <1>3 DEF Fit, Orderly, Alone
  <2> QED  BY <1>2, <2>1, <2>2, <2>3, <2>4, <2>5 DEF Fit
<1>10. ASSUME b.acks = b.views PROVE Fit(c, cr)
  <2>1. Sound(c)
    <3>1. [view |-> v, epoch |-> a.epoch] \in [view : Views, epoch : Nat]
      BY <1>1
    <3>2. c.receipts \in SUBSET [view : Views, epoch : Nat]
      BY <1>1, <1>3, <3>1
    <3> QED  BY <1>1, <1>3, <1>4, <3>2 DEF Sound, Typed, Bounded, Chunks, PendingTail
  <2>2. Past(c, cr)
    <3>1. \A x : Begun(x, c) <=> Begun(x, a)
      BY <1>4 DEF Begun
    <3>2. Begun(a.epoch, c)
      BY <1>1, <1>4 DEF Begun
    <3>3. \A r \in c.receipts : Begun(r.epoch, c)
      BY <1>2, <1>3, <3>1, <3>2 DEF Fit, Past
    <3> QED  BY <1>2, <1>4, <3>1, <3>2, <3>3 DEF Fit, Past
  <2>3. cr.attached \subseteq b.acks /\ cr.answering \cap cr.attached = {}
    BY <1>1, <1>2, <1>3, <1>6, <1>10 DEF Promoting
  <2>4. Promoting(c, cr)
    BY <1>2, <1>4, <1>5, <1>6, <1>8, <2>3 DEF Fit, Promoting
  <2>5. ~LateReceipts => Exact(c, cr)
    <3> SUFFICES ASSUME ~LateReceipts PROVE Exact(c, cr)
      OBVIOUS
    <3>1. Quiet(cr, a.epoch)
      BY <1>7, <2>3 DEF Quiet
    <3>2. c.receipts = {[view |-> v, epoch |-> a.epoch]}
      BY <1>3, <1>7
    <3> QED  BY <1>1, <1>2, <1>4, <1>5, <1>7, <1>8, <3>1, <3>2 DEF Fit, Exact
  <2>6. Orderly(c) /\ Alone(c, cr) /\ (c.mode = "legacy" => ~c.leases)
    BY <1>2, <1>4 DEF Fit, Orderly, Alone
  <2> QED  BY <1>2, <2>1, <2>2, <2>4, <2>5, <2>6 DEF Fit
<1> QED  BY <1>9, <1>10

LEMMA HearDisableFits ==
    ASSUME Fit(au, browsers), NEW v \in Views, HearDisable(v)
    PROVE  Fit(au', browsers')
<1> DEFINE e == browsers.disabled[v]
<1> DEFINE cr == Heard(browsers, v)
<1> DEFINE b == [au EXCEPT !.acks = @ \union {v}]
<1> DEFINE c == [b EXCEPT !.commit = e,
                          !.receipts = @ \union {[view |-> v, epoch |-> e]}]
<1>1. /\ v \in browsers.attached /\ e # 0 /\ browsers' = cr
      /\ au' = CASE au.mode # "promoting" \/ e # au.epoch \/ v \notin au.views ->
                       ResumeRollback(au, browsers.attached)
                 [] OTHER -> IF ~AllDisabled(b) THEN b ELSE c
  BY DEF HearDisable, Heard
<1>2. Sound(au) /\ DOMAIN au = Fields /\ browsers.attached \in SUBSET Views
  BY DEF Fit, Sound, Typed, BrowsersTyped
<1>3. CASE au.mode # "promoting" \/ e # au.epoch \/ v \notin au.views
  <2>1. Step(ResumeRollback(au, browsers.attached), au)
    BY <1>2, ResumeStep
  <2>2. Fit(au, cr)
    <3> HIDE DEF cr
    <3> QED  BY HeardBrowsers DEF cr
  <2> HIDE DEF cr
  <2> QED  BY <1>1, <1>3, <2>1, <2>2, YieldsFit
<1>4. CASE ~(au.mode # "promoting" \/ e # au.epoch \/ v \notin au.views)
  <2>1. /\ Keeps(b, au, Free \cup {"acks"}) /\ b.acks = au.acks \cup {v}
    BY <1>2 DEF Keeps, Fields, Free
  <2>2. au' = IF ~AllDisabled(b) THEN b ELSE c
    BY <1>1, <1>4
  <2>3. DOMAIN b = Fields
    BY <2>1 DEF Keeps
  <2> HIDE DEF b
  <2>4. /\ Keeps(c, b, Free \cup {"commit", "receipts"}) /\ c.commit = e
        /\ c.receipts = b.receipts \cup {[view |-> v, epoch |-> e]}
    BY <2>3 DEF Keeps, Fields, Free
  <2> HIDE DEF c
  <2>5. Fit(b, cr) /\ (b.acks = b.views => Fit(c, cr))
    <3>1. cr = Heard(browsers, v)
      OBVIOUS
    <3> HIDE DEF cr
    <3> QED  BY <1>1, <1>4, <2>1, <2>4, <3>1, AcknowledgeFits
  <2> HIDE DEF cr
  <2> QED  BY <1>1, <2>2, <2>5 DEF AllDisabled
<1> QED  BY <1>3, <1>4

\* A receipt that arrived.
LEMMA FewerFit ==
    ASSUME NEW a, NEW b, NEW br, Fit(a, br), Keeps(b, a, Free \cup {"receipts"}),
           b.receipts \subseteq a.receipts
    PROVE  Fit(b, br)
<1>1. /\ b.mode = a.mode /\ b.epoch = a.epoch /\ b.opening = a.opening
      /\ b.commit = a.commit /\ b.views = a.views /\ b.targets = a.targets
      /\ b.lost = a.lost /\ b.acks = a.acks /\ b.leases = a.leases
      /\ b.rollback = a.rollback /\ b.restarted = a.restarted /\ b.held = a.held
      /\ b.applied = a.applied /\ b.chain = a.chain /\ b.admitted = a.admitted
      /\ b.sending = a.sending /\ b.recovering = a.recovering /\ DOMAIN b = Fields
  BY DEF Keeps, Fields, Free
<1>2. Sound(b)
  BY <1>1 DEF Fit, Sound, Typed, Bounded, Chunks, PendingTail
<1>3. Past(b, br)
  <2>1. \A x : Begun(x, b) <=> Begun(x, a)
    BY <1>1 DEF Begun
  <2> QED  BY <1>1, <2>1 DEF Fit, Past
<1>4. \A k : Ahead(b, k) <=> Ahead(a, k)
  BY <1>1 DEF Ahead
<1>5. Promoting(b, br)
  BY <1>1, <1>4 DEF Fit, Promoting
<1>6. Orderly(b) /\ Alone(b, br) /\ (b.mode = "legacy" => ~b.leases)
  BY <1>1 DEF Fit, Orderly, Alone
<1>7. ~LateReceipts => Exact(b, br)
  BY <1>1, <1>4 DEF Fit, Exact
<1> QED  BY <1>2, <1>3, <1>5, <1>6, <1>7 DEF Fit

\* Leases that are given back while nothing waits for them.
LEMMA LeasesFall ==
    ASSUME NEW a, NEW b, NEW br, Fit(a, br), Keeps(b, a, Free \cup {"leases"}), ~b.leases,
           ~LateReceipts =>
              /\ a.mode # "server"
              /\ a.mode = "promoting" =>
                    ~a.leases \/ \A k \in 1 .. Len(a.chain) : ~Releases(a.chain, k)
    PROVE  Fit(b, br)
<1>1. /\ b.mode = a.mode /\ b.epoch = a.epoch /\ b.opening = a.opening
      /\ b.commit = a.commit /\ b.views = a.views /\ b.targets = a.targets
      /\ b.lost = a.lost /\ b.acks = a.acks /\ b.receipts = a.receipts
      /\ b.rollback = a.rollback /\ b.restarted = a.restarted /\ b.held = a.held
      /\ b.applied = a.applied /\ b.chain = a.chain /\ b.admitted = a.admitted
      /\ b.sending = a.sending /\ b.recovering = a.recovering /\ DOMAIN b = Fields
  BY DEF Keeps, Fields, Free
<1>2. Sound(b)
  BY <1>1 DEF Fit, Sound, Typed, Bounded, Chunks, PendingTail
<1>3. Past(b, br)
  <2>1. \A x : Begun(x, b) <=> Begun(x, a)
    BY <1>1 DEF Begun
  <2> QED  BY <1>1, <2>1 DEF Fit, Past
<1>4. \A k : Ahead(b, k) <=> Ahead(a, k)
  BY <1>1 DEF Ahead
<1>5. Promoting(b, br)
  BY <1>1, <1>4 DEF Fit, Promoting
<1>6. Orderly(b) /\ Alone(b, br) /\ (b.mode = "legacy" => ~b.leases)
  BY <1>1 DEF Fit, Orderly, Alone
<1>7. ~LateReceipts => Exact(b, br)
  <2> SUFFICES ASSUME ~LateReceipts PROVE Exact(b, br)
    OBVIOUS
  <2>1. Exact(a, br) /\ a.mode # "server"
    BY DEF Fit
  <2>2. CASE a.mode # "promoting"
    BY <1>1, <2>1, <2>2 DEF Exact
  <2>3. CASE a.mode = "promoting" /\ ~a.leases
    BY <1>1, <1>4, <2>1, <2>3 DEF Exact
  <2>4. CASE a.mode = "promoting" /\ \A k \in 1 .. Len(a.chain) : ~Releases(a.chain, k)
    BY <1>1, <1>4, <2>1, <2>4 DEF Exact
  <2> QED  BY <2>2, <2>3, <2>4
<1> QED  BY <1>2, <1>3, <1>5, <1>6, <1>7 DEF Fit

\* The server takes the authority over: nobody it relied on answers any more.
LEMMA TakenFits ==
    ASSUME NEW a, NEW b, NEW br, NEW r \in a.receipts, Fit(a, br),
           PromotionIsCurrent(a, r.epoch), ~a.admitted,
           Keeps(b, a, Free \cup {"receipts", "leases"}), b.leases,
           b.receipts = a.receipts \ {r}
    PROVE  Fit(b, br) /\ (~LateReceipts => \A k \in 1 .. Len(b.chain) : ~Releases(b.chain, k))
<1> DEFINE n == Len(a.chain)
<1>1. /\ Typed(a) /\ Bounded(a) /\ a.epoch \in Nat /\ br.attached \in SUBSET Views
      /\ a.receipts \in SUBSET [view : Views, epoch : Nat]
      /\ a.chain \in Seq(Frame) /\ n \in Nat
      /\ a.mode = "promoting" /\ a.epoch = r.epoch /\ a.commit = a.epoch
      /\ Promoting(a, br) /\ a.opening = 0 /\ BrowsersTyped(br)
  BY LenProperties
     DEF Fit, Sound, Typed, BrowsersTyped, PromotionIsCurrent, Orderly
<1>2. /\ b.mode = a.mode /\ b.epoch = a.epoch /\ b.opening = a.opening
      /\ b.commit = a.commit /\ b.views = a.views /\ b.targets = a.targets
      /\ b.lost = a.lost /\ b.acks = a.acks
      /\ b.rollback = a.rollback /\ b.restarted = a.restarted /\ b.held = a.held
      /\ b.applied = a.applied /\ b.chain = a.chain /\ b.admitted = a.admitted
      /\ b.sending = a.sending /\ b.recovering = a.recovering /\ DOMAIN b = Fields
  BY DEF Keeps, Fields, Free
<1>3. \A k \in 1 .. n : ~(Marks(a.chain, a.epoch, k) /\ Ahead(a, k))
  BY <1>1 DEF Promoting
<1>4. \A k \in 1 .. n : ~Behind(a.chain, a.epoch, k)
  BY <1>1, <1>3 DEF Behind, Ahead
<1>5. \A k \in 1 .. n : a.chain[k].kind # "enable"
  BY <1>1, <1>4 DEF Promoting
<1>6. Sound(b)
  <2>1. b.receipts \in SUBSET [view : Views, epoch : Nat]
    BY <1>1
  <2> QED  BY <1>1, <1>2, <2>1 DEF Sound, Typed, Bounded, Chunks, PendingTail
<1>7. Past(b, br)
  <2>1. \A x : Begun(x, b) <=> Begun(x, a)
    BY <1>2 DEF Begun
  <2> QED  BY <1>2, <2>1 DEF Fit, Past
<1>8. \A k : Ahead(b, k) <=> Ahead(a, k)
  BY <1>2 DEF Ahead
<1>9. Promoting(b, br)
  BY <1>1, <1>2, <1>8 DEF Promoting
<1>10. Alone(b, br)
  BY <1>1, <1>2, <1>5 DEF Promoting, Alone
<1>11. ASSUME ~LateReceipts
       PROVE  Exact(b, br) /\ \A k \in 1 .. n : ~Releases(b.chain, k)
  <2>1. Exact(a, br) /\ a.receipts # {}
    BY <1>11 DEF Fit
  <2>2. b.receipts = {} /\ ~a.leases
    BY <1>1, <2>1 DEF Exact
  <2>3. \A k \in 1 .. n : ~Releases(a.chain, k)
    BY <1>1, <1>4, <2>1, <2>2 DEF Exact
  <2>4. /\ Quiet(br, a.epoch)
        /\ \A v \in br.attached : br.disabled[v] = a.epoch => v \notin a.acks
    BY <1>1, <2>1 DEF Exact
  <2> QED  BY <1>1, <1>2, <1>3, <1>8, <2>2, <2>3, <2>4 DEF Exact
<1> QED  BY <1>1, <1>2, <1>6, <1>7, <1>9, <1>10, <1>11 DEF Fit, Orderly

\* The server tells of what it took over, or sends what it held meanwhile.
LEMMA ReleasedFits ==
    ASSUME NEW a, NEW b, NEW br, NEW f \in Frame, Fit(a, br),
           f.kind \in {"recovery", "held"}, f.epoch = a.epoch,
           a.mode = "promoting",
           ~LateReceipts => a.leases /\ \A k \in 1 .. Len(a.chain) : ~Releases(a.chain, k),
           f.kind \in OutputKinds => Chunks(a) + 1 <= MaxHeldChunks,
           Keeps(b, a, {"chain"}), b.chain = Append(a.chain, f)
    PROVE  Fit(b, br)
<1> DEFINE n == Len(a.chain)
<1>1. /\ Typed(a) /\ Bounded(a) /\ a.epoch \in Nat
      /\ a.chain \in Seq(Frame) /\ n \in Nat /\ a.opening = 0 /\ BrowsersTyped(br)
      /\ Promoting(a, br) /\ Alone(a, br) /\ Past(a, br)
  BY LenProperties DEF Fit, Sound, Typed, Orderly
<1>2. /\ b.mode = a.mode /\ b.epoch = a.epoch /\ b.opening = a.opening
      /\ b.commit = a.commit /\ b.views = a.views /\ b.targets = a.targets
      /\ b.lost = a.lost /\ b.acks = a.acks /\ b.receipts = a.receipts
      /\ b.rollback = a.rollback /\ b.restarted = a.restarted /\ b.held = a.held
      /\ b.applied = a.applied /\ b.admitted = a.admitted /\ b.leases = a.leases
      /\ b.sending = a.sending /\ b.recovering = a.recovering /\ DOMAIN b = Fields
  BY DEF Keeps, Fields
<1>3. /\ b.chain \in Seq(Frame) /\ Len(b.chain) = n + 1
      /\ \A k \in 1 .. n : b.chain[k] = a.chain[k]
      /\ b.chain[n + 1] = f
  BY <1>1, AppendProperties
<1>4. \A k : Marks(b.chain, b.epoch, k) <=> Marks(a.chain, a.epoch, k)
  BY <1>1, <1>2, <1>3 DEF Marks
<1>5. \A k : Ahead(b, k) <=> Ahead(a, k)
  BY <1>2 DEF Ahead
<1>6. \A k : Marks(b.chain, b.epoch, k) => k \in 1 .. n
  BY <1>4 DEF Marks
<1>7. \A k \in 1 .. n + 1 :
        b.chain[k].kind = "enable" => ~a.leases /\ Behind(b.chain, b.epoch, k)
  <2>1. ASSUME NEW k \in 1 .. n + 1, b.chain[k].kind = "enable"
        PROVE  ~a.leases /\ Behind(b.chain, b.epoch, k)
    <3>1. k \in 1 .. n /\ a.chain[k].kind = "enable"
      BY <1>1, <1>3, <2>1
    <3>2. ~a.leases /\ Behind(a.chain, a.epoch, k)
      BY <1>1, <3>1 DEF Alone, Promoting
    <3>3. PICK j \in 1 .. n : j > k /\ Marks(a.chain, a.epoch, j)
      BY <3>2 DEF Behind
    <3> QED  BY <1>1, <1>3, <1>4, <3>2, <3>3 DEF Behind
  <2> QED  BY <2>1
<1>8. Sound(b)
  <2>1. Typed(b)
    BY <1>1, <1>2, <1>3 DEF Typed
  <2>2. /\ Count(b.chain) <= Count(a.chain) + 1
        /\ f.kind \notin OutputKinds => Count(b.chain) = Count(a.chain)
    BY <1>1, CountAppended
  <2>3. /\ Chunks(b) = Count(b.chain) + Len(PendingTail(b))
        /\ Len(PendingTail(b)) \in Nat /\ Count(b.chain) \in Nat
    BY <2>1, Waiting
  <2>4. /\ Chunks(a) = Count(a.chain) + Len(PendingTail(a))
        /\ Len(PendingTail(a)) \in Nat /\ Count(a.chain) \in Nat
    BY <1>1, Waiting
  <2>5. PendingTail(b) = PendingTail(a)
    BY <1>2 DEF PendingTail
  <2>6. Chunks(b) <= MaxHeldChunks
    BY SMTT(30), <1>1, <2>2, <2>3, <2>4, <2>5, AuthorityAssumption DEF Bounded
  <2> QED  BY <1>1, <1>2, <2>1, <2>6 DEF Bounded, Sound
<1>9. Past(b, br)
  <2>1. \A x : Begun(x, b) <=> Begun(x, a)
    BY <1>2 DEF Begun
  <2>2. Begun(a.epoch, b)
    BY <1>1, <1>2 DEF Begun
  <2>3. \A k \in 1 .. n + 1 : b.chain[k].kind \in Transfer => Begun(b.chain[k].epoch, b)
    BY <1>1, <1>3, <2>1, <2>2 DEF Past
  <2> QED  BY <1>1, <1>2, <1>3, <2>1, <2>3 DEF Past
<1>10. Promoting(b, br)
  <2>1. \A j, k \in 1 .. Len(b.chain) :
            Marks(b.chain, b.epoch, j) /\ Marks(b.chain, b.epoch, k) => j = k
    BY <1>1, <1>4, <1>6 DEF Promoting
  <2>2. \A k \in 1 .. Len(b.chain) :
            Marks(b.chain, b.epoch, k) /\ Ahead(b, k) =>
               b.acks = {} /\ b.commit # b.epoch /\ Quiet(br, b.epoch)
    BY <1>1, <1>2, <1>4, <1>5, <1>6 DEF Promoting
  <2> QED  BY <1>1, <1>2, <1>3, <1>7, <2>1, <2>2 DEF Promoting
<1>11. Alone(b, br)
  BY <1>1, <1>2, <1>3, <1>7 DEF Alone
<1>12. ~LateReceipts => Exact(b, br)
  <2> SUFFICES ASSUME ~LateReceipts PROVE Exact(b, br)
    OBVIOUS
  <2>1. Exact(a, br)
    BY DEF Fit
  <2>2. ASSUME NEW k \in 1 .. n + 1, Releases(b.chain, k)
        PROVE  k = n + 1
    BY <1>1, <1>3, <2>2 DEF Releases
  <2>3. \A k \in 1 .. Len(b.chain) : Marks(b.chain, b.epoch, k) => ~Ahead(b, k)
    BY <1>4, <1>5, <1>6, <2>1 DEF Exact
  <2> QED  BY <1>1, <1>2, <1>3, <2>1, <2>2, <2>3 DEF Exact
<1> QED  BY <1>1, <1>2, <1>8, <1>9, <1>10, <1>11, <1>12 DEF Fit, Orderly

LEMMA ReceiptFits ==
    ASSUME Fit(au, browsers), NEW r \in au.receipts, NEW sent \in BOOLEAN, Receipt(r, sent)
    PROVE  Fit(au', browsers')
<1> DEFINE live == browsers.attached
<1> DEFINE b == [au EXCEPT !.receipts = @ \ {r}]
<1> DEFINE t == [Troubled(b) EXCEPT !.acks = @ \ {r.view}]
<1> DEFINE d == [b EXCEPT !.leases = TRUE]
<1>1. /\ Sound(au) /\ DOMAIN au = Fields /\ live \in SUBSET Views /\ browsers' = browsers
      /\ au.receipts \in SUBSET [view : Views, epoch : Nat]
  BY DEF Fit, Sound, Typed, BrowsersTyped, Receipt
<1>2. Keeps(b, au, Free \cup {"receipts"}) /\ b.receipts = au.receipts \ {r}
  BY <1>1 DEF Keeps, Fields, Free
<1>3. au' = CASE ~sent -> CommitEnds(RequestRecovery(Schedule(t)), r.epoch, {r.view}, live)
              [] sent /\ ~Installs(b) ->
                    CommitEnds(RequestRecovery(b), r.epoch, {r.view}, live)
              [] sent /\ Installs(b) /\ PromotionIsCurrent(b, r.epoch) ->
                    QueueFrame(d, "recovery", b.applied, r.epoch, {r.view})
              [] OTHER -> CommitEnds(Discard(d), r.epoch, {r.view}, live)
  BY DEF Receipt
<1>4. DOMAIN b = Fields
  BY <1>2 DEF Keeps
<1> HIDE DEF b
<1>5. Fit(b, browsers) /\ Sound(b)
  <2>1. Fit(b, browsers)
    BY <1>2, FewerFit
  <2> QED  BY <2>1 DEF Fit
<1>6. CASE ~sent
  <2>1. /\ Keeps(t, b, Free \cup {"commit", "acks", "targets", "views", "lost"})
        /\ t.commit = b.commit /\ t.acks \subseteq b.acks /\ t.targets = b.targets
        /\ t.views = b.views /\ t.lost = b.lost
    BY <1>4 DEF Troubled, Keeps, Fields, Free
  <2>2. b.targets \in SUBSET Views /\ b.views \in SUBSET Views /\ b.lost \in SUBSET Views
    BY <1>5 DEF Sound, Typed
  <2>3. au' = CommitEnds(RequestRecovery(Schedule(t)), r.epoch, {r.view}, live)
    BY <1>3, <1>6
  <2> HIDE DEF t
  <2>4. Step(t, b)
    BY <1>5, <2>1, <2>2, LessStep
  <2>5. Step(Schedule(t), b)
    BY <1>5, <2>4, ScheduleStep, StepFrom DEF Step
  <2>6. Step(RequestRecovery(Schedule(t)), b)
    BY <1>5, <2>5, RecoveryStep, StepFrom DEF Step
  <2>7. Step(au', b)
    <3> HIDE DEF live
    <3> QED  BY <1>1, <1>5, <2>3, <2>6, CommitEndsStep, StepFrom DEF Step
  <2> QED  BY <1>1, <1>5, <2>7, YieldsFit
<1>7. CASE sent /\ ~Installs(b)
  <2>1. au' = CommitEnds(RequestRecovery(b), r.epoch, {r.view}, live)
    BY <1>3, <1>7
  <2>2. Step(RequestRecovery(b), b)
    BY <1>5, RecoveryStep
  <2>3. Step(au', b)
    <3> HIDE DEF live
    <3> QED  BY <1>1, <1>5, <2>1, <2>2, CommitEndsStep, StepFrom DEF Step
  <2> QED  BY <1>1, <1>5, <2>3, YieldsFit
<1>8. CASE sent /\ Installs(b) /\ PromotionIsCurrent(b, r.epoch)
  <2>1. au' = QueueFrame(d, "recovery", b.applied, r.epoch, {r.view})
    BY <1>3, <1>8
  <2>2. /\ Keeps(d, au, Free \cup {"receipts", "leases"}) /\ d.leases
        /\ d.receipts = au.receipts \ {r} /\ d.applied = b.applied
        /\ d.epoch = b.epoch /\ d.mode = b.mode /\ DOMAIN d = Fields
    BY <1>2, <1>4 DEF Keeps, Fields, Free
  <2>3. /\ PromotionIsCurrent(au, r.epoch) /\ ~au.admitted /\ r.epoch = b.epoch
        /\ b.mode = "promoting"
    BY <1>2, <1>8 DEF Installs, PromotionIsCurrent, Keeps, Fields, Free
  <2> HIDE DEF d
  <2>4. Fit(d, browsers) /\ (~LateReceipts => \A k \in 1 .. Len(d.chain) : ~Releases(d.chain, k))
    BY <2>2, <2>3, TakenFits
  <2> DEFINE f == [kind |-> "recovery", n |-> b.applied, epoch |-> r.epoch, by |-> {r.view}]
  <2> DEFINE c == QueueFrame(d, "recovery", b.applied, r.epoch, {r.view})
  <2>5. f \in Frame /\ f.kind = "recovery" /\ f.epoch = d.epoch /\ f.kind \notin OutputKinds
    <3>1. r.view \in Views /\ r.epoch \in Nat /\ b.applied \in Nat
      BY <1>1, <1>5 DEF Sound, Typed
    <3> QED  BY <2>2, <2>3, <3>1 DEF Frame, Transfer, OutputKinds
  <2>6. Keeps(c, d, {"chain"}) /\ c.chain = Append(d.chain, f)
    BY <2>2 DEF QueueFrame, Keeps, Fields
  <2> HIDE DEF c, f
  <2>7. Fit(c, browsers)
    BY <2>2, <2>3, <2>4, <2>5, <2>6, ReleasedFits
  <2> QED  BY <1>1, <2>1, <2>7 DEF c
<1>9. CASE sent /\ Installs(b) /\ ~PromotionIsCurrent(b, r.epoch)
  <2> DEFINE c == Discard(d)
  <2>1. au' = CommitEnds(c, r.epoch, {r.view}, live)
    BY <1>3, <1>9
  <2>2. Keeps(c, b, Free \cup {"leases"}) /\ ~c.leases
    BY <1>4 DEF Discard, Keeps, Fields, Free
  <2> HIDE DEF c
  <2>3. ~LateReceipts => b.mode # "server" /\ (b.mode = "promoting" => ~b.leases)
    <3>1. b.mode = au.mode /\ b.leases = au.leases /\ au.receipts # {}
      BY <1>2 DEF Keeps, Fields, Free
    <3> QED  BY <3>1 DEF Fit, Exact
  <2>4. Fit(c, browsers) /\ Sound(c)
    <3>1. Fit(c, browsers)
      BY <1>5, <2>2, <2>3, LeasesFall
    <3> QED  BY <3>1 DEF Fit
  <2>5. Step(au', c)
    <3> HIDE DEF live
    <3> QED  BY <1>1, <2>1, <2>4, CommitEndsStep
  <2> QED  BY <1>1, <2>4, <2>5, YieldsFit
<1> QED  BY <1>6, <1>7, <1>8, <1>9

LEMMA DeadlineFits ==
    ASSUME Fit(au, browsers), Deadline
    PROVE  Fit(au', browsers')
<1> DEFINE b == [Troubled(au) EXCEPT !.deadline = FALSE]
<1>1. /\ Sound(au) /\ DOMAIN au = Fields /\ browsers.attached \in SUBSET Views
      /\ browsers' = browsers
  BY DEF Fit, Sound, Typed, BrowsersTyped, Deadline
<1>2. Keeps(b, au, Free)
  BY <1>1 DEF Troubled, Keeps, Fields, Free
<1>3. au' \in {b, ResumeRollback(RequestRecovery(b), browsers.attached)}
  BY DEF Deadline
<1> HIDE DEF b
<1>4. Step(b, au)
  BY <1>1, <1>2, FreeStep
<1>5. Step(RequestRecovery(b), au)
  BY <1>1, <1>4, RecoveryStep, StepFrom DEF Step
<1>6. Step(ResumeRollback(RequestRecovery(b), browsers.attached), au)
  BY <1>1, <1>5, ResumeStep, StepFrom DEF Step
<1> QED  BY <1>1, <1>3, <1>4, <1>6, YieldsFit

\* The server has released all it held: it is the authority now.
LEMMA AnswersFit ==
    ASSUME NEW a, NEW br, Fit(a, br), a.mode = "promoting",
           ~LateReceipts => a.leases /\ \A k \in 1 .. Len(a.chain) : ~Releases(a.chain, k)
    PROVE  Fit(ServerAnswers(a), br)
<1> DEFINE b == ServerAnswers(a)
<1>1. /\ Typed(a) /\ Bounded(a) /\ a.epoch \in Nat /\ DOMAIN a = Fields /\ a.opening = 0
      /\ BrowsersTyped(br)
  BY DEF Fit, Sound, Typed, Orderly
<1>2. /\ b.mode = "server" /\ b.epoch = a.epoch /\ b.opening = a.opening
      /\ b.commit = 0 /\ b.views = a.views /\ b.targets = a.targets
      /\ b.lost = a.lost /\ b.acks = a.acks /\ b.receipts = a.receipts
      /\ b.rollback = a.rollback /\ b.restarted = a.restarted /\ b.held = <<>>
      /\ b.applied = a.applied /\ b.admitted = a.admitted /\ b.leases = a.leases
      /\ b.sending = a.sending /\ b.recovering = a.recovering /\ b.chain = a.chain
      /\ DOMAIN b = Fields
  BY <1>1 DEF ServerAnswers, Flush, Fields
<1> HIDE DEF b
<1>3. Sound(b)
  <2>1. <<>> \in Seq(Nat)
    BY EmptySeq
  <2> QED  BY <1>1, <1>2, <2>1 DEF Sound, Typed, Bounded, Chunks, PendingTail, Modes
<1>4. Past(b, br)
  <2>1. \A x : Begun(x, b) <=> Begun(x, a)
    BY <1>2 DEF Begun
  <2>2. Begun(0, b)
    BY <1>1, <1>2 DEF Begun
  <2> QED  BY <1>2, <2>1, <2>2 DEF Fit, Past
<1>5. Promoting(b, br) /\ Orderly(b) /\ Alone(b, br)
  BY <1>1, <1>2 DEF Fit, Promoting, Orderly, Alone
<1>6. ~LateReceipts => Exact(b, br)
  BY <1>1, <1>2 DEF Fit, Exact
<1>7. Fit(b, br)
  BY <1>1, <1>2, <1>3, <1>4, <1>5, <1>6 DEF Fit
<1> QED  BY <1>7 DEF b

LEMMA AfterReleaseFits ==
    ASSUME NEW a, NEW br, NEW i \in Frame, NEW ok \in BOOLEAN, NEW live \in SUBSET Views,
           Fit(a, br), i.kind \in {"recovery", "held"},
           ok /\ ~LateReceipts =>
              /\ a.mode # "server"
              /\ a.mode = "promoting" =>
                    IF i.epoch = a.epoch
                    THEN a.leases /\ \A k \in 1 .. Len(a.chain) : ~Releases(a.chain, k)
                    ELSE ~a.leases
    PROVE  Fit(AfterRelease(a, i, ok, live), br)
<1>1. /\ Sound(a) /\ Typed(a) /\ DOMAIN a = Fields /\ a.held \in Seq(Nat)
      /\ i.epoch \in Nat /\ i.by \in SUBSET Views
  BY DEF Fit, Sound, Typed, Frame
<1>2. CASE ok /\ PromotionIsCurrent(a, i.epoch)
  <2> DEFINE out == {k \in DOMAIN a.held : a.held[k] <= i.n}
  <2> DEFINE rest == SubSeq(a.held, Cardinality(out) + 1, Len(a.held))
  <2>1. /\ a.mode = "promoting" /\ i.epoch = a.epoch
        /\ ~LateReceipts => a.leases /\ \A k \in 1 .. Len(a.chain) : ~Releases(a.chain, k)
    BY <1>2 DEF PromotionIsCurrent
  <2>2. AfterRelease(a, i, ok, live) =
           CASE rest = <<>> -> ServerAnswers(a)
             [] rest # <<>> /\ Chunks(a) + 1 > MaxHeldChunks ->
                   CommitEnds(RequestRecovery(a), i.epoch, i.by, live)
             [] OTHER -> QueueFrame(a, "held", Head(rest), i.epoch, i.by)
    BY <1>2 DEF AfterRelease, ReleaseNext
  <2>3. rest \in Seq(Nat)
    <3>1. /\ DOMAIN a.held = 1 .. Len(a.held) /\ Len(a.held) \in Nat
          /\ IsFiniteSet(DOMAIN a.held)
      <4>1. DOMAIN a.held = 1 .. Len(a.held) /\ Len(a.held) \in Nat
        BY <1>1, LenProperties
      <4> QED  BY <4>1, FS_Interval
    <3>2. out \in SUBSET DOMAIN a.held
      OBVIOUS
    <3>3. Cardinality(out) \in Nat
      BY <3>1, <3>2, FS_Subset, FS_CardinalityType
    <3>4. \A k \in Cardinality(out) + 1 .. Len(a.held) : k \in 1 .. Len(a.held)
      <4> HIDE DEF out
      <4> QED  BY <3>1, <3>3
    <3>5. Cardinality(out) + 1 \in Int /\ Len(a.held) \in Int
      <4> HIDE DEF out
      <4> QED  BY <3>1, <3>3
    <3> DEFINE m == Cardinality(out) + 1
    <3> DEFINE n == Len(a.held)
    <3>6. /\ m \in Int /\ n \in Int /\ \A k \in m .. n : a.held[k] \in Nat
      BY <1>1, <3>1, <3>4, <3>5, ElementOfSeq
    <3> HIDE DEF m, n
    <3>7. SubSeq(a.held, m, n) \in Seq(Nat)
      BY <1>1, <3>6, SubSeqProperties DEF n
    <3> QED  BY <3>7 DEF m, n
  <2> HIDE DEF rest
  <2>4. CASE rest = <<>>
    BY <2>1, <2>2, <2>4, AnswersFit
  <2>5. CASE rest # <<>> /\ Chunks(a) + 1 > MaxHeldChunks
    <3>1. Step(RequestRecovery(a), a)
      BY <1>1, RecoveryStep
    <3>2. Step(CommitEnds(RequestRecovery(a), i.epoch, i.by, live), a)
      BY <1>1, <3>1, CommitEndsStep, StepFrom DEF Step
    <3> QED  BY <2>2, <2>5, <3>2, YieldsFit
  <2>6. CASE rest # <<>> /\ ~(Chunks(a) + 1 > MaxHeldChunks)
    <3> DEFINE f == [kind |-> "held", n |-> Head(rest), epoch |-> i.epoch, by |-> i.by]
    <3> DEFINE c == QueueFrame(a, "held", Head(rest), i.epoch, i.by)
    <3>1. Head(rest) \in Nat
      BY <2>3, <2>6, HeadTailProperties
    <3>2. f \in Frame /\ f.kind = "held" /\ f.epoch = a.epoch
      BY <1>1, <2>1, <3>1 DEF Frame, Transfer
    <3>3. Chunks(a) + 1 <= MaxHeldChunks
      <4>1. Chunks(a) \in Nat
        BY <1>1, Waiting
      <4> QED  BY <2>6, <4>1, AuthorityAssumption
    <3>4. Keeps(c, a, {"chain"}) /\ c.chain = Append(a.chain, f)
      BY <1>1 DEF QueueFrame, Keeps, Fields
    <3>5. AfterRelease(a, i, ok, live) = c
      BY <2>2, <2>6
    <3> HIDE DEF c, f
    <3> QED  BY <2>1, <3>2, <3>3, <3>4, <3>5, ReleasedFits
  <2> QED  BY <2>4, <2>5, <2>6
<1>3. CASE ~(ok /\ PromotionIsCurrent(a, i.epoch))
  <2> DEFINE c == IF ok THEN Discard(a) ELSE a
  <2>1. AfterRelease(a, i, ok, live) = CommitEnds(c, i.epoch, i.by, live)
    BY <1>3 DEF AfterRelease
  <2>2. Fit(c, br)
    <3>1. CASE ok /\ a.leases
      <4>1. Keeps(c, a, Free \cup {"leases"}) /\ ~c.leases
        BY <1>1, <3>1 DEF Discard, Keeps, Fields, Free
      <4> HIDE DEF c
      <4> QED  BY <3>1, <4>1, LeasesFall
    <3>2. CASE ~(ok /\ a.leases)
      BY <3>2 DEF Discard
    <3> QED  BY <3>1, <3>2
  <2> HIDE DEF c
  <2>3. Step(CommitEnds(c, i.epoch, i.by, live), c)
    BY <2>2, CommitEndsStep DEF Fit
  <2> QED  BY <2>1, <2>2, <2>3, YieldsFit
<1> QED  BY <1>2, <1>3

\* The browsers are no longer admitted.
LEMMA ClosedStep ==
    ASSUME NEW a, NEW b, Sound(a), Keeps(b, a, Free \cup {"admitted"}), ~b.admitted
    PROVE  Step(b, a)
<1>1. /\ b.epoch = a.epoch /\ b.opening = a.opening /\ b.receipts = a.receipts
      /\ b.leases = a.leases /\ b.commit = a.commit /\ b.mode = a.mode
      /\ b.recovering = a.recovering /\ b.sending = a.sending /\ b.chain = a.chain
      /\ b.rollback = a.rollback /\ b.restarted = a.restarted /\ b.held = a.held
      /\ b.applied = a.applied /\ b.acks = a.acks /\ b.views = a.views
      /\ b.targets = a.targets /\ b.lost = a.lost /\ DOMAIN b = Fields
  BY DEF Keeps, Fields, Free
<1>2. Sound(b)
  BY <1>1 DEF Sound, Typed, Bounded, Chunks, PendingTail
<1>3. Longer(b.chain, a.chain) /\ a.epoch \in Nat
  BY <1>1, SameChain DEF Sound, Typed
<1> QED  BY <1>1, <1>2, <1>3 DEF Step, Yields

LEMMA DrainsSet ==
    ASSUME NEW r \in Rollback, NEW drains \in SUBSET Views
    PROVE  LET s == [r EXCEPT !.drains = drains]
           IN  /\ s \in Rollback /\ s.pending = r.pending /\ s.queries = r.queries
               /\ r.epoch # 0
BY DEF Rollback

LEMMA AfterEnableFits ==
    ASSUME NEW a, NEW br, NEW i \in Frame, NEW ok \in BOOLEAN,
           Fit(a, br), i.kind = "enable", ok => ~a.leases
    PROVE  Fit(AfterEnable(a, i, ok), br)
<1> DEFINE over == [a EXCEPT !.ccommit = IF @ = i.epoch THEN 0 ELSE @]
<1> DEFINE revoked == [over EXCEPT !.admitted = FALSE]
<1> DEFINE again == [revoked EXCEPT !.rollback.drains = @ \ i.by]
<1> DEFINE back == [over EXCEPT !.mode = "legacy", !.fenced = FALSE]
<1>1. Sound(a) /\ DOMAIN a = Fields /\ BrowsersTyped(br) /\ i.epoch # 0
  BY DEF Fit, Sound, Typed, Frame, Transfer
<1>2. Keeps(over, a, Free)
  BY <1>1 DEF Keeps, Fields, Free
<1>3. /\ Keeps(revoked, a, Free \cup {"admitted"}) /\ ~revoked.admitted
      /\ revoked.rollback = a.rollback
  BY <1>1 DEF Keeps, Fields, Free
<1>4. Step(revoked, a) /\ Sound(revoked) /\ DOMAIN revoked = Fields
  <2> HIDE DEF revoked
  <2>1. Step(revoked, a)
    BY <1>1, <1>3, ClosedStep
  <2> QED  BY <2>1 DEF Step, Sound, Typed
<1>5. CASE ok /\ CompatibilityIsCurrent(a, i.epoch)
  <2>1. AfterEnable(a, i, ok) = back
    BY <1>5 DEF AfterEnable
  <2>2. a.mode = "rolling-back"
    BY <1>5 DEF CompatibilityIsCurrent, RollbackIsCurrent
  <2>3. Keeps(back, a, Free \cup {"mode"}) /\ back.mode = "legacy"
    BY <1>1 DEF Keeps, Fields, Free
  <2> HIDE DEF back
  <2>4. /\ back.epoch = a.epoch /\ back.opening = a.opening /\ back.receipts = a.receipts
        /\ back.leases = a.leases /\ back.commit = a.commit
        /\ back.recovering = a.recovering /\ back.sending = a.sending
        /\ back.chain = a.chain /\ back.admitted = a.admitted
        /\ back.rollback = a.rollback /\ back.restarted = a.restarted
        /\ back.held = a.held /\ back.applied = a.applied /\ back.acks = a.acks
        /\ back.views = a.views /\ back.targets = a.targets /\ back.lost = a.lost
        /\ DOMAIN back = Fields
    BY <2>3 DEF Keeps, Fields, Free
  <2>5. Sound(back)
    BY <1>1, <2>3, <2>4 DEF Sound, Typed, Bounded, Chunks, PendingTail, Modes
  <2>6. Past(back, br)
    <3>1. \A x : Begun(x, back) <=> Begun(x, a)
      BY <2>4 DEF Begun
    <3> QED  BY <2>4, <3>1 DEF Fit, Past
  <2>7. Orderly(back) /\ Promoting(back, br) /\ Alone(back, br) /\ ~back.leases
    BY <1>5, <2>3, <2>4 DEF Fit, Orderly, Promoting, Alone
  <2>8. ~LateReceipts => Exact(back, br)
    BY <2>3, <2>4 DEF Fit, Exact
  <2> QED  BY <1>1, <2>1, <2>5, <2>6, <2>7, <2>8 DEF Fit
<1>6. CASE ~(ok /\ CompatibilityIsCurrent(a, i.epoch)) /\ a.rollback.epoch = i.epoch
  <2>1. AfterEnable(a, i, ok) = again
    BY <1>6 DEF AfterEnable
  <2>2. /\ revoked.rollback \in Rollback
        /\ Len(revoked.rollback.queries) <= MaxHeldChunks
    <3>1. revoked.rollback.epoch # 0
      BY <1>1, <1>3, <1>6
    <3> HIDE DEF revoked
    <3>2. revoked.rollback \in Rollback
      BY <1>4, <3>1, Waiting DEF Sound
    <3> QED  BY <1>4, <3>1, <3>2 DEF Sound, Bounded
  <2> HIDE DEF revoked
  <2>3. /\ Keeps(again, revoked, Free \cup {"rollback"})
        /\ again.rollback = [revoked.rollback EXCEPT !.drains = @ \ i.by]
    BY <1>4 DEF Keeps, Fields, Free
  <2>4. /\ again.rollback \in Rollback
        /\ again.rollback.pending = revoked.rollback.pending
        /\ again.rollback.queries = revoked.rollback.queries
        /\ Len(again.rollback.pending) <= Len(revoked.rollback.pending)
    <3> DEFINE drains == revoked.rollback.drains \ i.by
    <3>1. /\ again.rollback = [revoked.rollback EXCEPT !.drains = drains]
          /\ drains \in SUBSET Views /\ revoked.rollback.pending \in Seq(Nat)
      BY <2>2, <2>3 DEF Rollback
    <3> HIDE DEF drains, again
    <3>2. /\ again.rollback \in Rollback
          /\ again.rollback.pending = revoked.rollback.pending
          /\ again.rollback.queries = revoked.rollback.queries
      BY ZenonT(40), <2>2, <3>1, DrainsSet
    <3>3. Len(revoked.rollback.pending) \in Nat
      BY <3>1, LenProperties
    <3> QED  BY <3>2, <3>3
  <2> HIDE DEF again
  <2>5. Step(again, revoked)
    BY <1>4, <2>2, <2>3, <2>4, NoteStep
  <2>6. Step(again, a)
    BY <1>1, <1>4, <2>5, StepFrom
  <2> QED  BY <2>1, <2>6, YieldsFit
<1>7. CASE ~(ok /\ CompatibilityIsCurrent(a, i.epoch)) /\ a.rollback.epoch # i.epoch
  <2>1. AfterEnable(a, i, ok) = revoked
    BY <1>7 DEF AfterEnable
  <2> QED  BY <1>4, <2>1, YieldsFit
<1> QED  BY <1>5, <1>6, <1>7

LEMMA AfterFrameFits ==
    ASSUME NEW a, NEW br, NEW i \in Frame, NEW ok \in BOOLEAN, NEW live \in SUBSET Views,
           Fit(a, br),
           ok /\ i.kind = "checkpoint" => a.rollback.epoch # 0,
           ok /\ i.kind = "enable" => ~a.leases,
           ok /\ i.kind \in {"recovery", "held"} /\ ~LateReceipts =>
              /\ a.mode # "server"
              /\ a.mode = "promoting" =>
                    IF i.epoch = a.epoch
                    THEN a.leases /\ \A k \in 1 .. Len(a.chain) : ~Releases(a.chain, k)
                    ELSE ~a.leases
    PROVE  Fit(AfterFrame(a, i, ok, live), br)
<1>1. Sound(a)
  BY DEF Fit
<1>2. CASE i.kind = "start"
  <2>1. AfterFrame(a, i, ok, live) = AfterStart(a, i, ok)
    BY <1>2 DEF AfterFrame
  <2> QED  BY <1>1, <1>2, <2>1, AfterStartStep, YieldsFit
<1>3. CASE i.kind = "checkpoint"
  <2>1. AfterFrame(a, i, ok, live) = AfterCheckpoint(a, i, ok)
    BY <1>3 DEF AfterFrame
  <2> QED  BY <1>1, <1>3, <2>1, AfterCheckpointStep, YieldsFit
<1>4. CASE i.kind = "boundary"
  <2>1. AfterFrame(a, i, ok, live) = AfterBoundary(a, ok, live)
    BY <1>4 DEF AfterFrame
  <2> QED  BY <1>1, <2>1, AfterBoundaryStep, YieldsFit
<1>5. CASE i.kind \in {"recovery", "held"}
  <2>1. AfterFrame(a, i, ok, live) = AfterRelease(a, i, ok, live)
    BY <1>5 DEF AfterFrame
  <2> QED  BY <1>5, <2>1, AfterReleaseFits
<1>6. CASE i.kind = "enable"
  <2>1. AfterFrame(a, i, ok, live) = AfterEnable(a, i, ok)
    BY <1>6 DEF AfterFrame
  <2> QED  BY <1>6, <2>1, AfterEnableFits
<1>7. CASE i.kind \notin {"start", "checkpoint", "boundary", "recovery", "held", "enable"}
  <2>1. AfterFrame(a, i, ok, live) = a
    BY <1>7 DEF AfterFrame
  <2> QED  BY <2>1
<1> QED  BY <1>2, <1>3, <1>4, <1>5, <1>6, <1>7

LEMMA FrameSettlesFits ==
    ASSUME Fit(au, browsers), FrameSettles
    PROVE  Fit(au', browsers')
<1> DEFINE i == Head(au.chain)
<1> DEFINE live == browsers.attached
<1> DEFINE refused == au.lost \intersect live # {}
<1> DEFINE unheard == Receivers(au, i, live) = {}
                      /\ ~(i.kind \in OutputKinds /\ au.mode \in {"legacy", "server"})
<1> DEFINE ok == ~refused /\ ~unheard
<1> DEFINE b == [au EXCEPT !.chain = Tail(@), !.sending = FALSE, !.lost = {}]
<1> DEFINE told == IF refused THEN Schedule(b) ELSE b
<1> DEFINE current == FrameIsCurrent(told, i)
<1> DEFINE x == IF ~ok /\ current THEN RequestRecovery(told) ELSE told
<1>1. /\ au' = AfterFrame(x, i, current /\ ok, live)
      /\ browsers' = IF i.kind = "enable" /\ ok THEN Repainted(browsers, au.applied)
                     ELSE browsers
  BY DEF FrameSettles
<1>2. /\ DOMAIN au = Fields /\ live \in SUBSET Views /\ BrowsersTyped(browsers)
      /\ au.applied \in Nat /\ au.chain # <<>>
  BY DEF Fit, Sound, Typed, BrowsersTyped, FrameSettles, Orderly
<1>3. /\ Keeps(b, au, Free \cup {"chain", "sending", "lost"})
      /\ b.chain = Tail(au.chain) /\ ~b.sending /\ b.lost = {}
  BY <1>2 DEF Keeps, Fields, Free
<1> HIDE DEF b
<1>4. /\ Fit(b, browsers) /\ i \in Frame
      /\ i.kind = "enable" => ~b.leases
      /\ i.kind \in {"recovery", "held"} /\ ~LateReceipts =>
           /\ b.mode # "server"
           /\ b.mode = "promoting" =>
                 IF i.epoch = b.epoch
                 THEN b.leases /\ \A k \in 1 .. Len(b.chain) : ~Releases(b.chain, k)
                 ELSE ~b.leases
  BY <1>2, <1>3, PopFit
<1>5. Step(told, b)
  <2>1. Sound(b)
    BY <1>4 DEF Fit
  <2> HIDE DEF refused
  <2> QED  BY <2>1, ScheduleStep, NoStep
<1>6. Fit(x, browsers)
  <2> HIDE DEF told, ok, current
  <2>1. Sound(b)
    BY <1>4 DEF Fit
  <2>2. Step(x, b)
    BY <1>5, <2>1, RecoveryStep, StepFrom DEF Step
  <2> HIDE DEF x
  <2> QED  BY <1>4, <2>2, YieldsFit
<1>7. current \in BOOLEAN /\ (current /\ ok) \in BOOLEAN
  <2>1. current \in BOOLEAN
    BY DEF FrameIsCurrent, RollbackIsCurrent
  <2> HIDE DEF ok, current
  <2> QED  BY <2>1
<1>8. ASSUME current, ok
      PROVE  x = b /\ (i.kind = "checkpoint" => b.rollback.epoch # 0)
  <2>1. x = b /\ told = b
    BY <1>8
  <2>2. i.kind = "checkpoint" => b.rollback.epoch = i.epoch /\ i.epoch # 0
    <3>1. ASSUME i.kind = "checkpoint" PROVE b.rollback.epoch = i.epoch /\ i.epoch # 0
      <4>1. FrameIsCurrent(b, i)
        BY <1>8, <2>1
      <4>2. i.epoch # 0
        <5> HIDE DEF i
        <5> QED  BY <1>4, <3>1 DEF Frame, Transfer
      <4> QED  BY <3>1, <4>1, <4>2 DEF FrameIsCurrent, RollbackIsCurrent
    <3> QED  BY <3>1
  <2> QED  BY <2>1, <2>2
<1>9. Fit(au', browsers)
  <2> HIDE DEF i, live, ok, x, current
  <2> DEFINE went == current /\ ok
  <2>1. /\ went \in BOOLEAN
        /\ went => x = b /\ (i.kind = "checkpoint" => b.rollback.epoch # 0)
    BY <1>7, <1>8
  <2> HIDE DEF went
  <2>2. Fit(AfterFrame(x, i, went, live), browsers)
    BY <1>2, <1>4, <1>6, <2>1, AfterFrameFits
  <2> QED  BY <1>1, <2>2 DEF went
<1>10. Fit(au', Repainted(browsers, au.applied))
  <2> DEFINE cr == Repainted(browsers, au.applied)
  <2>1. /\ BrowsersTyped(cr) /\ cr.attached = browsers.attached
        /\ cr.answering = browsers.answering /\ cr.disabled = browsers.disabled
    BY <1>2 DEF Repainted, BrowsersTyped, BrowserFields
  <2> HIDE DEF cr
  <2>2. Fit(au', cr)
    BY <1>9, <2>1, BrowsersFit
  <2> QED  BY <2>2 DEF cr
<1> QED
  <2> HIDE DEF i, ok
  <2> QED  BY <1>1, <1>9, <1>10

LEMMA DropFrameFits ==
    ASSUME Fit(au, browsers), DropFrame
    PROVE  Fit(au', browsers')
<1> DEFINE i == Head(au.chain)
<1> DEFINE b == [au EXCEPT !.chain = Tail(@)]
<1>1. /\ au' = AfterFrame(b, i, FALSE, browsers.attached) /\ browsers' = browsers
      /\ au.chain # <<>> /\ ~au.sending
  BY DEF DropFrame
<1>2. /\ DOMAIN au = Fields /\ browsers.attached \in SUBSET Views
      /\ au.lost \in SUBSET Views
  BY DEF Fit, Sound, Typed, BrowsersTyped
<1>3. /\ Keeps(b, au, Free \cup {"chain", "sending", "lost"})
      /\ b.chain = Tail(au.chain) /\ ~b.sending /\ b.lost \in SUBSET Views
  BY <1>1, <1>2 DEF Keeps, Fields, Free
<1> HIDE DEF b
<1>4. Fit(b, browsers) /\ i \in Frame
  BY <1>1, <1>3, PopFit
<1> HIDE DEF i
<1>5. Fit(AfterFrame(b, i, FALSE, browsers.attached), browsers)
  BY <1>2, <1>4, AfterFrameFits
<1> QED  BY <1>1, <1>5

LEMMA SendFrameFits ==
    ASSUME Fit(au, browsers), NEW missed, SendFrame(missed)
    PROVE  Fit(au', browsers')
<1> DEFINE i == Head(au.chain)
<1> DEFINE to == Receivers(au, i, browsers.attached) \intersect browsers.attached
<1>1. /\ au.chain # <<>> /\ ~au.sending /\ FrameIsCurrent(au, i)
      /\ missed \subseteq to
      /\ browsers' = Received(browsers, i, to \ missed)
      /\ au' = [(IF missed = {} THEN au ELSE Troubled(au)) EXCEPT
                     !.sending = TRUE, !.lost = missed,
                     !.targets = IF i.kind = "boundary" THEN au.views ELSE @]
  BY DEF SendFrame
<1>2. /\ DOMAIN au = Fields /\ browsers.attached \in SUBSET Views
      /\ au.views \in SUBSET Views /\ au.targets \in SUBSET Views
  BY DEF Fit, Sound, Typed, BrowsersTyped
<1>3. to \ missed \in SUBSET browsers.attached /\ missed \in SUBSET Views
  BY <1>1, <1>2
<1> HIDE DEF i, to
<1>4. /\ Keeps(au', au, Free \cup {"sending", "lost", "targets"}) /\ au'.sending
      /\ au'.lost = missed /\ au'.targets \in {au.views, au.targets}
  BY <1>1, <1>2 DEF Troubled, Keeps, Fields, Free
<1>5. Fit(au', Received(browsers, i, to \ missed))
  <2> DEFINE b == au'
  <2> DEFINE views == to \ missed
  <2>1. /\ views \in SUBSET browsers.attached
        /\ Keeps(b, au, Free \cup {"sending", "lost", "targets"}) /\ b.sending
        /\ b.lost \in SUBSET Views /\ b.targets \in SUBSET Views
    BY <1>2, <1>3, <1>4
  <2> HIDE DEF b, views
  <2>2. Fit(b, Received(browsers, i, views))
    BY <1>1, <2>1, SendFit DEF i
  <2> QED  BY <2>2 DEF b, views
<1> QED  BY <1>1, <1>5

-----------------------------------------------------------------------------
(* Outputs, and the way back.                                              *)

LEMMA OutputFits ==
    ASSUME Fit(au, browsers), ApplyOutput \/ EnqueueOutput
    PROVE  Fit(au', browsers')
<1>1. /\ Sound(au) /\ DOMAIN au = Fields /\ browsers' = browsers /\ au.applied \in Nat
      /\ au.chain \in Seq(Frame)
  BY DEF Fit, Sound, Typed, ApplyOutput, EnqueueOutput
<1>2. CASE ApplyOutput
  <2> DEFINE n == au.applied + 1
  <2> DEFINE b == [au EXCEPT !.applied = n]
  <2> DEFINE tailed == au.mode = "rolling-back"
  <2>1. au' = Effect(Delivered(b, n), n, tailed) /\ n \in Nat /\ tailed \in BOOLEAN
    BY <1>1, <1>2 DEF ApplyOutput
  <2>2. /\ Keeps(b, au, Stays) /\ b.rollback = au.rollback /\ b.restarted = au.restarted
        /\ b.held = au.held /\ b.applied = n /\ b.chain = au.chain
    BY <1>1 DEF Keeps, Fields, Stays, Free
  <2> HIDE DEF b, n, tailed
  <2>3. Step(b, au)
    <3>1. Bounded(b)
      BY <1>1, <2>2 DEF Sound, Bounded, Chunks, PendingTail
    <3>2. /\ b.rollback \in Rollback \cup {NoRollback} /\ b.restarted \in Seq(Query)
          /\ b.held \in Seq(Nat) /\ b.applied \in Nat /\ b.chain \in Seq(Frame)
      BY <1>1, <2>1, <2>2 DEF Sound, Typed
    <3>3. Longer(b.chain, au.chain)
      BY <1>1, <2>2, SameChain
    <3> QED  BY <1>1, <2>2, <3>1, <3>2, <3>3, StaysStep
  <2>4. Step(Delivered(b, n), au)
    BY <1>1, <2>1, <2>3, DeliveredStep, StepFrom DEF Step
  <2>5. Step(Effect(Delivered(b, n), n, tailed), au)
    BY <1>1, <2>1, <2>4, EffectStep, StepFrom DEF Step
  <2> QED  BY <1>1, <2>1, <2>5, YieldsFit
<1>3. CASE EnqueueOutput
  <2>1. Keeps(au', au, Free)
    BY <1>1, <1>3 DEF EnqueueOutput, Keeps, Fields, Free
  <2>2. Step(au', au)
    BY <1>1, <2>1, FreeStep
  <2> QED  BY <1>1, <2>2, YieldsFit
<1> QED  BY <1>2, <1>3

LEMMA SayDrainedFits ==
    ASSUME Fit(au, browsers), NEW v \in Views, SayDrained(v)
    PROVE  Fit(au', browsers')
<1> DEFINE d == [epoch |-> browsers.handoff[v], n |-> browsers.seen[v]]
<1>1. /\ BrowsersTyped(browsers) /\ au' = au /\ browsers.handoff[v] # 0
      /\ browsers' = [browsers EXCEPT !.handoff[v] = 0, !.drained[v] = d]
  BY DEF Fit, SayDrained
<1>2. d \in Drain
  BY <1>1 DEF Drain, BrowsersTyped
<1> HIDE DEF d
<1>3. /\ DOMAIN browsers' = BrowserFields /\ browsers'.attached = browsers.attached
      /\ browsers'.answering = browsers.answering /\ browsers'.seen = browsers.seen
      /\ browsers'.disabled = browsers.disabled
      /\ browsers'.handoff = [browsers.handoff EXCEPT ![v] = 0]
      /\ browsers'.drained = [browsers.drained EXCEPT ![v] = d]
  BY <1>1 DEF BrowsersTyped, BrowserFields
<1>4. BrowsersTyped(browsers')
  BY <1>1, <1>2, <1>3 DEF BrowsersTyped
<1> DEFINE cr == browsers'
<1>5. /\ BrowsersTyped(cr) /\ cr.attached = browsers.attached
      /\ cr.answering = browsers.answering /\ cr.disabled = browsers.disabled
  BY <1>3, <1>4
<1> HIDE DEF cr
<1>6. Fit(au, cr)
  BY <1>5, BrowsersFit
<1> QED  BY <1>1, <1>6 DEF cr

LEMMA RefuseScreenFits ==
    ASSUME Fit(au, browsers), NEW v \in Views, RefuseScreen(v)
    PROVE  Fit(au', browsers')
<1> DEFINE live == browsers.attached
<1> DEFINE a == Troubled(au)
<1> DEFINE rolling == a.mode = "rolling-back"
<1> DEFINE again == IF rolling THEN Invalidate(a, FALSE) ELSE a
<1> DEFINE stale == \/ browsers.handoff[v] # a.epoch
                    \/ rolling /\ a.rollback.epoch = 0
<1>1. /\ BrowsersTyped(browsers) /\ Sound(au) /\ DOMAIN au = Fields
      /\ live \in SUBSET Views
      /\ browsers' = [browsers EXCEPT !.handoff[v] = 0]
      /\ au' = IF stale THEN a ELSE RollbackSession(again, FALSE, live).au
  BY DEF Fit, Sound, Typed, BrowsersTyped, RefuseScreen
<1>2. /\ DOMAIN browsers' = BrowserFields /\ browsers'.attached = browsers.attached
      /\ browsers'.answering = browsers.answering /\ browsers'.seen = browsers.seen
      /\ browsers'.disabled = browsers.disabled
      /\ browsers'.handoff = [browsers.handoff EXCEPT ![v] = 0]
      /\ browsers'.drained = browsers.drained
  BY <1>1 DEF BrowsersTyped, BrowserFields
<1>3. BrowsersTyped(browsers')
  BY <1>1, <1>2 DEF BrowsersTyped
<1>4. Fit(au, browsers')
  <2> DEFINE cr == browsers'
  <2>1. /\ BrowsersTyped(cr) /\ cr.attached = browsers.attached
        /\ cr.answering = browsers.answering /\ cr.disabled = browsers.disabled
    BY <1>2, <1>3
  <2> HIDE DEF cr
  <2>2. Fit(au, cr)
    BY <2>1, BrowsersFit
  <2> QED  BY <2>2 DEF cr
<1>5. Keeps(a, au, Free)
  BY <1>1 DEF Troubled, Keeps, Fields, Free
<1> HIDE DEF a, live
<1>6. Step(a, au)
  BY <1>1, <1>5, FreeStep
<1>7. Step(au', au)
  <2>1. CASE stale
    BY <1>1, <1>6, <2>1
  <2>2. CASE ~stale
    <3>1. Step(again, a)
      <4>1. rolling => a.rollback.epoch # 0
        BY <2>2
      <4> QED  BY <1>6, <4>1, InvalidateStep, NoStep DEF Step
    <3> HIDE DEF again
    <3>2. Step(RollbackSession(again, FALSE, live).au, again)
      BY <1>1, <3>1, SessionStep DEF Step
    <3> QED  BY <1>1, <1>6, <2>2, <3>1, <3>2, StepFrom
  <2> QED  BY <2>1, <2>2
<1>8. Fit(au', browsers')
  <2> DEFINE b == au'
  <2> DEFINE cr == browsers'
  <2>1. Fit(au, cr) /\ Step(b, au)
    BY <1>4, <1>7
  <2> HIDE DEF b, cr
  <2>2. Fit(b, cr)
    BY <2>1, YieldsFit
  <2> QED  BY <2>2 DEF b, cr
<1> QED  BY <1>8

LEMMA RunRecoveryFits ==
    ASSUME Fit(au, browsers), RunRecovery
    PROVE  Fit(au', browsers')
<1> DEFINE live == browsers.attached
<1> DEFINE started == [au EXCEPT !.retry.at = "running", !.retry.again = FALSE]
<1> DEFINE r == RollbackSession(started, FALSE, live)
<1> DEFINE b == r.au
<1>1. /\ Sound(au) /\ DOMAIN au = Fields /\ live \in SUBSET Views /\ browsers' = browsers
      /\ au' = IF r.outcome = "begun" THEN [b EXCEPT !.retry.of = b.epoch]
               ELSE RetryEnds(b, r.outcome = "done")
  BY DEF Fit, Sound, Typed, BrowsersTyped, RunRecovery
<1>2. Keeps(started, au, Free)
  BY <1>1 DEF Keeps, Fields, Free
<1> HIDE DEF live, started
<1>3. Step(started, au)
  BY <1>1, <1>2, FreeStep
<1>4. Step(b, au)
  BY <1>1, <1>3, SessionStep, StepFrom DEF Step
<1> DEFINE done == r.outcome = "done"
<1> DEFINE begun == r.outcome = "begun"
<1>5. /\ done \in BOOLEAN
      /\ au' = IF begun THEN [b EXCEPT !.retry.of = b.epoch] ELSE RetryEnds(b, done)
  BY <1>1
<1> HIDE DEF r, b, done, begun
<1>6. Step([b EXCEPT !.retry.of = b.epoch], b)
  <2> DEFINE c == [b EXCEPT !.retry.of = b.epoch]
  <2>1. Keeps(c, b, Free) /\ Sound(b)
    BY <1>4 DEF Step, Sound, Typed, Keeps, Fields, Free
  <2> HIDE DEF c
  <2>2. Step(c, b)
    BY <2>1, FreeStep
  <2> QED  BY <2>2 DEF c
<1>7. Step(RetryEnds(b, done), b)
  BY <1>4, <1>5, RetryStep DEF Step
<1>8. Step(au', au)
  BY <1>1, <1>4, <1>5, <1>6, <1>7, StepFrom
<1> QED  BY <1>1, <1>8, YieldsFit

LEMMA RollBackFits ==
    ASSUME Fit(au, browsers), RollBack
    PROVE  Fit(au', browsers')
<1> DEFINE a == Troubled(au)
<1>1. /\ Sound(au) /\ DOMAIN au = Fields /\ browsers.attached \in SUBSET Views
      /\ browsers' = browsers
      /\ au' = RollbackSession(a, FALSE, browsers.attached).au
  BY DEF Fit, Sound, Typed, BrowsersTyped, RollBack
<1>2. Keeps(a, au, Free)
  BY <1>1 DEF Troubled, Keeps, Fields, Free
<1> HIDE DEF a
<1>3. Step(a, au)
  BY <1>1, <1>2, FreeStep
<1>4. Step(au', au)
  BY <1>1, <1>3, SessionStep, StepFrom DEF Step
<1> QED  BY <1>1, <1>4, YieldsFit

LEMMA TopologyTimerFits ==
    ASSUME Fit(au, browsers), TopologyTimer
    PROVE  Fit(au', browsers')
<1> DEFINE live == browsers.attached
<1> DEFINE a == [au EXCEPT !.timer = FALSE]
<1> DEFINE c == IF a.rollback.epoch # 0 THEN Invalidate(a, TRUE) ELSE a
<1> DEFINE b == [c EXCEPT !.views = live, !.targets = live, !.acks = {}]
<1> DEFINE m == [b EXCEPT !.moved = TRUE]
<1>1. /\ Sound(au) /\ DOMAIN au = Fields /\ live \in SUBSET Views /\ browsers' = browsers
      /\ au' = CASE a.mode # "rolling-back" -> a
                 [] a.mode = "rolling-back" /\ live = {} -> b
                 [] OTHER -> RollbackSession(m, TRUE, live).au
  BY DEF Fit, Sound, Typed, BrowsersTyped, TopologyTimer
<1>2. Keeps(a, au, Free)
  BY <1>1 DEF Keeps, Fields, Free
<1> HIDE DEF a, live
<1>3. Step(a, au)
  BY <1>1, <1>2, FreeStep
<1>4. CASE a.mode # "rolling-back"
  BY <1>1, <1>3, <1>4, YieldsFit
<1>5. CASE a.mode = "rolling-back"
  <2>1. Step(c, a)
    BY <1>3, AgainStep DEF Step
  <2> HIDE DEF c
  <2>2. c.mode = "rolling-back" /\ Sound(c) /\ DOMAIN c = Fields
    BY <1>5, <2>1 DEF Step, Yields, Sound, Typed
  <2>3. /\ Keeps(b, c, Free \cup {"recovering", "mode", "acks", "views", "targets"})
        /\ b.mode = "rolling-back" /\ b.acks = {} /\ b.views = live /\ b.targets = live
    BY <2>2 DEF Keeps, Fields, Free
  <2> HIDE DEF b
  <2>4. Step(b, au)
    <3>1. Step(b, c)
      BY <1>1, <2>2, <2>3, RollingStep
    <3>2. Step(b, a)
      BY <1>3, <2>1, <3>1, StepFrom DEF Step
    <3> QED  BY <1>1, <1>3, <3>2, StepFrom
  <2>5. Keeps(m, b, Free)
    BY <2>4 DEF Step, Sound, Typed, Keeps, Fields, Free
  <2> HIDE DEF m
  <2>6. Step(m, au)
    BY <1>1, <2>4, <2>5, FreeStep, StepFrom DEF Step
  <2>7. Step(RollbackSession(m, TRUE, live).au, au)
    BY <1>1, <2>6, SessionStep, StepFrom DEF Step
  <2> QED  BY <1>1, <1>5, <2>4, <2>7, YieldsFit
<1> QED  BY <1>4, <1>5

LEMMA ViewLeavesFits ==
    ASSUME Fit(au, browsers), NEW v \in Views, ViewLeaves(v)
    PROVE  Fit(au', browsers')
<1> DEFINE live == browsers.attached \ {v}
<1> DEFINE a == Troubled(au)
<1> DEFINE s == [a EXCEPT !.targets = live, !.views = IF live = {} THEN @ ELSE live]
<1>1. /\ BrowsersTyped(browsers) /\ Sound(au) /\ DOMAIN au = Fields
      /\ live \in SUBSET Views
      /\ browsers' = [browsers EXCEPT
              !.attached = live, !.answering = @ \ {v},
              !.disabled[v] = 0, !.handoff[v] = 0, !.drained[v] = NoRollback]
      /\ au' = CASE a.mode = "legacy" -> a
                 [] a.mode = "promoting" -> Aborted(a, live)
                 [] a.mode = "rolling-back" -> Wake(a, live)
                 [] a.mode = "server" -> s
  BY DEF Fit, Sound, Typed, BrowsersTyped, ViewLeaves
<1>2. /\ DOMAIN browsers' = BrowserFields /\ browsers'.attached = live
      /\ browsers'.answering = browsers.answering \ {v}
      /\ browsers'.seen = browsers.seen
      /\ browsers'.disabled = [browsers.disabled EXCEPT ![v] = 0]
      /\ browsers'.handoff = [browsers.handoff EXCEPT ![v] = 0]
      /\ browsers'.drained = [browsers.drained EXCEPT ![v] = NoRollback]
  BY <1>1 DEF BrowsersTyped, BrowserFields
<1>3. BrowsersTyped(browsers')
  BY <1>1, <1>2 DEF BrowsersTyped
<1>4. Fit(au, browsers')
  <2> DEFINE cr == browsers'
  <2>1. /\ BrowsersTyped(cr) /\ cr.attached \subseteq browsers.attached
        /\ cr.answering \subseteq browsers.answering
        /\ \A w \in Views : cr.disabled[w] \in {browsers.disabled[w], 0}
    BY <1>1, <1>2, <1>3 DEF BrowsersTyped
  <2> HIDE DEF cr
  <2>2. Fit(au, cr)
    BY <2>1, BrowsersFit
  <2> QED  BY <2>2 DEF cr
<1>5. Keeps(a, au, Free)
  BY <1>1 DEF Troubled, Keeps, Fields, Free
<1> HIDE DEF a, live
<1>6. Step(a, au) /\ Sound(a) /\ DOMAIN a = Fields /\ a.mode \in Modes
  <2>1. Step(a, au)
    BY <1>1, <1>5, FreeStep
  <2> QED  BY <2>1 DEF Step, Sound, Typed
<1>7. Step(au', a)
  <2>1. CASE a.mode = "legacy"
    BY <1>1, <1>6, <2>1, NoStep
  <2>2. CASE a.mode = "promoting"
    BY <1>1, <1>6, <2>2, AbortedStep
  <2>3. CASE a.mode = "rolling-back"
    BY <1>1, <1>6, <2>3, WakeStep
  <2>4. CASE a.mode = "server"
    <3>1. /\ a.views \in SUBSET Views /\ a.lost \in SUBSET Views
          /\ a.acks \in SUBSET Views
      BY <1>6 DEF Sound, Typed
    <3>2. /\ Keeps(s, a, Free \cup {"commit", "acks", "targets", "views", "lost"})
          /\ s.commit = a.commit /\ s.acks = a.acks /\ s.targets = live
          /\ s.lost = a.lost /\ s.views \in {a.views, live}
      BY <1>6 DEF Keeps, Fields, Free
    <3> HIDE DEF s
    <3>3. Step(s, a)
      BY <1>1, <1>6, <2>4, <3>1, <3>2, LessStep
    <3> QED  BY <1>1, <2>4, <3>3
  <2> QED  BY <1>6, <2>1, <2>2, <2>3, <2>4 DEF Modes
<1>8. Fit(au', browsers')
  <2> DEFINE b == au'
  <2> DEFINE cr == browsers'
  <2>1. Fit(au, cr) /\ Step(a, au) /\ Step(b, a) /\ Sound(au)
    BY <1>1, <1>4, <1>6, <1>7
  <2> HIDE DEF b, cr
  <2>2. Step(b, au)
    BY <2>1, StepFrom
  <2>3. Fit(b, cr)
    BY <2>1, <2>2, YieldsFit
  <2> QED  BY <2>3 DEF b, cr
<1> QED  BY <1>8

LEMMA LockedSet ==
    ASSUME NEW r \in Rollback, NEW drains \in SUBSET Views
    PROVE  LET s == [r EXCEPT !.locked = TRUE, !.drains = drains]
           IN  /\ s \in Rollback /\ s.pending = r.pending /\ s.queries = r.queries
BY DEF Rollback

LEMMA ToldSet ==
    ASSUME NEW r \in Rollback, NEW queries \in Seq(Query)
    PROVE  LET s == [r EXCEPT !.queries = queries]
           IN  /\ s \in Rollback /\ s.pending = r.pending /\ s.queries = queries
BY DEF Rollback

\* What a rollback notes down beside the outputs that wait.
LEMMA NotedStep ==
    ASSUME NEW a, NEW b, Sound(a), Keeps(b, a, Free \cup {"rollback"}),
           a.rollback \in Rollback, b.rollback \in Rollback,
           b.rollback.pending = a.rollback.pending,
           Len(b.rollback.queries) <= MaxHeldChunks
    PROVE  Step(b, a) /\ Sound(b) /\ DOMAIN b = Fields /\ b.rollback.epoch # 0
<1>1. Len(b.rollback.pending) <= Len(a.rollback.pending)
  <2>1. a.rollback.pending \in Seq(Nat)
    BY DEF Rollback
  <2>2. Len(a.rollback.pending) \in Nat
    BY <2>1, LenProperties
  <2> QED  BY <2>2
<1>2. Step(b, a)
  BY <1>1, NoteStep
<1> QED  BY <1>2 DEF Step, Sound, Typed, Rollback

\* The drains that were heard, with or without the one that is taken back.
LEMMA DrainsStep ==
    ASSUME NEW a, NEW b, NEW v, Sound(a), a.rollback \in Rollback,
           Keeps(b, a, Free \cup {"rollback"}),
           b.rollback = [a.rollback EXCEPT !.drains = @ \ {v}]
    PROVE  Step(b, a) /\ Sound(b) /\ b.rollback.epoch # 0
<1> DEFINE drains == a.rollback.drains \ {v}
<1>1. /\ b.rollback = [a.rollback EXCEPT !.drains = drains]
      /\ drains \in SUBSET Views
  BY DEF Rollback
<1> HIDE DEF drains
<1>2. /\ b.rollback \in Rollback /\ b.rollback.pending = a.rollback.pending
      /\ b.rollback.queries = a.rollback.queries
  BY <1>1, DrainsSet
<1>3. Len(a.rollback.queries) <= MaxHeldChunks
  BY DEF Sound, Bounded, Rollback
<1> QED  BY <1>2, <1>3, NotedStep

\* The views have their parsers back, and say so with the last frame of the rollback.
LEMMA EnabledFits ==
    ASSUME NEW a, NEW b, NEW br, NEW f \in Frame, Fit(a, br), f.kind = "enable",
           a.mode = "rolling-back", ~a.leases,
           Keeps(b, a, Free \cup {"admitted", "chain"}), b.chain = Append(a.chain, f)
    PROVE  Fit(b, br)
<1> DEFINE n == Len(a.chain)
<1>1. /\ Typed(a) /\ Bounded(a) /\ a.chain \in Seq(Frame) /\ n \in Nat
      /\ BrowsersTyped(br) /\ f.kind \notin OutputKinds /\ f.kind \notin Transfer
  BY LenProperties DEF Fit, Sound, Typed, OutputKinds, Transfer
<1>2. /\ b.mode = a.mode /\ b.epoch = a.epoch /\ b.opening = a.opening
      /\ b.commit = a.commit /\ b.views = a.views /\ b.targets = a.targets
      /\ b.lost = a.lost /\ b.acks = a.acks /\ b.receipts = a.receipts
      /\ b.rollback = a.rollback /\ b.restarted = a.restarted /\ b.held = a.held
      /\ b.applied = a.applied /\ b.leases = a.leases
      /\ b.sending = a.sending /\ b.recovering = a.recovering /\ DOMAIN b = Fields
  BY DEF Keeps, Fields, Free
<1>3. /\ b.chain \in Seq(Frame) /\ Len(b.chain) = n + 1 /\ b.chain # <<>>
      /\ \A k \in 1 .. n : b.chain[k] = a.chain[k]
      /\ b.chain[n + 1] = f
  BY <1>1, AppendProperties
<1>4. Sound(b)
  <2>1. Typed(b)
    BY <1>1, <1>2, <1>3 DEF Typed
  <2>2. Count(b.chain) = Count(a.chain)
    BY <1>1, CountAppended
  <2>3. Chunks(b) = Chunks(a)
    BY <1>2, <2>2 DEF Chunks, Count, PendingTail
  <2> QED  BY <1>1, <1>2, <2>1, <2>3 DEF Bounded, Sound
<1>5. Past(b, br)
  <2>1. \A x : Begun(x, b) <=> Begun(x, a)
    BY <1>2 DEF Begun
  <2>2. \A k \in 1 .. n + 1 : b.chain[k].kind \in Transfer => Begun(b.chain[k].epoch, b)
    BY <1>1, <1>3, <2>1 DEF Fit, Past
  <2> QED  BY <1>2, <1>3, <2>1, <2>2 DEF Fit, Past
<1>6. Orderly(b) /\ Promoting(b, br) /\ Alone(b, br)
  BY <1>2, <1>3 DEF Fit, Orderly, Promoting, Alone
<1>7. ~LateReceipts => Exact(b, br)
  BY <1>2 DEF Fit, Exact
<1> QED  BY <1>1, <1>2, <1>4, <1>5, <1>6, <1>7 DEF Fit

\* Queries that are handed over.
LEMMA HandedStep ==
    ASSUME NEW a, NEW told, Sound(a), a.rollback \in Rollback,
           Len(a.rollback.queries) <= MaxHeldChunks
    PROVE  LET c == Transferred(a, told)
           IN  /\ Step(c, a) /\ Sound(c) /\ DOMAIN c = Fields /\ c.rollback \in Rollback
               /\ Keeps(c, a, Free \cup {"rollback"})
<1> DEFINE c == Transferred(a, told)
<1> DEFINE queries == Handed(a.rollback.queries, told)
<1>1. /\ Keeps(c, a, Free \cup {"rollback"})
      /\ c.rollback = [a.rollback EXCEPT !.queries = queries]
  <2>1. DOMAIN a = Fields
    BY DEF Sound, Typed
  <2>2. Keeps(c, a, Free \cup {"rollback"})
    BY <2>1 DEF Transferred, Keeps, Fields, Free
  <2>3. "rollback" \in DOMAIN a
    BY <2>1 DEF Fields
  <2>4. c.rollback = [a.rollback EXCEPT !.queries = queries]
    BY <2>3 DEF Transferred
  <2> QED  BY <2>2, <2>4
<1>2. queries \in Seq(Query) /\ Len(queries) = Len(a.rollback.queries)
  <2>1. a.rollback.queries \in Seq(Query)
    BY DEF Rollback
  <2>2. /\ DOMAIN a.rollback.queries = 1 .. Len(a.rollback.queries)
        /\ Len(a.rollback.queries) \in Nat
    BY <2>1, LenProperties
  <2>3. ASSUME NEW k \in 1 .. Len(a.rollback.queries)
        PROVE  [a.rollback.queries[k] EXCEPT !.told = @ \/ k <= told] \in Query
    <3>1. a.rollback.queries[k] \in Query
      BY <2>1, <2>3, ElementOfSeq
    <3> QED  BY <3>1 DEF Query
  <2>4. queries \in [1 .. Len(a.rollback.queries) -> Query]
    BY <2>2, <2>3 DEF Handed
  <2> DEFINE m == Len(a.rollback.queries)
  <2>5. queries \in [1 .. m -> Query] /\ m \in Nat
    BY <2>2, <2>4
  <2> HIDE DEF queries, m
  <2>6. queries \in Seq(Query) /\ Len(queries) = m
    BY <2>5
  <2> QED  BY <2>6 DEF m
<1> HIDE DEF queries, c
<1>3. /\ c.rollback \in Rollback /\ c.rollback.pending = a.rollback.pending
      /\ c.rollback.queries = queries
  BY <1>1, <1>2, ToldSet
<1>4. Len(c.rollback.queries) <= MaxHeldChunks
  BY <1>2, <1>3
<1>5. Step(c, a) /\ Sound(c) /\ DOMAIN c = Fields
  BY <1>1, <1>3, <1>4, NotedStep
<1> QED  BY <1>1, <1>3, <1>5 DEF c

\* What becomes of a drain that fits.
LEMMA DrainHeard ==
    ASSUME NEW v, NEW told, HearDrain(v, told), DrainFits(v, browsers.drained[v]),
           au.rollback \in Rollback
    PROVE  LET d == browsers.drained[v]
               r == au.rollback
               b == [au EXCEPT !.rollback.locked = TRUE, !.rollback.drains = @ \union {v}]
               c == Transferred(b, told)
               enable == [kind |-> "enable", n |-> r.drained, epoch |-> d.epoch, by |-> {v},
                          to |-> r.selected]
               back == [b EXCEPT !.rollback.drains = @ \ {v}]
               failed == [Troubled(c) EXCEPT !.rollback.drains = @ \ {v}]
               done == [c EXCEPT !.ccommit = d.epoch, !.admitted = TRUE,
                                 !.chain = Append(@, enable)]
           IN  /\ told \in 0 .. Len(r.queries)
               /\ \/ au' = b
                  \/ au' = Invalidate(back, FALSE)
                  \/ au' = Invalidate(failed, FALSE)
                  \/ ~au.admitted /\ ~au.leases /\ au' = done
<1> DEFINE d == browsers.drained[v]
<1> DEFINE r == au.rollback
<1> DEFINE b == [au EXCEPT !.rollback.locked = TRUE, !.rollback.drains = @ \union {v}]
<1> DEFINE last == DrainFits(v, d) /\ b.rollback.drains = r.affected
<1> DEFINE rebound == ~au.admitted /\ ~au.leases
<1> DEFINE all == IF last /\ rebound THEN Len(r.queries) ELSE 0
<1> DEFINE c == Transferred(b, told)
<1> DEFINE enable == [kind |-> "enable", n |-> r.drained, epoch |-> d.epoch, by |-> {v},
                      to |-> r.selected]
<1> DEFINE back == [b EXCEPT !.rollback.drains = @ \ {v}]
<1> DEFINE failed == [Troubled(c) EXCEPT !.rollback.drains = @ \ {v}]
<1> DEFINE done == [c EXCEPT !.ccommit = d.epoch, !.admitted = TRUE,
                             !.chain = Append(@, enable)]
<1> DEFINE fits == DrainFits(v, d)
<1> DEFINE few == told < all
<1> DEFINE enough == told = all
<1>1. /\ told \in 0 .. all
      /\ au' = CASE ~fits -> au
                 [] fits /\ ~last -> b
                 [] last /\ ~rebound -> Invalidate(back, FALSE)
                 [] last /\ rebound /\ few -> Invalidate(failed, FALSE)
                 [] last /\ rebound /\ enough -> done
  BY DEF HearDrain
<1>2. Len(r.queries) \in Nat
  BY LenProperties DEF Rollback
<1>3. told \in 0 .. Len(r.queries) /\ (few \/ enough)
  <2>1. all \in Nat /\ all <= Len(r.queries)
    BY <1>2
  <2> HIDE DEF all
  <2> QED  BY <1>1, <1>2, <2>1
<1>4. /\ ~(few /\ enough) /\ fits
      /\ last \in BOOLEAN /\ rebound \in BOOLEAN
  OBVIOUS
<1> HIDE DEF back, failed, done, all, few, enough, fits, last, rebound
<1>5. \/ au' = b
      \/ au' = Invalidate(back, FALSE)
      \/ au' = Invalidate(failed, FALSE)
      \/ rebound /\ au' = done
  <2>1. CASE ~last
    BY <1>1, <1>3, <1>4, <2>1
  <2>2. CASE last /\ ~rebound
    BY <1>1, <1>3, <1>4, <2>2
  <2>3. CASE last /\ rebound /\ few
    BY <1>1, <1>3, <1>4, <2>3
  <2>4. CASE last /\ rebound /\ enough
    BY <1>1, <1>3, <1>4, <2>4
  <2> QED  BY <1>3, <1>4, <2>1, <2>2, <2>3, <2>4
<1> QED  BY <1>3, <1>5 DEF back, failed, done, rebound

LEMMA HearDrainFits ==
    ASSUME Fit(au, browsers), NEW v \in Views, NEW told, HearDrain(v, told)
    PROVE  Fit(au', browsers')
<1> DEFINE d == browsers.drained[v]
<1> DEFINE r == au.rollback
<1> DEFINE b == [au EXCEPT !.rollback.locked = TRUE, !.rollback.drains = @ \union {v}]
<1> DEFINE rebound == ~au.admitted /\ ~au.leases
<1> DEFINE c == Transferred(b, told)
<1> DEFINE enable == [kind |-> "enable", n |-> r.drained, epoch |-> d.epoch, by |-> {v},
                      to |-> r.selected]
<1> DEFINE back == [b EXCEPT !.rollback.drains = @ \ {v}]
<1> DEFINE failed == [Troubled(c) EXCEPT !.rollback.drains = @ \ {v}]
<1> DEFINE done == [c EXCEPT !.ccommit = d.epoch, !.admitted = TRUE,
                             !.chain = Append(@, enable)]
<1>1. /\ d # NoRollback
      /\ browsers' = [browsers EXCEPT !.drained[v] = NoRollback]
      /\ ~DrainFits(v, d) => au' = au
  BY DEF HearDrain
<1>2. /\ BrowsersTyped(browsers) /\ Sound(au) /\ DOMAIN au = Fields
      /\ d \in Drain
  BY <1>1 DEF Fit, Sound, Typed, BrowsersTyped
<1>3. /\ DOMAIN browsers' = BrowserFields /\ browsers'.attached = browsers.attached
      /\ browsers'.answering = browsers.answering /\ browsers'.seen = browsers.seen
      /\ browsers'.disabled = browsers.disabled
      /\ browsers'.handoff = browsers.handoff
      /\ browsers'.drained = [browsers.drained EXCEPT ![v] = NoRollback]
  BY <1>1, <1>2 DEF BrowsersTyped, BrowserFields
<1>4. BrowsersTyped(browsers')
  BY <1>2, <1>3 DEF BrowsersTyped
<1>5. Fit(au, browsers')
  <2> DEFINE cr == browsers'
  <2>1. /\ BrowsersTyped(cr) /\ cr.attached = browsers.attached
        /\ cr.answering = browsers.answering /\ cr.disabled = browsers.disabled
    BY <1>3, <1>4
  <2> HIDE DEF cr
  <2>2. Fit(au, cr)
    BY <2>1, BrowsersFit
  <2> QED  BY <2>2 DEF cr
<1>6. CASE ~DrainFits(v, d)
  BY <1>1, <1>5, <1>6
<1>7. CASE DrainFits(v, d)
  <2>1. /\ au.mode = "rolling-back" /\ r.epoch = d.epoch /\ d.epoch \in Nat \ {0}
        /\ r \in Rollback
    <3>1. d.epoch \in Nat \ {0}
      BY <1>2 DEF Drain
    <3> HIDE DEF d
    <3>2. au.mode = "rolling-back" /\ r.epoch = d.epoch
      BY <1>7 DEF DrainFits
    <3> QED  BY <1>2, <3>1, <3>2, Waiting DEF Sound
  <2>2. Len(r.queries) <= MaxHeldChunks
    BY <1>2, <2>1 DEF Sound, Bounded
  <2>3. \/ au' = b
        \/ au' = Invalidate(back, FALSE)
        \/ au' = Invalidate(failed, FALSE)
        \/ rebound /\ au' = done
    BY <1>7, <2>1, DrainHeard
  <2> HIDE DEF d
  <2>4. /\ Keeps(b, au, Free \cup {"rollback"})
        /\ b.rollback = [r EXCEPT !.locked = TRUE, !.drains = @ \cup {v}]
    BY <1>2 DEF Keeps, Fields, Free
  <2> HIDE DEF b
  <2>5. /\ b.rollback \in Rollback /\ b.rollback.pending = r.pending
        /\ b.rollback.queries = r.queries
    <3> DEFINE drains == r.drains \cup {v}
    <3>1. /\ b.rollback = [r EXCEPT !.locked = TRUE, !.drains = drains]
          /\ drains \in SUBSET Views
      BY <2>1, <2>4 DEF Rollback
    <3> HIDE DEF drains
    <3> QED  BY <2>1, <3>1, LockedSet
  <2>6. Step(b, au) /\ Sound(b) /\ DOMAIN b = Fields /\ b.rollback.epoch # 0
    BY <1>2, <2>1, <2>2, <2>4, <2>5, NotedStep
  <2>7. Step(Invalidate(back, FALSE), au)
    <3>1. /\ Keeps(back, b, Free \cup {"rollback"})
          /\ back.rollback = [b.rollback EXCEPT !.drains = @ \ {v}]
      BY <2>6 DEF Keeps, Fields, Free
    <3> HIDE DEF back
    <3>2. Step(back, b) /\ Sound(back) /\ back.rollback.epoch # 0
      BY <2>5, <2>6, <3>1, DrainsStep
    <3>3. Step(Invalidate(back, FALSE), back)
      BY <3>2, InvalidateStep
    <3> QED  BY <1>2, <2>6, <3>2, <3>3, StepFrom
  <2>8. /\ Step(c, b) /\ Sound(c) /\ DOMAIN c = Fields /\ c.rollback \in Rollback
        /\ Keeps(c, b, Free \cup {"rollback"})
    BY <2>2, <2>5, <2>6, HandedStep
  <2> HIDE DEF c
  <2>9. Step(c, au)
    BY <1>2, <2>6, <2>8, StepFrom
  <2>10. Step(Invalidate(failed, FALSE), au)
    <3>1. /\ Keeps(failed, c, Free \cup {"rollback"})
          /\ failed.rollback = [c.rollback EXCEPT !.drains = @ \ {v}]
      BY <2>8 DEF Troubled, Keeps, Fields, Free
    <3> HIDE DEF failed
    <3>2. Step(failed, c) /\ Sound(failed) /\ failed.rollback.epoch # 0
      BY <2>8, <3>1, DrainsStep
    <3>3. Step(Invalidate(failed, FALSE), failed)
      BY <3>2, InvalidateStep
    <3> QED  BY <1>2, <2>9, <3>2, <3>3, StepFrom
  <2>11. rebound => Fit(done, browsers')
    <3> SUFFICES ASSUME rebound PROVE Fit(done, browsers')
      OBVIOUS
    <3>1. enable \in Frame /\ enable.kind = "enable"
      BY <2>1 DEF Frame, Rollback
    <3>2. Keeps(done, c, Free \cup {"admitted", "chain"}) /\ done.chain = Append(c.chain, enable)
      BY <2>8 DEF Keeps, Fields, Free
    <3>3. c.mode = "rolling-back" /\ ~c.leases
      BY <2>1, <2>4, <2>8 DEF Keeps, Fields, Free
    <3> DEFINE cr == browsers'
    <3>4. Fit(au, cr)
      BY <1>5
    <3> HIDE DEF done, enable, cr
    <3>5. Fit(c, cr)
      BY <2>9, <3>4, YieldsFit
    <3>6. Fit(done, cr)
      BY <3>1, <3>2, <3>3, <3>5, EnabledFits
    <3> QED  BY <3>6 DEF cr
  <2>12. \/ Step(au', au)
         \/ rebound /\ au' = done
    <3> HIDE DEF back, failed, done, rebound
    <3> QED  BY <2>3, <2>6, <2>7, <2>10
  <2>13. CASE Step(au', au)
    <3> DEFINE e == au'
    <3> DEFINE cr == browsers'
    <3>1. Fit(au, cr) /\ Step(e, au)
      BY <1>5, <2>13
    <3> HIDE DEF e, cr
    <3>2. Fit(e, cr)
      BY <3>1, YieldsFit
    <3> QED  BY <3>2 DEF e, cr
  <2> HIDE DEF done, rebound
  <2> QED  BY <2>11, <2>12, <2>13
<1> QED  BY <1>6, <1>7

-----------------------------------------------------------------------------
LEMMA InitFits == AuthorityInit => Fit(au, browsers)
<1> SUFFICES ASSUME AuthorityInit PROVE Fit(au, browsers)
  OBVIOUS
<1>1. /\ DOMAIN au = Fields
      /\ au.mode = "legacy" /\ au.epoch = 0 /\ au.opening = 0 /\ au.commit = 0
      /\ ~au.recovering /\ au.views = {} /\ au.targets = {} /\ au.acks = {}
      /\ au.lost = {} /\ au.receipts = {} /\ ~au.leases /\ au.rollback = NoRollback
      /\ au.restarted = <<>> /\ au.held = <<>> /\ au.applied = 0
      /\ au.chain = <<>> /\ ~au.sending
  BY DEF AuthorityInit, Fields
<1>2. BrowsersTyped(browsers) /\ \A v \in Views : browsers.disabled[v] = 0
  BY DEF AuthorityInit, BrowsersTyped, BrowserFields
<1>3. Typed(au)
  <2>1. <<>> \in Seq(Query) /\ <<>> \in Seq(Nat) /\ <<>> \in Seq(Frame)
    BY EmptySeq
  <2> QED  BY <1>1, <2>1 DEF Typed, Modes
<1>4. Len(au.chain) = 0 /\ Len(au.restarted) = 0 /\ Chunks(au) = 0
  <2>1. OutputFrames(au.chain) = {}
    BY <1>1, EmptySeq DEF OutputFrames
  <2>2. Len(<<>>) = 0
    BY EmptySeq
  <2>3. PendingTail(au) = <<>>
    BY <1>1 DEF PendingTail, NoRollback
  <2>4. Chunks(au) = Cardinality(OutputFrames(au.chain)) + Len(PendingTail(au))
    BY DEF Chunks
  <2>5. Cardinality(OutputFrames(au.chain)) = 0
    BY <2>1, FS_EmptySet
  <2> QED  BY <1>1, <2>2, <2>3, <2>4, <2>5
<1>5. Bounded(au)
  BY <1>1, <1>4, AuthorityAssumption DEF Bounded, NoRollback
<1>6. Past(au, browsers)
  BY <1>1, <1>2, <1>4 DEF Past, Begun
<1>7. Orderly(au) /\ Promoting(au, browsers) /\ Alone(au, browsers) /\ Exact(au, browsers)
  BY <1>1 DEF Orderly, Promoting, Alone, Exact
<1> QED  BY <1>1, <1>2, <1>3, <1>5, <1>6, <1>7 DEF Fit, Sound

\* Every step keeps the invariant.
LEMMA StepFits ==
    ASSUME Fit(au, browsers), [AuthorityNext]_authorityVars
    PROVE  Fit(au', browsers')
<1>1. CASE EnterPromotion
  BY <1>1, EnterFits
<1>2. CASE DropFrame
  BY <1>2, DropFrameFits
<1>3. ASSUME NEW missed, SendFrame(missed) PROVE Fit(au', browsers')
  BY <1>3, SendFrameFits
<1>4. CASE ServerGoesOn
  BY <1>4, OutputFits, FrameSettlesFits, RunRecoveryFits, TopologyTimerFits, ReceiptFits
     DEF ServerGoesOn
<1>5. ASSUME NEW v \in Views, ViewAnswers(v) PROVE Fit(au', browsers')
  BY <1>5, HearDisableFits, SayDrainedFits, HearDrainFits DEF ViewAnswers
<1>6. CASE Trouble
  BY <1>6, OutputFits, StartFits, DeadlineFits, RollBackFits, RefuseScreenFits,
     ViewLeavesFits, ReceiptFits DEF Trouble
<1>7. CASE UNCHANGED authorityVars
  BY <1>7 DEF authorityVars
<1> QED  BY <1>1, <1>2, <1>3, <1>4, <1>5, <1>6, <1>7 DEF AuthorityNext

\* However promotions, rollbacks, recoveries, outputs, timeouts and views that come and go
\* overlap, what decides who answers a terminal's queries keeps its types and bounds and
\* stays consistent with what the browsers' parsers do.
THEOREM AlwaysFit == AuthoritySpec => []Fit(au, browsers)
<1>1. AuthorityInit => Fit(au, browsers)
  BY InitFits
<1>2. Fit(au, browsers) /\ [AuthorityNext]_authorityVars => Fit(au, browsers)'
  BY StepFits
<1> QED  BY <1>1, <1>2, PTL DEF AuthoritySpec

\* MIG-BGSTAB-002 AC-2: the server has its leases only while no browser is admitted and no
\* attached view's parser answers, however late the receipt of the acknowledgement that
\* installs them; the browsers' mode never has them.
OneAnswers ==
    /\ AuthorityTypeOK
    /\ au.leases => ~au.admitted /\ browsers.answering \intersect browsers.attached = {}
    /\ au.mode = "legacy" => ~au.leases

THEOREM OneAnswersHolds == AuthoritySpec => []OneAnswers
<1>1. Fit(au, browsers) => OneAnswers
  BY DEF Fit, Alone, Sound, Typed, Bounded, Modes, OneAnswers, AuthorityTypeOK
<1> QED  BY <1>1, AlwaysFit, PTL

\* MIG-BGSTAB-002 AC-2, AC-3: and it has them exactly while it is the authority, when no
\* receipt of an earlier promotion is on its way.
THEOREM OneAuthorityHolds ==
    ASSUME ~LateReceipts
    PROVE  AuthoritySpec => []OneAuthority
<1>1. Fit(au, browsers) => OneAuthority
  BY DEF Fit, Alone, Exact, Sound, Typed, Bounded, Modes, OneAuthority, AuthorityTypeOK
<1> QED  BY <1>1, AlwaysFit, PTL

-----------------------------------------------------------------------------
(* Each query has one answer: the account of those that wait for one.      *)

\* Queries that wait are of outputs up to x, in their order.  Those that were told come
\* first; the others have no answer and are not staged elsewhere.
InLine(q, a, x) ==
    /\ \A k \in 1 .. Len(q) : q[k].n \in 1 .. x
    /\ \A k \in 1 .. Len(q) : ~q[k].told => a.answers[q[k].n] = 0 /\ q[k].n \notin a.effects
    /\ \A j, k \in 1 .. Len(q) : j < k => q[j].n < q[k].n /\ (q[k].told => q[j].told)

\* All outputs but the last d that were applied have had their effect.
Accounted(a, d) ==
    /\ a.owners \in Seq({"legacy", "server", "staged"}) /\ Len(a.owners) <= MaxOutputs
    /\ a.applied \in d .. Len(a.owners) /\ a.since \in 0 .. Len(a.owners)
    /\ a.answers \in [1 .. MaxOutputs -> {0, 1}]
    /\ \A n \in 1 .. MaxOutputs : n > a.applied - d => a.answers[n] = 0
    /\ a.effects \subseteq 1 .. a.applied - d
    /\ \A n \in a.effects : a.answers[n] = 0
    /\ InLine(a.restarted, a, a.applied - d)
    /\ \A k \in 1 .. Len(a.restarted) : ~a.restarted[k].told
    /\ a.rollback.epoch # 0 =>
          a.restarted = <<>> /\ InLine(a.rollback.queries, a, a.applied - d)
    /\ a.mode = "server" =>
          \A n \in 1 .. Len(a.owners) : n > a.since =>
             a.owners[n] = "server" /\ (n <= a.applied - d => a.answers[n] = 1)

\* The fields it is about, but for the rollback and the mode.
Account == {"owners", "applied", "since", "answers", "effects", "restarted"}

LEMMA AccountKept ==
    ASSUME NEW a, NEW b, NEW d, Accounted(a, d), Keeps(b, a, Fields \ Account),
           b.mode = "server" => a.mode = "server",
           b.rollback.epoch # 0 =>
              a.rollback.epoch # 0 /\ b.rollback.queries = a.rollback.queries
    PROVE  Accounted(b, d)
<1>1. /\ b.owners = a.owners /\ b.applied = a.applied /\ b.since = a.since
      /\ b.answers = a.answers /\ b.effects = a.effects /\ b.restarted = a.restarted
  BY DEF Keeps, Fields, Account
<1>2. \A q, x : InLine(q, b, x) <=> InLine(q, a, x)
  BY <1>1 DEF InLine
<1> QED  BY <1>1, <1>2 DEF Accounted

LEMMA ScheduleAccount ==
    ASSUME NEW a, NEW d, DOMAIN a = Fields, Accounted(a, d)
    PROVE  Accounted(Schedule(a), d)
<1>1. /\ Keeps(Schedule(a), a, Fields \ Account) /\ Schedule(a).mode = a.mode
      /\ Schedule(a).rollback = a.rollback
  BY DEF Schedule, Keeps, Fields, Account
<1> QED  BY <1>1, AccountKept

LEMMA RecoveryAccount ==
    ASSUME NEW a, NEW d, DOMAIN a = Fields, Accounted(a, d)
    PROVE  Accounted(RequestRecovery(a), d)
<1>1. CASE a.recovering
  BY <1>1 DEF RequestRecovery
<1>2. CASE ~a.recovering
  <2> DEFINE b == RequestRecovery(a)
  <2>1. Keeps(b, a, Fields \ Account) /\ b.mode = "rolling-back" /\ b.rollback = a.rollback
    BY <1>2 DEF RequestRecovery, Schedule, Keeps, Fields, Account
  <2> HIDE DEF b
  <2>2. Accounted(b, d)
    BY <2>1, AccountKept
  <2> QED  BY <2>2 DEF b
<1> QED  BY <1>1, <1>2

LEMMA FrameAccount ==
    ASSUME NEW a, NEW d, DOMAIN a = Fields, Accounted(a, d), NEW kind, NEW n, NEW epoch, NEW by
    PROVE  Accounted(QueueFrame(a, kind, n, epoch, by), d)
<1> DEFINE b == QueueFrame(a, kind, n, epoch, by)
<1>1. Keeps(b, a, Fields \ Account) /\ b.mode = a.mode /\ b.rollback = a.rollback
  BY DEF QueueFrame, Keeps, Fields, Account
<1> HIDE DEF b
<1>2. Accounted(b, d)
  BY <1>1, AccountKept
<1> QED  BY <1>2 DEF b

LEMMA QueueOutputAccount ==
    ASSUME NEW a, NEW d, DOMAIN a = Fields, Accounted(a, d), NEW kind, NEW n, NEW epoch
    PROVE  Accounted(QueueOutput(a, kind, n, epoch), d)
BY RecoveryAccount, FrameAccount DEF QueueOutput

LEMMA QueueTailsAccount ==
    ASSUME NEW a, NEW d, DOMAIN a = Fields, Accounted(a, d), NEW outputs, NEW epoch
    PROVE  Accounted(QueueTails(a, outputs, epoch), d)
<1> DEFINE room == MaxHeldChunks - Chunks(a)
<1> DEFINE fit == IF Len(outputs) < room THEN Len(outputs) ELSE room
<1> DEFINE tails == [k \in 1 .. fit |->
                        [kind |-> "tail", n |-> outputs[k], epoch |-> epoch, by |-> {}]]
<1> DEFINE b == [a EXCEPT !.chain = @ \o tails]
<1>1. /\ Keeps(b, a, Fields \ Account) /\ b.mode = a.mode /\ b.rollback = a.rollback
      /\ DOMAIN b = Fields
  BY DEF Keeps, Fields, Account
<1> HIDE DEF b
<1>2. Accounted(b, d) /\ Accounted(RequestRecovery(b), d)
  BY <1>1, AccountKept, RecoveryAccount
<1> QED  BY <1>2 DEF QueueTails, b, tails, fit, room

\* Queries that were told come first: as many as there are.
LEMMA ToldFirst ==
    ASSUME NEW q \in Seq(Query), NEW a, NEW x, InLine(q, a, x)
    PROVE  LET c == Cardinality({k \in DOMAIN q : q[k].told})
           IN  c \in Nat /\ c <= Len(q) /\ \A k \in 1 .. Len(q) : q[k].told <=> k <= c
<1> DEFINE told == {k \in DOMAIN q : q[k].told}
<1> DEFINE c == Cardinality(told)
<1>1. Len(q) \in Nat /\ DOMAIN q = 1 .. Len(q)
  BY LenProperties
<1>2. \A n \in Nat : IsFiniteSet(1 .. n) /\ Cardinality(1 .. n) = n
  BY FS_Interval
<1>3. told \subseteq 1 .. Len(q)
  BY <1>1
<1>4. IsFiniteSet(told) /\ c \in Nat /\ c <= Len(q)
  BY <1>1, <1>2, <1>3, FS_Subset, FS_CardinalityType
<1>5. ASSUME NEW k \in 1 .. Len(q), q[k].told
      PROVE  k <= c
  <2>1. 1 .. k \subseteq told
    BY <1>1, <1>5 DEF InLine
  <2>2. Cardinality(1 .. k) <= c
    BY <1>4, <2>1, FS_Subset
  <2> QED  BY <1>2, <2>2
<1>6. ASSUME NEW k \in 1 .. Len(q), ~q[k].told
      PROVE  ~(k <= c)
  <2>1. told \subseteq 1 .. k - 1
    <3> SUFFICES ASSUME NEW j \in told PROVE j \in 1 .. k - 1
      OBVIOUS
    <3>1. j \in 1 .. Len(q) /\ q[j].told
      BY <1>3
    <3>2. ~(k < j)
      BY <1>6, <3>1 DEF InLine
    <3> QED  BY <1>6, <3>1, <3>2
  <2>2. c <= Cardinality(1 .. k - 1)
    BY <1>2, <2>1, FS_Subset
  <2> QED  BY <1>2, <1>4, <2>2
<1> QED  BY <1>4, <1>5, <1>6

\* What is left of a line without its first m queries, up to l of them, is in line.
LEMMA LineCut ==
    ASSUME NEW q \in Seq(Query), NEW a, NEW x, InLine(q, a, x), NEW p \in Seq(Query),
           NEW m \in Nat, Len(p) + m <= Len(q), \A k \in 1 .. Len(p) : p[k] = q[m + k]
    PROVE  InLine(p, a, x)
<1>1. Len(q) \in Nat /\ Len(p) \in Nat
  BY LenProperties
<1>2. \A k \in 1 .. Len(p) : m + k \in 1 .. Len(q)
  BY <1>1
<1>3. \A j, k \in 1 .. Len(p) : j < k => m + j < m + k
  BY <1>1
<1>4. \A k \in 1 .. Len(p) : p[k].n \in 1 .. x
  BY <1>2 DEF InLine
<1>5. \A k \in 1 .. Len(p) : ~p[k].told => a.answers[p[k].n] = 0 /\ p[k].n \notin a.effects
  BY <1>2 DEF InLine
<1>6. ASSUME NEW j \in 1 .. Len(p), NEW k \in 1 .. Len(p), j < k
      PROVE  p[j].n < p[k].n /\ (p[k].told => p[j].told)
  BY <1>2, <1>3, <1>6 DEF InLine
<1> QED  BY <1>4, <1>5, <1>6 DEF InLine

LEMMA InvalidateAccount ==
    ASSUME NEW a, NEW d, Sound(a), a.rollback.epoch # 0, Accounted(a, d),
           NEW quiet \in BOOLEAN
    PROVE  Accounted(Invalidate(a, quiet), d)
<1> DEFINE queries == a.rollback.queries
<1> DEFINE told == {k \in DOMAIN queries : queries[k].told}
<1> DEFINE c == Cardinality(told)
<1> DEFINE untold == SubSeq(queries, c + 1, Len(queries))
<1> DEFINE room == MaxHeldChunks - Len(a.restarted)
<1> DEFINE last == IF Len(untold) < room THEN Len(untold) ELSE room
<1> DEFINE kept == SubSeq(untold, 1, last)
<1> DEFINE b == [a EXCEPT !.restarted = @ \o kept, !.rollback = NoRollback,
                       !.rbegin = 0, !.ccommit = 0,
                       !.recovering = TRUE, !.mode = "rolling-back"]
<1>1. Typed(a) /\ Bounded(a) /\ DOMAIN a = Fields
  BY DEF Sound, Typed
<1>2. /\ queries \in Seq(Query) /\ Len(queries) \in Nat /\ a.restarted = <<>>
      /\ InLine(queries, a, a.applied - d)
  <2>1. a.rollback \in Rollback
    BY <1>1, Waiting
  <2> QED  BY <2>1, LenProperties DEF Rollback, Accounted
<1>3. c \in Nat /\ c <= Len(queries) /\ \A k \in 1 .. Len(queries) : queries[k].told <=> k <= c
  BY <1>2, ToldFirst
<1> HIDE DEF told, c
<1>4. /\ untold \in Seq(Query) /\ Len(untold) = Len(queries) - c
      /\ \A k \in 1 .. Len(untold) : untold[k] = queries[c + k]
  <2>1. \A i \in c + 1 .. Len(queries) : queries[i] \in Query
    BY <1>2, <1>3, ElementOfSeq
  <2>2. /\ untold \in Seq(Query)
        /\ Len(untold) = IF c + 1 <= Len(queries) THEN Len(queries) - (c + 1) + 1 ELSE 0
        /\ \A i \in 1 .. Len(queries) - (c + 1) + 1 : untold[i] = queries[(c + 1) + i - 1]
    BY <1>2, <1>3, <2>1, SubSeqProperties
  <2>3. Len(untold) = Len(queries) - c
    BY <1>2, <1>3, <2>2
  <2>4. \A i \in 1 .. Len(untold) : (c + 1) + i - 1 = c + i /\ i \in 1 .. Len(queries) - (c + 1) + 1
    BY <1>2, <1>3, <2>3
  <2> QED  BY <2>2, <2>3, <2>4
<1> HIDE DEF untold
<1>5. last \in Nat /\ last <= Len(untold)
  BY <1>1, <1>2, <1>3, <1>4, LenProperties, EmptySeq, AuthorityAssumption DEF Bounded
<1> HIDE DEF last
<1>6. kept \in Seq(Query) /\ Len(kept) = last /\ \A k \in 1 .. last : kept[k] = untold[k]
  <2>1. Len(untold) \in Nat
    BY <1>4, LenProperties
  <2>2. \A i \in 1 .. last : untold[i] \in Query
    BY <1>4, <1>5, <2>1, ElementOfSeq
  <2>3. /\ kept \in Seq(Query) /\ Len(kept) = IF 1 <= last THEN last - 1 + 1 ELSE 0
        /\ \A i \in 1 .. last - 1 + 1 : kept[i] = untold[1 + i - 1]
    BY <1>4, <1>5, <2>1, <2>2, SubSeqProperties
  <2>4. \A i \in 1 .. last : 1 + i - 1 = i /\ last - 1 + 1 = last
    BY <1>5
  <2> QED  BY <1>5, <2>3, <2>4
<1> HIDE DEF kept
<1>7. InLine(kept, a, a.applied - d)
  <2>1. Len(kept) + c <= Len(queries)
    BY <1>2, <1>3, <1>4, <1>5, <1>6
  <2>2. \A k \in 1 .. Len(kept) : kept[k] = queries[c + k]
    <3> SUFFICES ASSUME NEW k \in 1 .. Len(kept) PROVE kept[k] = queries[c + k]
      OBVIOUS
    <3>1. k \in 1 .. last /\ k \in 1 .. Len(untold)
      BY <1>2, <1>3, <1>4, <1>5, <1>6
    <3> QED  BY <1>4, <1>6, <3>1
  <2> HIDE DEF queries
  <2> QED  BY <1>2, <1>3, <1>6, <2>1, <2>2, LineCut
<1>8. \A k \in 1 .. Len(kept) : ~kept[k].told
  <2> SUFFICES ASSUME NEW k \in 1 .. Len(kept) PROVE ~kept[k].told
    OBVIOUS
  <2>1. k \in 1 .. last /\ k \in 1 .. Len(untold) /\ c + k \in 1 .. Len(queries) /\ ~(c + k <= c)
    BY <1>2, <1>3, <1>4, <1>5, <1>6
  <2> QED  BY <1>3, <1>4, <1>6, <2>1
<1>9. a.restarted \o kept = kept
  BY <1>2, <1>6, ConcatEmptySeq
<1>10. /\ b.owners = a.owners /\ b.applied = a.applied /\ b.since = a.since
       /\ b.answers = a.answers /\ b.effects = a.effects /\ b.restarted = kept
       /\ b.rollback = NoRollback /\ b.mode = "rolling-back" /\ DOMAIN b = Fields
  BY <1>1, <1>9 DEF Fields
<1> HIDE DEF b
<1>11. Accounted(b, d)
  <2>1. InLine(kept, b, a.applied - d)
    BY <1>7, <1>10 DEF InLine
  <2>2. b.rollback.epoch = 0
    BY <1>10 DEF NoRollback
  <2> QED  BY <1>8, <1>10, <2>1, <2>2 DEF Accounted
<1>12. Accounted(Schedule(b), d)
  BY <1>10, <1>11, ScheduleAccount
<1>13. Invalidate(a, quiet) = IF quiet THEN b ELSE Schedule(b)
  BY DEF Invalidate, queries, told, c, untold, room, last, kept, b
<1> QED  BY <1>11, <1>12, <1>13

-----------------------------------------------------------------------------
(* What keeps the account.                                                 *)

Good(a, d) == Sound(a) /\ Accounted(a, d)

LEMMA GoodFields == ASSUME NEW a, NEW d, Good(a, d) PROVE DOMAIN a = Fields
BY DEF Good, Sound, Typed

LEMMA GoodKept ==
    ASSUME NEW a, NEW b, NEW d, Good(a, d), Step(b, a), Keeps(b, a, Fields \ Account),
           b.rollback.epoch # 0 =>
              a.rollback.epoch # 0 /\ b.rollback.queries = a.rollback.queries
    PROVE  Good(b, d)
<1>1. b.mode = "server" => a.mode = "server"
  BY DEF Step, Yields
<1> QED  BY <1>1, AccountKept DEF Good, Step

LEMMA ScheduleGood == ASSUME NEW a, NEW d, Good(a, d) PROVE Good(Schedule(a), d)
BY GoodFields, ScheduleStep, ScheduleAccount DEF Good, Step

LEMMA RecoveryGood == ASSUME NEW a, NEW d, Good(a, d) PROVE Good(RequestRecovery(a), d)
BY GoodFields, RecoveryStep, RecoveryAccount DEF Good, Step

LEMMA InvalidateGood ==
    ASSUME NEW a, NEW d, Good(a, d), a.rollback.epoch # 0, NEW quiet \in BOOLEAN
    PROVE  Good(Invalidate(a, quiet), d)
BY InvalidateStep, InvalidateAccount DEF Good, Step

\* The rollback is given up for a fresh one, if there is one.
LEMMA AgainGood ==
    ASSUME NEW a, NEW d, Good(a, d), NEW quiet \in BOOLEAN
    PROVE  Good(IF a.rollback.epoch # 0 THEN Invalidate(a, quiet) ELSE a, d)
BY InvalidateGood

\* A rollback that begins takes over the queries that wait.
LEMMA BeginRollbackGood ==
    ASSUME NEW a, NEW d, Good(a, d), NEW selected \in Views
    PROVE  Good(BeginRollback(a, selected), d)
<1> DEFINE b == BeginRollback(a, selected)
<1>1. DOMAIN a = Fields /\ Step(b, a)
  BY GoodFields, BeginRollbackStep DEF Good
<1>2. /\ b.owners = a.owners /\ b.applied = a.applied /\ b.since = a.since
      /\ b.answers = a.answers /\ b.effects = a.effects /\ b.mode = "rolling-back"
  BY <1>1 DEF BeginRollback, QueueFrame, Fields
<1>3. b.restarted = <<>> /\ b.rollback.queries = a.restarted
  BY <1>1 DEF BeginRollback, QueueFrame, Fields
<1> HIDE DEF b
<1>4. InLine(b.rollback.queries, b, b.applied - d)
  BY <1>2, <1>3 DEF Good, Accounted, InLine
<1>5. InLine(b.restarted, b, b.applied - d) /\ Len(b.restarted) = 0
  BY <1>3, EmptySeq DEF InLine
<1>6. Accounted(b, d)
  BY <1>2, <1>3, <1>4, <1>5 DEF Good, Accounted
<1> QED  BY <1>1, <1>6 DEF Good, Step, b

LEMMA PreparedGood ==
    ASSUME NEW a, NEW d, Good(a, d), NEW live \in SUBSET Views
    PROVE  Good(Prepared(a, live), d)
<1>1. Step(Prepared(a, live), a)
  BY PreparedStep DEF Good
<1>2. CASE a.mode = "rolling-back"
  <2> DEFINE c == IF a.rollback.epoch # 0 THEN Invalidate(a, TRUE) ELSE a
  <2> DEFINE b == [c EXCEPT !.views = live, !.targets = live, !.acks = {}]
  <2>1. Good(c, d) /\ DOMAIN c = Fields
    BY AgainGood, GoodFields
  <2> HIDE DEF c
  <2>2. Keeps(b, c, Fields \ Account) /\ b.mode = c.mode /\ b.rollback = c.rollback
    BY <2>1 DEF Keeps, Fields, Account
  <2>3. Prepared(a, live) = b
    BY <1>2 DEF Prepared, c
  <2> HIDE DEF b
  <2>4. Accounted(b, d)
    BY <2>1, <2>2, AccountKept DEF Good
  <2> QED  BY <1>1, <2>3, <2>4 DEF Good, Step
<1>3. CASE a.mode # "rolling-back"
  <2> DEFINE b == Prepared(a, live)
  <2>1. Keeps(b, a, Fields \ Account) /\ b.rollback = a.rollback
    BY <1>3, GoodFields DEF Prepared, Keeps, Fields, Account
  <2> HIDE DEF b
  <2>2. Good(b, d)
    BY <1>1, <2>1, GoodKept DEF b
  <2> QED  BY <2>2 DEF b
<1> QED  BY <1>2, <1>3

LEMMA SessionGood ==
    ASSUME NEW a, NEW d, Good(a, d), NEW prepared \in BOOLEAN, NEW live \in SUBSET Views
    PROVE  Good(RollbackSession(a, prepared, live).au, d)
<1> DEFINE b == IF prepared THEN a ELSE Prepared(a, live)
<1> DEFINE selected == CHOOSE v \in b.targets : TRUE
<1>1. Good(b, d)
  BY PreparedGood
<1> HIDE DEF b
<1>2. CASE a.mode # "legacy" /\ b.targets # {} /\ MayBegin(b) /\ selected \in b.views
  <2>1. selected \in Views
    BY <1>1, <1>2 DEF Good, Sound, Typed
  <2> HIDE DEF selected
  <2>2. Good(BeginRollback(b, selected), d)
    BY <1>1, <2>1, BeginRollbackGood
  <2>3. RollbackSession(a, prepared, live).au = BeginRollback(b, selected)
    BY <1>2 DEF RollbackSession, b, selected
  <2> QED  BY <2>2, <2>3
<1>3. CASE ~(a.mode # "legacy" /\ b.targets # {} /\ MayBegin(b) /\ selected \in b.views)
  <2>1. RollbackSession(a, prepared, live).au \in {a, b}
    BY <1>3 DEF RollbackSession, b
  <2> QED  BY <1>1, <2>1
<1> QED  BY <1>2, <1>3

LEMMA ResumeGood ==
    ASSUME NEW a, NEW d, Good(a, d), NEW live \in SUBSET Views
    PROVE  Good(ResumeRollback(a, live), d)
BY SessionGood DEF ResumeRollback

LEMMA RetryAccount ==
    ASSUME NEW a, NEW d, DOMAIN a = Fields, Accounted(a, d), NEW ok
    PROVE  Accounted(RetryEnds(a, ok), d)
<1> DEFINE b == RetryEnds(a, ok)
<1>1. Keeps(b, a, Fields \ Account) /\ b.rollback = a.rollback /\ b.mode = a.mode
  BY DEF RetryEnds, Keeps, Fields, Account
<1> HIDE DEF b
<1>2. Accounted(b, d)
  BY <1>1, AccountKept
<1> QED  BY <1>2 DEF b

LEMMA BeginEndsAccount ==
    ASSUME NEW a, NEW d, DOMAIN a = Fields, Accounted(a, d), NEW e, NEW ok
    PROVE  Accounted(BeginEnds(a, e, ok), d)
<1> DEFINE b == IF ok THEN [a EXCEPT !.deadline = FALSE] ELSE a
<1>1. /\ Keeps(b, a, Fields \ Account) /\ b.rollback = a.rollback /\ b.mode = a.mode
      /\ DOMAIN b = Fields
  BY DEF Keeps, Fields, Account
<1> HIDE DEF b
<1>2. Accounted(b, d)
  BY <1>1, AccountKept
<1> QED  BY <1>1, <1>2, RetryAccount DEF BeginEnds, b

LEMMA CommitEndsGood ==
    ASSUME NEW a, NEW d, Good(a, d), NEW e, NEW by, NEW live \in SUBSET Views
    PROVE  Good(CommitEnds(a, e, by, live), d)
<1> DEFINE b == [a EXCEPT !.commit = IF @ = e THEN 0 ELSE @, !.acks = @ \ by]
<1>1. a.views \in SUBSET Views /\ a.lost \in SUBSET Views /\ DOMAIN a = Fields
      /\ a.targets \in SUBSET Views
  BY DEF Good, Sound, Typed
<1>2. /\ Keeps(b, a, Free \cup {"commit", "acks", "targets", "views", "lost"})
      /\ b.commit = a.commit \/ b.commit = 0
      /\ b.acks \subseteq a.acks /\ b.targets = a.targets /\ b.views = a.views
      /\ b.lost = a.lost
  BY <1>1 DEF Keeps, Fields, Free
<1>3. Keeps(b, a, Fields \ Account) /\ b.rollback = a.rollback
  BY <1>1 DEF Keeps, Fields, Account
<1> HIDE DEF b
<1>4. Step(b, a)
  BY <1>1, <1>2, LessStep DEF Good
<1>5. Good(ResumeRollback(b, live), d)
  BY <1>3, <1>4, GoodKept, ResumeGood
<1> QED  BY <1>5 DEF CommitEnds, b

-----------------------------------------------------------------------------
(* The next query.                                                         *)

LEMMA LineLonger ==
    ASSUME NEW q \in Seq(Query), NEW a, NEW x \in Nat, InLine(q, a, x), NEW e,
           e = [n |-> x + 1, told |-> FALSE], a.answers[x + 1] = 0, x + 1 \notin a.effects
    PROVE  InLine(Append(q, e), a, x + 1)
<1>1. /\ Len(q) \in Nat /\ Len(Append(q, e)) = Len(q) + 1
      /\ \A k \in 1 .. Len(q) : Append(q, e)[k] = q[k]
      /\ Append(q, e)[Len(q) + 1] = e
      /\ e \in Query
  <2>1. e \in Query
    BY DEF Query
  <2> QED  BY <2>1, AppendProperties, LenProperties
<1> DEFINE p == Append(q, e)
<1>2. e.n = x + 1 /\ ~e.told
  OBVIOUS
<1>3. \A k \in 1 .. Len(q) + 1 : k \in 1 .. Len(q) \/ k = Len(q) + 1
  BY <1>1
<1>4. \A k \in 1 .. Len(q) : q[k].n \in 1 .. x
  BY DEF InLine
<1> HIDE DEF p
<1>5. /\ Len(p) = Len(q) + 1 /\ p[Len(q) + 1] = e /\ \A k \in 1 .. Len(q) : p[k] = q[k]
  BY <1>1 DEF p
<1>6. \A k \in 1 .. Len(p) : p[k].n \in 1 .. x + 1
  BY <1>2, <1>3, <1>4, <1>5
<1>7. \A k \in 1 .. Len(p) : ~p[k].told => a.answers[p[k].n] = 0 /\ p[k].n \notin a.effects
  BY <1>2, <1>3, <1>5 DEF InLine
<1>8. ASSUME NEW j \in 1 .. Len(p), NEW k \in 1 .. Len(p), j < k
      PROVE  p[j].n < p[k].n /\ (p[k].told => p[j].told)
  <2>1. j \in 1 .. Len(q)
    BY <1>1, <1>5, <1>8
  <2>2. CASE k \in 1 .. Len(q)
    BY <1>5, <1>8, <2>1, <2>2 DEF InLine
  <2>3. CASE k = Len(q) + 1
    BY <1>2, <1>4, <1>5, <2>1, <2>3
  <2> QED  BY <1>3, <1>5, <2>2, <2>3
<1>9. InLine(p, a, x + 1)
  BY <1>6, <1>7, <1>8 DEF InLine
<1> QED  BY <1>9 DEF p

\* A line of queries is in line too when more outputs have had their effect.
LEMMA LineLater ==
    ASSUME NEW q, NEW a, NEW b, NEW x \in Nat, InLine(q, a, x),
           \A n \in 1 .. x : b.answers[n] = a.answers[n] /\ (n \in b.effects <=> n \in a.effects)
    PROVE  InLine(q, b, x + 1)
<1>1. \A k \in 1 .. Len(q) : q[k].n \in 1 .. x /\ q[k].n \in 1 .. x + 1
  BY DEF InLine
<1> QED  BY <1>1 DEF InLine

LEMMA EffectGood ==
    ASSUME NEW a, Good(a, 1), NEW tailed \in BOOLEAN
    PROVE  Good(Effect(a, a.applied, tailed), 0)
<1> DEFINE n == a.applied
<1> DEFINE x == n - 1
<1> DEFINE b == Effect(a, n, tailed)
<1>1. /\ Sound(a) /\ DOMAIN a = Fields /\ n \in 1 .. Len(a.owners) /\ x \in Nat
      /\ x + 1 = n /\ n \in Nat /\ Len(a.owners) \in Nat /\ n \in 1 .. MaxOutputs
      /\ a.answers \in [1 .. MaxOutputs -> {0, 1}] /\ a.answers[n] = 0
      /\ n \notin a.effects /\ a.effects \subseteq 1 .. x
      /\ a.owners \in Seq({"legacy", "server", "staged"})
  <2>1. a.owners \in Seq({"legacy", "server", "staged"}) /\ MaxOutputs \in Nat
    BY AuthorityAssumption DEF Good, Accounted
  <2>2. Len(a.owners) \in Nat
    BY <2>1, LenProperties
  <2>3. n \in 1 .. Len(a.owners) /\ Len(a.owners) <= MaxOutputs
    BY <2>2 DEF Good, Accounted
  <2>4. n \in Nat /\ x \in Nat /\ x + 1 = n /\ n \in 1 .. MaxOutputs /\ n > n - 1 /\ ~(n <= x)
    BY <2>1, <2>2, <2>3
  <2>5. /\ a.answers \in [1 .. MaxOutputs -> {0, 1}] /\ a.answers[n] = 0
        /\ a.effects \subseteq 1 .. x
    BY <2>4 DEF Good, Accounted
  <2>6. n \notin a.effects
    BY <2>4, <2>5
  <2>7. Sound(a) /\ DOMAIN a = Fields
    BY GoodFields DEF Good
  <2> HIDE DEF n, x
  <2> QED  BY <2>1, <2>2, <2>3, <2>4, <2>5, <2>6, <2>7
<1>2. Step(b, a)
  BY <1>1, EffectStep
<1> DEFINE rolls == a.mode = "rolling-back" /\ a.rollback.epoch # 0 /\ tailed
<1> DEFINE settles == \/ a.owners[n] = "server"
                      \/ a.owners[n] = "staged" /\ a.mode = "rolling-back"
<1>3. CASE settles /\ rolls
  <2>1. a.rollback \in Rollback /\ a.rollback.queries \in Seq(Query)
    BY <1>1, <1>3, Waiting DEF Sound, Rollback
  <2>2. a.restarted = <<>> /\ InLine(a.rollback.queries, a, x)
    BY <1>3 DEF Good, Accounted
  <2>3. CASE Len(a.rollback.queries) >= MaxHeldChunks
    <3> DEFINE c == Invalidate(a, FALSE)
    <3>1. b = c
      BY <1>3, <2>3 DEF Effect, SettleEffect
    <3>2. Good(c, 1)
      BY <1>3, InvalidateGood
    <3>3. c.mode = "rolling-back" /\ c.rollback = NoRollback /\ c.applied = a.applied
      BY <1>1 DEF Invalidate, Schedule, Fields
    <3> HIDE DEF c
    <3>4. Accounted(c, 0)
      <4>1. InLine(c.restarted, c, n)
        BY <1>1, <3>2, <3>3, LineLater DEF Good, Accounted
      <4>2. c.rollback.epoch = 0
        BY <3>3 DEF NoRollback
      <4> QED  BY <1>1, <3>2, <3>3, <4>1, <4>2 DEF Good, Accounted
    <3> QED  BY <3>1, <3>2, <3>4 DEF Good
  <2>4. CASE ~(Len(a.rollback.queries) >= MaxHeldChunks)
    <3> DEFINE e == [n |-> n, told |-> FALSE]
    <3>1. b = [a EXCEPT !.rollback.queries = Append(@, e)]
      BY <1>3, <2>4 DEF Effect, SettleEffect
    <3>2. /\ b.owners = a.owners /\ b.applied = a.applied /\ b.since = a.since
          /\ b.answers = a.answers /\ b.effects = a.effects /\ b.restarted = a.restarted
          /\ b.mode = "rolling-back"
      BY <1>1, <1>3, <3>1 DEF Fields
    <3>3. b.rollback.queries = Append(a.rollback.queries, e)
      BY <1>1, <2>1, <3>1 DEF Fields, Rollback
    <3> HIDE DEF b
    <3>4. InLine(Append(a.rollback.queries, e), a, n)
      BY <1>1, <2>1, <2>2, LineLonger
    <3> HIDE DEF e
    <3>5. InLine(b.rollback.queries, b, n)
      BY <3>2, <3>3, <3>4 DEF InLine
    <3>6. InLine(b.restarted, b, n) /\ Len(b.restarted) = 0
      BY <2>2, <3>2, EmptySeq DEF InLine
    <3>7. Accounted(b, 0)
      BY <1>1, <2>2, <3>2, <3>5, <3>6 DEF Good, Accounted
    <3> QED  BY <1>2, <3>7 DEF Good, Step, b
  <2> QED  BY <2>3, <2>4
<1>4. CASE ~(settles /\ rolls)
  <2> DEFINE answered == settles /\ a.mode = "server"
  <2> DEFINE staged == ~settles /\ a.owners[n] # "legacy"
  <2>1. b = IF answered THEN [a EXCEPT !.answers[n] = @ + 1]
            ELSE IF staged THEN [a EXCEPT !.effects = @ \union {n}] ELSE a
    BY <1>4 DEF Effect, SettleEffect
  <2>2. /\ b.owners = a.owners /\ b.applied = a.applied /\ b.since = a.since
        /\ b.restarted = a.restarted /\ b.rollback = a.rollback /\ b.mode = a.mode
        /\ b.answers = IF answered THEN [a.answers EXCEPT ![n] = 1] ELSE a.answers
        /\ b.effects = IF staged THEN a.effects \cup {n} ELSE a.effects
    BY <1>1, <2>1 DEF Fields
  <2>3. ~(answered /\ staged)
    OBVIOUS
  <2>4. a.mode = "server" /\ n > a.since => answered
    BY <1>1 DEF Good, Accounted
  <2> HIDE DEF b, answered, staged, settles, rolls
  <2>5. \A m \in 1 .. x : b.answers[m] = a.answers[m] /\ (m \in b.effects <=> m \in a.effects)
    BY <1>1, <2>2
  <2>6. /\ InLine(b.restarted, b, n)
        /\ b.rollback.epoch # 0 => InLine(b.rollback.queries, b, n)
    <3>1. /\ InLine(a.restarted, a, x)
          /\ a.rollback.epoch # 0 => InLine(a.rollback.queries, a, x)
      BY DEF Good, Accounted
    <3> HIDE DEF x, n
    <3>2. \A q : InLine(q, a, x) => InLine(q, b, n)
      BY <1>1, <2>5, LineLater
    <3> QED  BY <2>2, <3>1, <3>2
  <2>7. /\ b.answers \in [1 .. MaxOutputs -> {0, 1}]
        /\ \A m \in 1 .. MaxOutputs : m > n => b.answers[m] = 0
        /\ b.effects \subseteq 1 .. n
        /\ \A m \in b.effects : b.answers[m] = 0
    BY <1>1, <2>2, <2>3 DEF Good, Accounted
  <2>8. b.mode = "server" =>
           \A m \in 1 .. Len(b.owners) : m > b.since =>
              b.owners[m] = "server" /\ (m <= n => b.answers[m] = 1)
    <3> SUFFICES ASSUME b.mode = "server", NEW m \in 1 .. Len(b.owners), m > b.since
                 PROVE  b.owners[m] = "server" /\ (m <= n => b.answers[m] = 1)
      OBVIOUS
    <3>1. a.owners[m] = "server" /\ (m <= x => a.answers[m] = 1)
      BY <2>2 DEF Good, Accounted
    <3>2. CASE m = n
      BY <1>1, <2>2, <2>4, <3>1, <3>2
    <3>3. CASE m # n
      BY <1>1, <2>2, <2>4, <3>1, <3>3
    <3> QED  BY <3>2, <3>3
  <2>9. Accounted(b, 0)
    BY <1>1, <2>2, <2>6, <2>7, <2>8 DEF Good, Accounted
  <2> QED  BY <1>2, <2>9 DEF Good, Step, b
<1> QED  BY <1>3, <1>4

LEMMA DeliveredGood ==
    ASSUME NEW a, NEW d, Good(a, d), NEW n \in Nat
    PROVE  Good(Delivered(a, n), d)
<1>1. Sound(a) /\ DOMAIN a = Fields
  BY GoodFields DEF Good
<1>2. Step(Delivered(a, n), a)
  BY <1>1, DeliveredStep
<1>3. CASE a.mode = "promoting"
  <2> DEFINE b == [a EXCEPT !.held = Append(@, n)]
  <2>1. /\ Keeps(b, a, Fields \ Account) /\ b.mode = a.mode /\ b.rollback = a.rollback
        /\ DOMAIN b = Fields
    BY <1>1 DEF Keeps, Fields, Account
  <2>2. Delivered(a, n) \in {b, RequestRecovery(b)}
    BY <1>3 DEF Delivered
  <2> HIDE DEF b
  <2>3. Accounted(b, d) /\ Accounted(RequestRecovery(b), d)
    BY <2>1, AccountKept, RecoveryAccount DEF Good
  <2> QED  BY <1>2, <2>2, <2>3 DEF Good, Step
<1>4. CASE a.mode = "rolling-back" /\ a.rollback.epoch # 0
  <2> DEFINE b == IF a.rollback.locked THEN a
                  ELSE [a EXCEPT !.rollback.drained = n, !.rollback.drains = {}]
  <2> DEFINE c == [b EXCEPT !.rollback.pending = Append(@, n)]
  <2>1. a.rollback \in Rollback
    BY <1>1, <1>4, Waiting DEF Sound
  <2>2. /\ Keeps(b, a, Free \cup {"rollback"}) /\ Keeps(b, a, Fields \ Account)
        /\ b.mode = a.mode
        /\ b.rollback = IF a.rollback.locked THEN a.rollback
                        ELSE [a.rollback EXCEPT !.drained = n, !.drains = {}]
    BY <1>1 DEF Keeps, Fields, Free, Account
  <2>3. /\ b.rollback \in Rollback /\ b.rollback.pending = a.rollback.pending
        /\ b.rollback.queries = a.rollback.queries
    <3>1. CASE a.rollback.locked
      BY <2>1, <2>2, <3>1
    <3>2. CASE ~a.rollback.locked
      <4>1. b.rollback = [a.rollback EXCEPT !.drained = n, !.drains = {}]
        BY <2>2, <3>2
      <4> QED  BY ZenonT(40), <2>1, <4>1, DrainedSet
    <3> QED  BY <3>1, <3>2
  <2>4. Delivered(a, n) = IF b.rollback.settled THEN QueueOutput(b, "tail", n, b.rollback.epoch)
                          ELSE IF Chunks(b) + 1 > MaxHeldChunks THEN Invalidate(b, FALSE)
                          ELSE c
    BY <1>4 DEF Delivered
  <2> HIDE DEF b
  <2>5. Good(b, d) /\ b.rollback.epoch # 0 /\ DOMAIN b = Fields
    <3>1. Step(b, a)
      <4>1. a.rollback.pending \in Seq(Nat) /\ Len(a.rollback.queries) <= MaxHeldChunks
        BY <1>1, <1>4, <2>1 DEF Sound, Bounded, Rollback
      <4>2. Len(b.rollback.pending) <= Len(a.rollback.pending)
        BY <2>3, <4>1, LenProperties
      <4> QED  BY <1>1, <2>1, <2>2, <2>3, <4>1, <4>2, NoteStep
    <3>2. Good(b, d)
      BY <1>4, <2>2, <2>3, <3>1, GoodKept
    <3> QED  BY <2>3, <3>2, GoodFields DEF Rollback
  <2>6. Accounted(QueueOutput(b, "tail", n, b.rollback.epoch), d)
    BY <2>5, QueueOutputAccount DEF Good
  <2>7. Accounted(Invalidate(b, FALSE), d)
    BY <2>5, InvalidateAccount DEF Good
  <2>8. Accounted(c, d)
    <3>1. /\ Keeps(c, b, Fields \ Account) /\ c.mode = b.mode
          /\ c.rollback.queries = b.rollback.queries
      BY <2>3, <2>5 DEF Keeps, Fields, Account, Rollback
    <3> HIDE DEF c
    <3> QED  BY <2>5, <3>1, AccountKept DEF Good
  <2> QED  BY <1>2, <2>4, <2>6, <2>7, <2>8 DEF Good, Step
<1>5. CASE a.mode = "rolling-back" /\ ~(a.rollback.epoch # 0)
  BY <1>5 DEF Delivered
<1>6. CASE a.mode \in {"legacy", "server"}
  <2>1. Delivered(a, n) = QueueOutput(a, a.mode, n, a.epoch)
    BY <1>6 DEF Delivered
  <2> QED  BY <1>1, <1>2, <2>1, QueueOutputAccount DEF Good, Step
<1> QED  BY <1>1, <1>3, <1>4, <1>5, <1>6 DEF Sound, Typed, Modes

-----------------------------------------------------------------------------
(* Transactions that go on.                                                *)

\* The server answers what was staged, and all that comes from now on.
LEMMA ServerAnswersAccount ==
    ASSUME NEW a, NEW d \in Nat, DOMAIN a = Fields, Accounted(a, d)
    PROVE  Accounted(ServerAnswers(a), d)
<1> DEFINE b == ServerAnswers(a)
<1>1. /\ b.owners = a.owners /\ b.applied = a.applied /\ b.since = Len(a.owners)
      /\ b.restarted = a.restarted /\ b.rollback = a.rollback /\ b.effects = {}
      /\ b.mode = "server"
      /\ b.answers = [n \in DOMAIN a.answers |->
                         IF n \in a.effects THEN a.answers[n] + 1 ELSE a.answers[n]]
  BY DEF ServerAnswers, Flush, Fields
<1> HIDE DEF b
<1>2. a.owners \in Seq({"legacy", "server", "staged"}) /\ Len(a.owners) \in Nat
  BY LenProperties DEF Accounted
<1>3. a.applied \in Nat /\ a.applied - d \in Nat /\ a.applied - d <= MaxOutputs
      /\ MaxOutputs \in Nat
  BY <1>2, AuthorityAssumption DEF Accounted
<1>4. ASSUME NEW q, InLine(q, a, a.applied - d) PROVE InLine(q, b, a.applied - d)
  <2>1. ASSUME NEW k \in 1 .. Len(q), ~q[k].told
        PROVE  b.answers[q[k].n] = 0 /\ q[k].n \notin b.effects
    <3>1. q[k].n \in 1 .. a.applied - d
      BY <1>4, <2>1 DEF InLine
    <3>2. q[k].n \in 1 .. MaxOutputs /\ DOMAIN a.answers = 1 .. MaxOutputs
      BY <1>3, <3>1 DEF Accounted
    <3>3. a.answers[q[k].n] = 0 /\ q[k].n \notin a.effects
      BY <1>4, <2>1 DEF InLine
    <3> QED  BY <1>1, <3>2, <3>3
  <2> QED  BY <1>4, <2>1 DEF InLine
<1>5. /\ b.answers \in [1 .. MaxOutputs -> {0, 1}]
      /\ \A n \in 1 .. MaxOutputs : n > a.applied - d => b.answers[n] = 0
  <2>1. \A n \in 1 .. MaxOutputs : n > a.applied - d => n \notin a.effects
    BY <1>3 DEF Accounted
  <2>2. /\ a.answers \in [1 .. MaxOutputs -> {0, 1}]
        /\ \A n \in a.effects : a.answers[n] = 0
        /\ \A n \in 1 .. MaxOutputs : n > a.applied - d => a.answers[n] = 0
    BY DEF Accounted
  <2>3. DOMAIN a.answers = 1 .. MaxOutputs
    BY <2>2
  <2>4. ASSUME NEW n \in 1 .. MaxOutputs
        PROVE  /\ b.answers[n] \in {0, 1} /\ a.answers[n] \in {0, 1}
               /\ n > a.applied - d => b.answers[n] = 0
    <3>1. b.answers[n] = IF n \in a.effects THEN a.answers[n] + 1 ELSE a.answers[n]
      BY <1>1, <2>3
    <3>2. a.answers[n] \in {0, 1} /\ (n \in a.effects => a.answers[n] = 0)
      BY <2>2
    <3> QED  BY <2>1, <2>2, <3>1, <3>2
  <2>5. b.answers = [n \in 1 .. MaxOutputs |-> b.answers[n]]
    BY <1>1, <2>3
  <2> QED  BY <2>4, <2>5
<1>6. Accounted(b, d)
  BY <1>1, <1>2, <1>3, <1>4, <1>5 DEF Accounted
<1> QED  BY <1>6 DEF b

LEMMA AfterReleaseAccount ==
    ASSUME NEW a, Good(a, 0), NEW i, NEW ok \in BOOLEAN, NEW live \in SUBSET Views
    PROVE  Accounted(AfterRelease(a, i, ok, live), 0)
<1>1. DOMAIN a = Fields /\ Accounted(a, 0)
  BY GoodFields DEF Good
<1>2. CASE ok /\ PromotionIsCurrent(a, i.epoch)
  <2> DEFINE out == {k \in DOMAIN a.held : a.held[k] <= i.n}
  <2> DEFINE rest == SubSeq(a.held, Cardinality(out) + 1, Len(a.held))
  <2> DEFINE released == ServerAnswers(a)
  <2> DEFINE full == CommitEnds(RequestRecovery(a), i.epoch, i.by, live)
  <2> DEFINE next == QueueFrame(a, "held", Head(rest), i.epoch, i.by)
  <2>1. AfterRelease(a, i, ok, live) =
           CASE rest = <<>> -> released
             [] rest # <<>> /\ Chunks(a) + 1 > MaxHeldChunks -> full
             [] OTHER -> next
    BY <1>2 DEF AfterRelease, ReleaseNext
  <2>2. Accounted(released, 0) /\ Accounted(next, 0)
    <3> HIDE DEF rest
    <3> QED  BY <1>1, ServerAnswersAccount, FrameAccount
  <2>3. Accounted(full, 0)
    <3>1. Good(full, 0)
      BY RecoveryGood, CommitEndsGood
    <3> QED  BY <3>1 DEF Good
  <2> HIDE DEF released, full, next, rest
  <2> QED  BY <2>1, <2>2, <2>3
<1>3. CASE ~(ok /\ PromotionIsCurrent(a, i.epoch))
  <2> DEFINE c == IF ok THEN Discard(a) ELSE a
  <2>1. Keeps(c, a, Free \cup {"leases"}) /\ Keeps(c, a, Fields \ Account)
        /\ c.mode = a.mode /\ c.rollback = a.rollback
    BY <1>1 DEF Discard, Keeps, Fields, Free, Account
  <2> HIDE DEF c
  <2>2. Good(c, 0)
    <3>1. Sound(c)
      BY <2>1 DEF Good, Sound, Typed, Bounded, Chunks, PendingTail, Keeps, Fields, Free
    <3>2. Accounted(c, 0)
      BY <1>1, <2>1, AccountKept
    <3> QED  BY <3>1, <3>2 DEF Good
  <2>3. Good(CommitEnds(c, i.epoch, i.by, live), 0)
    BY <2>2, CommitEndsGood
  <2>4. AfterRelease(a, i, ok, live) = CommitEnds(c, i.epoch, i.by, live)
    BY <1>3 DEF AfterRelease, c
  <2> QED  BY <2>3, <2>4 DEF Good
<1> QED  BY <1>2, <1>3

LEMMA AfterCheckpointAccount ==
    ASSUME NEW a, Good(a, 0), NEW i, NEW ok \in BOOLEAN, ok => a.rollback.epoch # 0
    PROVE  Accounted(AfterCheckpoint(a, i, ok), 0)
<1>1. DOMAIN a = Fields /\ Accounted(a, 0)
  BY GoodFields DEF Good
<1>2. CASE ~ok
  BY <1>1, <1>2, BeginEndsAccount DEF AfterCheckpoint
<1>3. CASE ok
  <2> DEFINE outputs == a.rollback.pending
  <2> DEFINE b == [a EXCEPT !.rollback.pending = <<>>]
  <2> DEFINE c == QueueTails(b, outputs, i.epoch)
  <2> DEFINE d == [c EXCEPT !.rollback.settled = TRUE, !.rbegin = 0]
  <2>1. a.rollback \in Rollback /\ a.rollback.epoch # 0
    BY <1>3, Waiting DEF Good, Sound
  <2>2. /\ Keeps(b, a, Fields \ Account) /\ b.mode = a.mode /\ DOMAIN b = Fields
        /\ b.rollback = [a.rollback EXCEPT !.pending = <<>>]
    BY <1>1 DEF Keeps, Fields, Account
  <2> HIDE DEF b
  <2>3. /\ b.rollback.epoch = a.rollback.epoch /\ b.rollback.queries = a.rollback.queries
        /\ DOMAIN b.rollback = DOMAIN a.rollback
    BY <2>1, <2>2 DEF Rollback
  <2>4. Accounted(b, 0)
    BY <1>1, <2>1, <2>2, <2>3, AccountKept
  <2>5. /\ Accounted(c, 0) /\ DOMAIN c = Fields /\ c.rollback = b.rollback
    <3>1. Accounted(c, 0)
      <4> HIDE DEF outputs
      <4> QED  BY <2>2, <2>4, QueueTailsAccount
    <3> QED  BY <2>2, <3>1 DEF QueueTails, RequestRecovery, Schedule, Fields
  <2> HIDE DEF c
  <2>6. /\ Keeps(d, c, Fields \ Account) /\ d.mode = c.mode /\ DOMAIN d = Fields
        /\ d.rollback = [c.rollback EXCEPT !.settled = TRUE]
    BY <2>5 DEF Keeps, Fields, Account
  <2> HIDE DEF d
  <2>7. /\ d.rollback.epoch = c.rollback.epoch /\ d.rollback.queries = c.rollback.queries
        /\ c.rollback.epoch # 0
    BY <2>1, <2>3, <2>5, <2>6 DEF Rollback
  <2>8. Accounted(d, 0)
    BY <2>5, <2>6, <2>7, AccountKept
  <2>9. AfterCheckpoint(a, i, ok) = BeginEnds(d, i.epoch, TRUE)
    BY <1>3 DEF AfterCheckpoint, d, c, b, outputs
  <2> HIDE DEF outputs
  <2>10. Accounted(BeginEnds(d, i.epoch, TRUE), 0)
    BY <2>6, <2>8, BeginEndsAccount
  <2> QED  BY <2>9, <2>10
<1> QED  BY <1>2, <1>3

LEMMA AfterEnableAccount ==
    ASSUME NEW a, Good(a, 0), NEW i \in Frame, i.kind = "enable", NEW ok \in BOOLEAN
    PROVE  Accounted(AfterEnable(a, i, ok), 0)
<1> DEFINE over == [a EXCEPT !.ccommit = IF @ = i.epoch THEN 0 ELSE @]
<1> DEFINE revoked == [over EXCEPT !.admitted = FALSE]
<1> DEFINE again == [revoked EXCEPT !.rollback.drains = @ \ i.by]
<1> DEFINE back == [over EXCEPT !.mode = "legacy", !.fenced = FALSE]
<1>1. DOMAIN a = Fields /\ Accounted(a, 0) /\ i.epoch # 0
  BY GoodFields DEF Good, Frame, Transfer
<1>2. CASE ok /\ CompatibilityIsCurrent(a, i.epoch)
  <2>1. Keeps(back, a, Fields \ Account) /\ back.mode = "legacy" /\ back.rollback = a.rollback
    BY <1>1 DEF Keeps, Fields, Account
  <2>2. AfterEnable(a, i, ok) = back
    BY <1>2 DEF AfterEnable
  <2> HIDE DEF back
  <2> QED  BY <1>1, <2>1, <2>2, AccountKept
<1>3. CASE ~(ok /\ CompatibilityIsCurrent(a, i.epoch)) /\ a.rollback.epoch = i.epoch
  <2>1. AfterEnable(a, i, ok) = again
    BY <1>3 DEF AfterEnable
  <2>2. a.rollback \in Rollback
    BY <1>1, <1>3, Waiting DEF Good, Sound
  <2>3. /\ revoked.rollback = a.rollback /\ revoked.mode = a.mode /\ DOMAIN revoked = Fields
        /\ Keeps(revoked, a, Fields \ Account)
    BY <1>1 DEF Keeps, Fields, Account
  <2> HIDE DEF revoked
  <2>4. /\ Keeps(again, revoked, Fields \ Account) /\ again.mode = revoked.mode
        /\ again.rollback = [revoked.rollback EXCEPT !.drains = @ \ i.by]
    BY <2>3 DEF Keeps, Fields, Account
  <2> HIDE DEF again
  <2>5. again.rollback.epoch # 0 =>
          a.rollback.epoch # 0 /\ again.rollback.queries = a.rollback.queries
    BY <1>1, <1>3, <2>2, <2>3, <2>4 DEF Rollback
  <2>6. Keeps(again, a, Fields \ Account)
    BY <2>3, <2>4 DEF Keeps, Fields, Account
  <2> QED  BY <1>1, <2>1, <2>3, <2>4, <2>5, <2>6, AccountKept
<1>4. CASE ~(ok /\ CompatibilityIsCurrent(a, i.epoch)) /\ a.rollback.epoch # i.epoch
  <2>1. /\ Keeps(revoked, a, Fields \ Account) /\ revoked.mode = a.mode
        /\ revoked.rollback = a.rollback
    BY <1>1 DEF Keeps, Fields, Account
  <2>2. AfterEnable(a, i, ok) = revoked
    BY <1>4 DEF AfterEnable
  <2> HIDE DEF revoked
  <2> QED  BY <1>1, <2>1, <2>2, AccountKept
<1> QED  BY <1>2, <1>3, <1>4

LEMMA AfterFrameAccount ==
    ASSUME NEW a, Good(a, 0), NEW i \in Frame, NEW ok \in BOOLEAN, NEW live \in SUBSET Views,
           ok /\ i.kind = "checkpoint" => a.rollback.epoch # 0
    PROVE  Accounted(AfterFrame(a, i, ok, live), 0)
<1>1. DOMAIN a = Fields /\ Accounted(a, 0)
  BY GoodFields DEF Good
<1>2. CASE i.kind = "start"
  BY <1>1, <1>2, FrameAccount, BeginEndsAccount DEF AfterFrame, AfterStart
<1>3. CASE i.kind = "checkpoint"
  BY <1>3, AfterCheckpointAccount DEF AfterFrame
<1>4. CASE i.kind = "boundary"
  <2> DEFINE b == [a EXCEPT !.begin = 0, !.deadline = TRUE]
  <2>1. Keeps(b, a, Fields \ Account) /\ b.mode = a.mode /\ b.rollback = a.rollback
    BY <1>1 DEF Keeps, Fields, Account
  <2>2. AfterFrame(a, i, ok, live) = IF ok THEN b ELSE ResumeRollback(a, live)
    BY <1>4 DEF AfterFrame, AfterBoundary
  <2> HIDE DEF b
  <2> QED  BY <1>1, <2>1, <2>2, AccountKept, ResumeGood DEF Good
<1>5. CASE i.kind \in {"recovery", "held"}
  BY <1>5, AfterReleaseAccount DEF AfterFrame
<1>6. CASE i.kind = "enable"
  BY <1>6, AfterEnableAccount DEF AfterFrame
<1>7. CASE i.kind \notin {"start", "checkpoint", "boundary", "recovery", "held", "enable"}
  BY <1>1, <1>7 DEF AfterFrame
<1> QED  BY <1>2, <1>3, <1>4, <1>5, <1>6, <1>7

-----------------------------------------------------------------------------
(* Each step keeps it.                                                     *)

LEMMA FreeGood ==
    ASSUME NEW a, NEW b, NEW d, Good(a, d), Keeps(b, a, Free \ Account)
    PROVE  Good(b, d)
<1>1. Keeps(b, a, Free) /\ Keeps(b, a, Fields \ Account) /\ b.rollback = a.rollback
  BY DEF Keeps, Fields, Free, Account
<1>2. Step(b, a)
  BY <1>1, FreeStep DEF Good
<1> QED  BY <1>1, <1>2, GoodKept

LEMMA EnqueueAccount ==
    ASSUME Good(au, 0), EnqueueOutput
    PROVE  Accounted(au', 0)
<1>1. PICK w \in {"legacy", "server", "staged"} :
          /\ au' = [au EXCEPT !.owners = Append(@, w)]
          /\ au.mode = "server" => w = "server"
  BY DEF EnqueueOutput
<1>2. /\ au.owners \in Seq({"legacy", "server", "staged"}) /\ Len(au.owners) \in Nat
      /\ Len(au.owners) < MaxOutputs /\ DOMAIN au = Fields
      /\ au.applied \in 0 .. Len(au.owners) /\ au.since \in 0 .. Len(au.owners)
      /\ MaxOutputs \in Nat
  BY LenProperties, GoodFields, AuthorityAssumption DEF Good, Accounted, EnqueueOutput
<1>3. /\ au'.owners = Append(au.owners, w) /\ Keeps(au', au, {"owners"})
  BY <1>1, <1>2 DEF Keeps, Fields
<1>4. /\ au'.owners \in Seq({"legacy", "server", "staged"})
      /\ Len(au'.owners) = Len(au.owners) + 1
      /\ \A n \in 1 .. Len(au.owners) : au'.owners[n] = au.owners[n]
      /\ au'.owners[Len(au.owners) + 1] = w
  BY <1>2, <1>3, AppendProperties
<1>5. /\ au'.applied = au.applied /\ au'.since = au.since /\ au'.answers = au.answers
      /\ au'.effects = au.effects /\ au'.restarted = au.restarted
      /\ au'.rollback = au.rollback /\ au'.mode = au.mode
  BY <1>3 DEF Keeps, Fields
<1> DEFINE b == au'
<1> HIDE DEF b
<1>6. \A q, x : InLine(q, b, x) <=> InLine(q, au, x)
  BY <1>5 DEF InLine, b
<1>7. b.mode = "server" =>
         \A n \in 1 .. Len(b.owners) : n > b.since =>
            b.owners[n] = "server" /\ (n <= b.applied => b.answers[n] = 1)
  <2> SUFFICES ASSUME b.mode = "server", NEW n \in 1 .. Len(b.owners), n > b.since
               PROVE  b.owners[n] = "server" /\ (n <= b.applied => b.answers[n] = 1)
    OBVIOUS
  <2>1. CASE n = Len(au.owners) + 1
    BY <1>1, <1>2, <1>4, <1>5, <2>1 DEF b
  <2>2. CASE n # Len(au.owners) + 1
    <3>1. n \in 1 .. Len(au.owners)
      BY <1>2, <1>4, <2>2 DEF b
    <3> QED  BY <1>2, <1>4, <1>5, <3>1 DEF Good, Accounted, b
  <2> QED  BY <2>1, <2>2
<1>8. Accounted(b, 0)
  <2>1. /\ b.applied \in 0 .. Len(b.owners) /\ b.since \in 0 .. Len(b.owners)
        /\ Len(b.owners) <= MaxOutputs /\ b.applied - 0 = b.applied
        /\ b.owners \in Seq({"legacy", "server", "staged"})
    BY <1>2, <1>4, <1>5 DEF b
  <2>2. /\ b.applied = au.applied /\ b.answers = au.answers /\ b.effects = au.effects
        /\ b.restarted = au.restarted /\ b.rollback = au.rollback
    BY <1>5 DEF b
  <2> QED  BY <1>6, <1>7, <2>1, <2>2 DEF Good, Accounted
<1> QED  BY <1>8 DEF b

LEMMA DeliveredKeeps ==
    ASSUME NEW a, DOMAIN a = Fields, NEW n
    PROVE  Delivered(a, n).applied = a.applied
<1>1. \A x : DOMAIN x = Fields =>
        Schedule(x).applied = x.applied /\ RequestRecovery(x).applied = x.applied
  BY DEF Schedule, RequestRecovery, Fields
<1>2. \A x, kind, m, e : DOMAIN x = Fields => QueueOutput(x, kind, m, e).applied = x.applied
  BY <1>1 DEF QueueOutput, QueueFrame, Fields
<1>3. CASE a.mode = "promoting"
  <2> DEFINE b == [a EXCEPT !.held = Append(@, n)]
  <2>1. DOMAIN b = Fields /\ b.applied = a.applied
    BY DEF Fields
  <2>2. Delivered(a, n) \in {b, RequestRecovery(b)}
    BY <1>3 DEF Delivered
  <2> QED  BY <1>1, <2>1, <2>2
<1>4. CASE a.mode = "rolling-back" /\ a.rollback.epoch # 0
  <2> DEFINE b == IF a.rollback.locked THEN a
                  ELSE [a EXCEPT !.rollback.drained = n, !.rollback.drains = {}]
  <2> DEFINE c == [b EXCEPT !.rollback.pending = Append(@, n)]
  <2>1. DOMAIN b = Fields /\ b.applied = a.applied
    BY DEF Fields
  <2>2. Delivered(a, n) = IF b.rollback.settled THEN QueueOutput(b, "tail", n, b.rollback.epoch)
                          ELSE IF Chunks(b) + 1 > MaxHeldChunks THEN Invalidate(b, FALSE)
                          ELSE c
    BY <1>4 DEF Delivered
  <2> HIDE DEF b
  <2>3. c.applied = b.applied
    BY <2>1 DEF Fields
  <2>4. /\ QueueOutput(b, "tail", n, b.rollback.epoch).applied = a.applied
        /\ Invalidate(b, FALSE).applied = a.applied
    <3>1. QueueOutput(b, "tail", n, b.rollback.epoch).applied = b.applied
      BY <1>2, <2>1
    <3>2. Invalidate(b, FALSE).applied = b.applied
      BY <2>1 DEF Invalidate, Schedule, Fields
    <3> QED  BY <2>1, <3>1, <3>2
  <2> HIDE DEF c
  <2> QED  BY <2>1, <2>2, <2>3, <2>4
<1>5. CASE a.mode = "rolling-back" /\ ~(a.rollback.epoch # 0)
  BY <1>5 DEF Delivered
<1>6. CASE a.mode # "rolling-back" /\ a.mode # "promoting"
  <2>1. Delivered(a, n) = QueueOutput(a, a.mode, n, a.epoch)
    BY <1>6 DEF Delivered
  <2> QED  BY <1>2, <2>1
<1> QED  BY <1>3, <1>4, <1>5, <1>6

LEMMA ApplyAccount ==
    ASSUME Good(au, 0), ApplyOutput
    PROVE  Accounted(au', 0)
<1> DEFINE n == au.applied + 1
<1> DEFINE b == [au EXCEPT !.applied = n]
<1> DEFINE tailed == au.mode = "rolling-back"
<1>1. /\ Sound(au) /\ DOMAIN au = Fields /\ au.applied \in Nat /\ n \in Nat
      /\ au.chain \in Seq(Frame) /\ au.applied < Len(au.owners) /\ Len(au.owners) \in Nat
      /\ tailed \in BOOLEAN
      /\ au' = Effect(Delivered(b, n), n, tailed)
  <2>1. au.owners \in Seq({"legacy", "server", "staged"})
    BY DEF Good, Accounted
  <2> QED  BY <2>1, LenProperties, GoodFields DEF Good, Sound, Typed, ApplyOutput
<1>2. /\ Keeps(b, au, Stays) /\ b.rollback = au.rollback /\ b.restarted = au.restarted
      /\ b.held = au.held /\ b.applied = n /\ b.chain = au.chain
      /\ b.owners = au.owners /\ b.since = au.since /\ b.answers = au.answers
      /\ b.effects = au.effects /\ b.mode = au.mode
  BY <1>1 DEF Keeps, Fields, Stays, Free
<1> HIDE DEF b, tailed
<1>3. Sound(b)
  <2>1. Bounded(b)
    BY <1>1, <1>2 DEF Sound, Bounded, Chunks, PendingTail
  <2>2. /\ b.rollback \in Rollback \cup {NoRollback} /\ b.restarted \in Seq(Query)
        /\ b.held \in Seq(Nat) /\ b.applied \in Nat /\ b.chain \in Seq(Frame)
    BY <1>1, <1>2 DEF Sound, Typed
  <2>3. Longer(b.chain, au.chain)
    BY <1>1, <1>2, SameChain
  <2>4. Step(b, au)
    BY <1>1, <1>2, <2>1, <2>2, <2>3, StaysStep
  <2> QED  BY <2>4 DEF Step
<1>4. Accounted(b, 1)
  <2>1. b.applied - 1 = au.applied /\ au.applied - 0 = au.applied
    BY <1>1, <1>2
  <2>2. b.applied \in 1 .. Len(b.owners)
    BY <1>1, <1>2
  <2>3. \A q, x : InLine(q, b, x) <=> InLine(q, au, x)
    BY <1>2 DEF InLine
  <2> HIDE DEF n
  <2> QED  BY <1>2, <2>1, <2>2, <2>3 DEF Good, Accounted
<1> DEFINE c == Delivered(b, n)
<1>5. Good(c, 1) /\ c.applied = n
  <2>1. Good(c, 1)
    BY <1>1, <1>3, <1>4, DeliveredGood DEF Good
  <2>2. DOMAIN b = Fields
    BY <1>2 DEF Keeps
  <2> QED  BY <1>2, <2>1, <2>2, DeliveredKeeps
<1> HIDE DEF c
<1>6. Good(Effect(c, c.applied, tailed), 0)
  BY <1>1, <1>5, EffectGood
<1> QED  BY <1>1, <1>5, <1>6 DEF Good, c

LEMMA StartAccount ==
    ASSUME Good(au, 0), StartPromotion
    PROVE  Accounted(au', 0)
<1>1. Keeps(au', au, Fields \ Account) /\ au'.mode = au.mode /\ au'.rollback = au.rollback
  BY GoodFields DEF StartPromotion, Keeps, Fields, Account
<1> DEFINE b == au'
<1>2. Keeps(b, au, Fields \ Account) /\ b.mode = au.mode /\ b.rollback = au.rollback
  BY <1>1
<1> HIDE DEF b
<1>3. Accounted(b, 0)
  BY <1>2, AccountKept DEF Good
<1> QED  BY <1>3 DEF b

LEMMA EnterAccount ==
    ASSUME Good(au, 0), EnterPromotion, browsers.attached \in SUBSET Views
    PROVE  Accounted(au', 0)
<1> DEFINE e == au.opening
<1> DEFINE b == [au EXCEPT !.opening = 0, !.mode = "promoting", !.epoch = e, !.acks = {},
                           !.recovering = FALSE, !.begin = e, !.revoked = FALSE]
<1>1. DOMAIN au = Fields /\ Sound(au) /\ Accounted(au, 0)
  BY GoodFields DEF Good
<1>2. /\ Keeps(b, au, Free \cup {"opening", "mode", "epoch", "acks", "recovering"})
      /\ b.opening = 0 /\ b.mode = "promoting" /\ b.epoch = e /\ b.acks = {}
      /\ ~b.recovering
      /\ Keeps(b, au, Fields \ Account) /\ b.rollback = au.rollback
  BY <1>1 DEF Keeps, Fields, Free, Account
<1>3. au' = IF au.views # browsers.attached
            THEN ResumeRollback(RequestRecovery(b), browsers.attached)
            ELSE QueueFrame(b, "boundary", au.applied, e, {})
  BY DEF EnterPromotion
<1> HIDE DEF b
<1>4. /\ b.commit = au.commit /\ b.views = au.views
      /\ b.targets = au.targets /\ b.lost = au.lost
      /\ b.receipts = au.receipts /\ b.restarted = au.restarted
      /\ b.held = au.held /\ b.applied = au.applied /\ b.chain = au.chain
      /\ DOMAIN b = Fields
  BY <1>2 DEF Keeps, Fields, Free
<1>5. Sound(b)
  BY <1>1, <1>2, <1>4 DEF Sound, Typed, Bounded, Chunks, PendingTail, Modes
<1>6. Good(b, 0)
  BY <1>1, <1>2, <1>5, AccountKept DEF Good
<1>7. Accounted(QueueFrame(b, "boundary", au.applied, e, {}), 0)
  BY <1>4, <1>6, FrameAccount DEF Good
<1>8. Good(ResumeRollback(RequestRecovery(b), browsers.attached), 0)
  BY <1>6, RecoveryGood, ResumeGood
<1> QED  BY <1>3, <1>7, <1>8 DEF Good

LEMMA HearDisableAccount ==
    ASSUME Good(au, 0), NEW v \in Views, HearDisable(v), browsers.attached \in SUBSET Views
    PROVE  Accounted(au', 0)
<1> DEFINE e == browsers.disabled[v]
<1> DEFINE b == [au EXCEPT !.acks = @ \union {v}]
<1> DEFINE c == [b EXCEPT !.commit = e,
                          !.receipts = @ \union {[view |-> v, epoch |-> e]}]
<1>1. au' \in {ResumeRollback(au, browsers.attached), b, c}
  BY DEF HearDisable
<1>2. /\ Keeps(b, au, Fields \ Account) /\ b.mode = au.mode /\ b.rollback = au.rollback
      /\ Keeps(c, au, Fields \ Account) /\ c.mode = au.mode /\ c.rollback = au.rollback
  BY GoodFields DEF Keeps, Fields, Account
<1> HIDE DEF b, c
<1>3. Accounted(b, 0) /\ Accounted(c, 0)
  BY <1>2, AccountKept DEF Good
<1>4. Good(ResumeRollback(au, browsers.attached), 0)
  BY ResumeGood
<1> QED  BY <1>1, <1>3, <1>4 DEF Good

LEMMA ReceiptAccount ==
    ASSUME Good(au, 0), NEW r, NEW sent \in BOOLEAN, Receipt(r, sent),
           browsers.attached \in SUBSET Views
    PROVE  Accounted(au', 0)
<1> DEFINE live == browsers.attached
<1> DEFINE b == [au EXCEPT !.receipts = @ \ {r}]
<1> DEFINE t == [Troubled(b) EXCEPT !.acks = @ \ {r.view}]
<1> DEFINE d == [b EXCEPT !.leases = TRUE]
<1>1. /\ Sound(au) /\ DOMAIN au = Fields
      /\ au.receipts \in SUBSET [view : Views, epoch : Nat]
  BY GoodFields DEF Good, Sound, Typed
<1>2. /\ Keeps(b, au, Free \cup {"receipts"}) /\ b.receipts = au.receipts \ {r}
      /\ Keeps(b, au, Fields \ Account) /\ b.mode = au.mode /\ b.rollback = au.rollback
      /\ DOMAIN b = Fields
  BY <1>1 DEF Keeps, Fields, Free, Account
<1>3. \/ au' = CommitEnds(RequestRecovery(Schedule(t)), r.epoch, {r.view}, live)
      \/ au' = CommitEnds(RequestRecovery(b), r.epoch, {r.view}, live)
      \/ au' = QueueFrame(d, "recovery", b.applied, r.epoch, {r.view})
      \/ au' = CommitEnds(Discard(d), r.epoch, {r.view}, live)
  BY DEF Receipt
<1> HIDE DEF b
<1>4. Good(b, 0)
  <2>1. Sound(b)
    BY <1>1, <1>2
       DEF Sound, Typed, Bounded, Chunks, PendingTail, Keeps, Fields, Free
  <2>2. Accounted(b, 0)
    BY <1>2, AccountKept DEF Good
  <2> QED  BY <2>1, <2>2 DEF Good
<1>5. Good(CommitEnds(RequestRecovery(Schedule(t)), r.epoch, {r.view}, live), 0)
  <2>1. /\ Keeps(t, b, Free \cup {"commit", "acks", "targets", "views", "lost"})
        /\ t.commit = b.commit /\ t.acks \subseteq b.acks /\ t.targets = b.targets
        /\ t.views = b.views /\ t.lost = b.lost
        /\ Keeps(t, b, Fields \ Account) /\ t.rollback = b.rollback
    BY <1>2 DEF Troubled, Keeps, Fields, Free, Account
  <2>2. /\ b.targets \in SUBSET Views /\ b.views \in SUBSET Views
        /\ b.lost \in SUBSET Views /\ Sound(b)
    BY <1>4 DEF Good, Sound, Typed
  <2> HIDE DEF t
  <2>3. Good(t, 0)
    <3>1. Step(t, b)
      BY <2>1, <2>2, LessStep
    <3> QED  BY <1>4, <2>1, <3>1, GoodKept
  <2>4. Good(RequestRecovery(Schedule(t)), 0)
    BY <2>3, ScheduleGood, RecoveryGood
  <2> QED  BY <2>4, CommitEndsGood
<1>6. Good(CommitEnds(RequestRecovery(b), r.epoch, {r.view}, live), 0)
  BY <1>4, RecoveryGood, CommitEndsGood
<1>7. /\ Accounted(d, 0) /\ DOMAIN d = Fields
  <2>1. /\ Keeps(d, b, Fields \ Account) /\ d.mode = b.mode /\ d.rollback = b.rollback
    BY <1>2 DEF Keeps, Fields, Account
  <2> HIDE DEF d
  <2>2. Accounted(d, 0)
    BY <1>4, <2>1, AccountKept DEF Good
  <2> QED  BY <2>1, <2>2 DEF Keeps
<1>8. Good(CommitEnds(Discard(d), r.epoch, {r.view}, live), 0)
  <2> DEFINE c == Discard(d)
  <2>1. /\ Keeps(c, b, Free \cup {"leases"}) /\ Keeps(c, b, Fields \ Account)
        /\ c.mode = b.mode /\ c.rollback = b.rollback
    BY <1>2 DEF Discard, Keeps, Fields, Free, Account
  <2> HIDE DEF c
  <2>2. Good(c, 0)
    <3>1. Sound(c)
      BY <1>4, <2>1
         DEF Good, Sound, Typed, Bounded, Chunks, PendingTail, Keeps, Fields, Free
    <3>2. Accounted(c, 0)
      BY <1>4, <2>1, AccountKept DEF Good
    <3> QED  BY <3>1, <3>2 DEF Good
  <2>3. Good(CommitEnds(c, r.epoch, {r.view}, live), 0)
    BY <2>2, CommitEndsGood
  <2> QED  BY <2>3 DEF c
<1>9. Accounted(QueueFrame(d, "recovery", b.applied, r.epoch, {r.view}), 0)
  <2> HIDE DEF d
  <2> QED  BY <1>7, FrameAccount
<1> HIDE DEF t, d
<1> QED  BY <1>3, <1>5, <1>6, <1>8, <1>9 DEF Good

LEMMA DeadlineAccount ==
    ASSUME Good(au, 0), Deadline, browsers.attached \in SUBSET Views
    PROVE  Accounted(au', 0)
<1> DEFINE b == [Troubled(au) EXCEPT !.deadline = FALSE]
<1>1. Keeps(b, au, Free \ Account)
  BY GoodFields DEF Troubled, Keeps, Fields, Free, Account
<1>2. au' \in {b, ResumeRollback(RequestRecovery(b), browsers.attached)}
  BY DEF Deadline
<1> HIDE DEF b
<1>3. Good(b, 0)
  BY <1>1, FreeGood
<1>4. Good(ResumeRollback(RequestRecovery(b), browsers.attached), 0)
  BY <1>3, RecoveryGood, ResumeGood
<1> QED  BY <1>2, <1>3, <1>4 DEF Good

LEMMA SendFrameAccount ==
    ASSUME Good(au, 0), NEW missed, SendFrame(missed)
    PROVE  Accounted(au', 0)
<1> DEFINE b == au'
<1>1. Keeps(b, au, Fields \ Account) /\ b.mode = au.mode /\ b.rollback = au.rollback
  BY GoodFields DEF SendFrame, Troubled, Keeps, Fields, Account
<1> HIDE DEF b
<1>2. Accounted(b, 0)
  BY <1>1, AccountKept DEF Good
<1> QED  BY <1>2 DEF b

LEMMA FrameSettlesAccount ==
    ASSUME Fit(au, browsers), Good(au, 0), FrameSettles
    PROVE  Accounted(au', 0)
<1> DEFINE i == Head(au.chain)
<1> DEFINE live == browsers.attached
<1> DEFINE refused == au.lost \intersect live # {}
<1> DEFINE unheard == Receivers(au, i, live) = {}
                      /\ ~(i.kind \in OutputKinds /\ au.mode \in {"legacy", "server"})
<1> DEFINE ok == ~refused /\ ~unheard
<1> DEFINE b == [au EXCEPT !.chain = Tail(@), !.sending = FALSE, !.lost = {}]
<1> DEFINE told == IF refused THEN Schedule(b) ELSE b
<1> DEFINE current == FrameIsCurrent(told, i)
<1> DEFINE x == IF ~ok /\ current THEN RequestRecovery(told) ELSE told
<1>1. au' = AfterFrame(x, i, current /\ ok, live)
  BY DEF FrameSettles
<1>2. DOMAIN au = Fields /\ live \in SUBSET Views /\ au.chain # <<>>
  BY DEF Fit, Sound, Typed, BrowsersTyped, FrameSettles, Orderly
<1>3. /\ Keeps(b, au, Free \cup {"chain", "sending", "lost"})
      /\ b.chain = Tail(au.chain) /\ ~b.sending /\ b.lost \in SUBSET Views
      /\ Keeps(b, au, Fields \ Account) /\ b.mode = au.mode /\ b.rollback = au.rollback
  BY <1>2 DEF Keeps, Fields, Free, Account
<1> HIDE DEF b
<1>4. Good(b, 0) /\ i \in Frame
  <2>1. Fit(b, browsers) /\ i \in Frame
    BY <1>2, <1>3, PopFit
  <2>2. Accounted(b, 0)
    BY <1>3, AccountKept DEF Good
  <2> QED  BY <2>1, <2>2 DEF Good, Fit
<1>5. Good(x, 0)
  <2>1. Good(told, 0)
    BY <1>4, ScheduleGood
  <2> HIDE DEF told, ok, current
  <2> QED  BY <2>1, RecoveryGood
<1>6. current \in BOOLEAN
  BY DEF FrameIsCurrent, RollbackIsCurrent
<1>7. ASSUME current, ok, i.kind = "checkpoint"
      PROVE  x.rollback.epoch # 0
  <2>1. x = b /\ told = b
    BY <1>7
  <2>2. FrameIsCurrent(b, i)
    BY <1>7, <2>1
  <2>3. i.epoch # 0
    <3> HIDE DEF i
    <3> QED  BY <1>4, <1>7 DEF Frame, Transfer
  <2> QED  BY <1>7, <2>1, <2>2, <2>3 DEF FrameIsCurrent, RollbackIsCurrent
<1> HIDE DEF i, live, ok, x, current
<1> DEFINE went == current /\ ok
<1>8. went \in BOOLEAN /\ (went /\ i.kind = "checkpoint" => x.rollback.epoch # 0)
  BY <1>6, <1>7
<1> HIDE DEF went
<1>9. Accounted(AfterFrame(x, i, went, live), 0)
  BY <1>2, <1>4, <1>5, <1>8, AfterFrameAccount
<1> QED  BY <1>1, <1>9 DEF went

LEMMA DropFrameAccount ==
    ASSUME Fit(au, browsers), Good(au, 0), DropFrame
    PROVE  Accounted(au', 0)
<1> DEFINE i == Head(au.chain)
<1> DEFINE b == [au EXCEPT !.chain = Tail(@)]
<1>1. /\ au' = AfterFrame(b, i, FALSE, browsers.attached)
      /\ au.chain # <<>> /\ ~au.sending
  BY DEF DropFrame
<1>2. /\ DOMAIN au = Fields /\ browsers.attached \in SUBSET Views
      /\ au.lost \in SUBSET Views
  BY DEF Fit, Sound, Typed, BrowsersTyped
<1>3. /\ Keeps(b, au, Free \cup {"chain", "sending", "lost"})
      /\ b.chain = Tail(au.chain) /\ ~b.sending /\ b.lost \in SUBSET Views
      /\ Keeps(b, au, Fields \ Account) /\ b.mode = au.mode /\ b.rollback = au.rollback
  BY <1>1, <1>2 DEF Keeps, Fields, Free, Account
<1> HIDE DEF b
<1>4. Good(b, 0) /\ i \in Frame
  <2>1. Fit(b, browsers) /\ i \in Frame
    BY <1>1, <1>3, PopFit
  <2>2. Accounted(b, 0)
    BY <1>3, AccountKept DEF Good
  <2> QED  BY <2>1, <2>2 DEF Good, Fit
<1> HIDE DEF i
<1>5. Accounted(AfterFrame(b, i, FALSE, browsers.attached), 0)
  BY <1>2, <1>4, AfterFrameAccount
<1> QED  BY <1>1, <1>5

LEMMA RefuseScreenAccount ==
    ASSUME Good(au, 0), NEW v \in Views, RefuseScreen(v), browsers.attached \in SUBSET Views
    PROVE  Accounted(au', 0)
<1> DEFINE live == browsers.attached
<1> DEFINE a == Troubled(au)
<1> DEFINE rolling == a.mode = "rolling-back"
<1> DEFINE again == IF rolling THEN Invalidate(a, FALSE) ELSE a
<1> DEFINE stale == \/ browsers.handoff[v] # a.epoch
                    \/ rolling /\ a.rollback.epoch = 0
<1>1. au' = IF stale THEN a ELSE RollbackSession(again, FALSE, live).au
  BY DEF RefuseScreen
<1>2. Keeps(a, au, Free \ Account)
  BY GoodFields DEF Troubled, Keeps, Fields, Free, Account
<1> HIDE DEF a, live
<1>3. Good(a, 0)
  BY <1>2, FreeGood
<1>4. CASE ~stale
  <2>1. Good(again, 0)
    <3>1. rolling => a.rollback.epoch # 0
      BY <1>4
    <3> QED  BY <1>3, <3>1, InvalidateGood
  <2> HIDE DEF again
  <2>2. Good(RollbackSession(again, FALSE, live).au, 0)
    BY <2>1, SessionGood DEF live
  <2> QED  BY <1>1, <1>4, <2>2 DEF Good
<1> QED  BY <1>1, <1>3, <1>4 DEF Good

LEMMA RunRecoveryAccount ==
    ASSUME Good(au, 0), RunRecovery, browsers.attached \in SUBSET Views
    PROVE  Accounted(au', 0)
<1> DEFINE live == browsers.attached
<1> DEFINE started == [au EXCEPT !.retry.at = "running", !.retry.again = FALSE]
<1> DEFINE r == RollbackSession(started, FALSE, live)
<1> DEFINE b == r.au
<1> DEFINE c == [b EXCEPT !.retry.of = b.epoch]
<1>1. au' \in {c, RetryEnds(b, r.outcome = "done")}
  BY DEF RunRecovery
<1>2. Keeps(started, au, Free \ Account)
  BY GoodFields DEF Keeps, Fields, Free, Account
<1> HIDE DEF live, started
<1>3. Good(b, 0)
  BY <1>2, FreeGood, SessionGood DEF live
<1> DEFINE done == r.outcome = "done"
<1>4. au' \in {c, RetryEnds(b, done)}
  BY <1>1
<1> HIDE DEF r, b, done
<1>5. /\ Keeps(c, b, Fields \ Account) /\ c.mode = b.mode /\ c.rollback = b.rollback
  BY <1>3, GoodFields DEF Keeps, Fields, Account
<1> HIDE DEF c
<1>6. Accounted(c, 0) /\ Accounted(RetryEnds(b, done), 0)
  BY <1>3, <1>5, GoodFields, AccountKept, RetryAccount DEF Good
<1> QED  BY <1>4, <1>6

LEMMA RollBackAccount ==
    ASSUME Good(au, 0), RollBack, browsers.attached \in SUBSET Views
    PROVE  Accounted(au', 0)
<1> DEFINE a == Troubled(au)
<1>1. au' = RollbackSession(a, FALSE, browsers.attached).au
  BY DEF RollBack
<1>2. Keeps(a, au, Free \ Account)
  BY GoodFields DEF Troubled, Keeps, Fields, Free, Account
<1> HIDE DEF a
<1>3. Good(RollbackSession(a, FALSE, browsers.attached).au, 0)
  BY <1>2, FreeGood, SessionGood
<1> QED  BY <1>1, <1>3 DEF Good

LEMMA TopologyTimerAccount ==
    ASSUME Good(au, 0), TopologyTimer, browsers.attached \in SUBSET Views
    PROVE  Accounted(au', 0)
<1> DEFINE live == browsers.attached
<1> DEFINE a == [au EXCEPT !.timer = FALSE]
<1> DEFINE c == IF a.rollback.epoch # 0 THEN Invalidate(a, TRUE) ELSE a
<1> DEFINE b == [c EXCEPT !.views = live, !.targets = live, !.acks = {}]
<1> DEFINE m == [b EXCEPT !.moved = TRUE]
<1>1. au' = CASE a.mode # "rolling-back" -> a
              [] a.mode = "rolling-back" /\ live = {} -> b
              [] OTHER -> RollbackSession(m, TRUE, live).au
  BY DEF TopologyTimer
<1>2. Keeps(a, au, Free \ Account)
  BY GoodFields DEF Keeps, Fields, Free, Account
<1> HIDE DEF a
<1>3. Good(a, 0)
  BY <1>2, FreeGood
<1>4. CASE a.mode # "rolling-back"
  BY <1>1, <1>3, <1>4 DEF Good
<1>5. CASE a.mode = "rolling-back"
  <2>1. Good(c, 0) /\ DOMAIN c = Fields
    BY <1>3, AgainGood, GoodFields
  <2>2. c.mode = "rolling-back"
    <3>1. Step(c, a)
      BY <1>3, AgainStep DEF Good
    <3> QED  BY <1>5, <3>1 DEF Step, Yields
  <2> HIDE DEF c
  <2>3. /\ Keeps(b, c, Free \cup {"recovering", "mode", "acks", "views", "targets"})
        /\ b.mode = "rolling-back" /\ b.acks = {} /\ b.views = live /\ b.targets = live
        /\ Keeps(b, c, Fields \ Account) /\ b.rollback = c.rollback
    BY <2>1, <2>2 DEF Keeps, Fields, Free, Account
  <2> HIDE DEF b
  <2>4. Good(b, 0)
    <3>1. Step(b, c)
      BY <2>1, <2>2, <2>3, RollingStep DEF Good
    <3> QED  BY <2>1, <2>3, <3>1, GoodKept
  <2>5. Keeps(m, b, Free \ Account)
    BY <2>4, GoodFields DEF Keeps, Fields, Free, Account
  <2> HIDE DEF m
  <2>6. Good(RollbackSession(m, TRUE, live).au, 0)
    BY <2>4, <2>5, FreeGood, SessionGood
  <2> QED  BY <1>1, <1>5, <2>4, <2>6 DEF Good
<1> QED  BY <1>4, <1>5

LEMMA AbortedGood ==
    ASSUME NEW a, Good(a, 0), NEW live \in SUBSET Views
    PROVE  Good(Aborted(a, live), 0)
<1> DEFINE b == AbortNoticed(a, live)
<1>1. /\ Keeps(b, a, Free \cup {"recovering", "mode", "acks", "views", "targets"})
      /\ b.mode = "rolling-back" /\ b.acks \subseteq Views /\ b.views \subseteq Views
      /\ b.targets \subseteq Views
      /\ Keeps(b, a, Fields \ Account) /\ b.rollback = a.rollback
  BY GoodFields DEF AbortNoticed, Keeps, Fields, Free, Account
<1> HIDE DEF b
<1>2. Good(b, 0)
  <2>1. Step(b, a)
    BY <1>1, RollingStep DEF Good
  <2> QED  BY <1>1, <2>1, GoodKept
<1>3. Good(Schedule(b), 0) /\ Good(RollbackSession(Schedule(b), TRUE, live).au, 0)
  BY <1>2, ScheduleGood, SessionGood
<1> QED  BY <1>3 DEF Aborted, b

LEMMA WakeGood ==
    ASSUME NEW a, Good(a, 0), a.mode = "rolling-back", NEW live \in SUBSET Views
    PROVE  Good(Wake(a, live), 0)
<1> DEFINE c == IF a.rollback.epoch # 0 THEN Invalidate(a, TRUE) ELSE a
<1> DEFINE b == [c EXCEPT !.moved = FALSE, !.targets = live, !.timer = TRUE]
<1>1. Good(c, 0) /\ DOMAIN c = Fields
  BY AgainGood, GoodFields
<1> HIDE DEF c
<1>2. Keeps(b, c, Fields \ Account) /\ b.mode = c.mode /\ b.rollback = c.rollback
  BY <1>1 DEF Keeps, Fields, Account
<1>3. Wake(a, live) \in {a, b}
  BY DEF Wake, b, c
<1> HIDE DEF b
<1>4. Accounted(b, 0)
  BY <1>1, <1>2, AccountKept DEF Good
<1>5. Sound(Wake(a, live))
  BY WakeStep DEF Good, Step
<1> QED  BY <1>3, <1>4, <1>5 DEF Good

LEMMA ViewLeavesAccount ==
    ASSUME Good(au, 0), NEW v \in Views, ViewLeaves(v), browsers.attached \in SUBSET Views
    PROVE  Accounted(au', 0)
<1> DEFINE live == browsers.attached \ {v}
<1> DEFINE a == Troubled(au)
<1> DEFINE s == [a EXCEPT !.targets = live, !.views = IF live = {} THEN @ ELSE live]
<1>1. /\ live \in SUBSET Views
      /\ au' = CASE a.mode = "legacy" -> a
                 [] a.mode = "promoting" -> Aborted(a, live)
                 [] a.mode = "rolling-back" -> Wake(a, live)
                 [] a.mode = "server" -> s
  BY DEF ViewLeaves
<1>2. Keeps(a, au, Free \ Account)
  BY GoodFields DEF Troubled, Keeps, Fields, Free, Account
<1> HIDE DEF a, live
<1>3. Good(a, 0) /\ a.mode \in Modes /\ DOMAIN a = Fields
  <2>1. Good(a, 0)
    BY <1>2, FreeGood
  <2> QED  BY <2>1 DEF Good, Sound, Typed
<1>4. /\ Keeps(s, a, Fields \ Account) /\ s.mode = a.mode /\ s.rollback = a.rollback
  BY <1>3 DEF Keeps, Fields, Account
<1> HIDE DEF s
<1>5. Accounted(s, 0) /\ Accounted(a, 0)
  BY <1>3, <1>4, AccountKept DEF Good
<1>6. Accounted(Aborted(a, live), 0)
  BY <1>1, <1>3, AbortedGood DEF Good
<1>7. a.mode = "rolling-back" => Accounted(Wake(a, live), 0)
  BY <1>1, <1>3, WakeGood DEF Good
<1> QED  BY <1>1, <1>3, <1>5, <1>6, <1>7 DEF Modes

\* Queries handed to the chosen view have the answer that view gives.
LEMMA TransferredAccount ==
    ASSUME NEW a, DOMAIN a = Fields, Accounted(a, 0), a.rollback \in Rollback,
           a.mode = "rolling-back",
           NEW told \in 0 .. Len(a.rollback.queries),
           NEW b, b = Transferred(a, told)
    PROVE  Accounted(b, 0)
<1> DEFINE q == a.rollback.queries
<1> DEFINE p == Handed(q, told)
<1> DEFINE new(n) == {k \in 1 .. told : q[k] = [n |-> n, told |-> FALSE]}
<1>1. /\ q \in Seq(Query) /\ Len(q) \in Nat /\ DOMAIN q = 1 .. Len(q)
      /\ \A k \in 1 .. Len(q) : q[k] \in Query
      /\ a.rollback.epoch # 0
  <2>1. q \in Seq(Query)
    BY DEF Rollback
  <2> QED  BY <2>1, LenProperties, ElementOfSeq DEF Rollback
<1>2. /\ a.restarted = <<>> /\ InLine(q, a, a.applied)
      /\ a.applied \in Nat /\ a.applied <= MaxOutputs /\ a.applied - 0 = a.applied
      /\ a.answers \in [1 .. MaxOutputs -> {0, 1}] /\ MaxOutputs \in Nat
      /\ a.effects \subseteq 1 .. a.applied /\ \A n \in a.effects : a.answers[n] = 0
      /\ \A n \in 1 .. MaxOutputs : n > a.applied => a.answers[n] = 0
  <2>1. Len(a.owners) \in Nat
    BY LenProperties DEF Accounted
  <2>2. a.applied \in Nat /\ a.applied <= MaxOutputs /\ a.applied - 0 = a.applied
        /\ MaxOutputs \in Nat
    BY <2>1, AuthorityAssumption DEF Accounted
  <2> QED  BY <1>1, <2>2 DEF Accounted
<1>3. /\ b.owners = a.owners /\ b.applied = a.applied /\ b.since = a.since
      /\ b.effects = a.effects /\ b.restarted = a.restarted /\ b.mode = a.mode
      /\ b.rollback = [a.rollback EXCEPT !.queries = p]
      /\ b.answers = [n \in DOMAIN a.answers |-> a.answers[n] + Cardinality(new(n))]
  BY DEF Transferred, Fields
<1>4. b.rollback.queries = p
  BY <1>3 DEF Rollback
<1>5. /\ DOMAIN p = 1 .. Len(q) /\ Len(p) = Len(q)
      /\ \A k \in 1 .. Len(q) :
            p[k].n = q[k].n /\ (p[k].told <=> q[k].told \/ k <= told)
  <2>1. DOMAIN p = 1 .. Len(q)
    BY <1>1 DEF Handed
  <2>2. Len(p) = Len(q)
    <3>1. p \in [1 .. Len(q) -> {p[k] : k \in 1 .. Len(q)}]
      BY <1>1 DEF Handed
    <3> DEFINE m == Len(q)
    <3> HIDE DEF p, q
    <3> QED  BY <1>1, <2>1, <3>1
  <2>3. ASSUME NEW k \in 1 .. Len(q)
        PROVE  p[k].n = q[k].n /\ (p[k].told <=> q[k].told \/ k <= told)
    <3>1. p[k] = [q[k] EXCEPT !.told = @ \/ k <= told] /\ q[k] \in Query
      BY <1>1 DEF Handed
    <3> HIDE DEF p, q
    <3> QED  BY <3>1 DEF Query
  <2> QED  BY <2>1, <2>2, <2>3
<1>6. \A j, k \in 1 .. Len(q) : q[j].n = q[k].n => j = k
  <2> SUFFICES ASSUME NEW j \in 1 .. Len(q), NEW k \in 1 .. Len(q), j # k
               PROVE  q[j].n # q[k].n
    OBVIOUS
  <2>1. q[j].n \in Nat /\ q[k].n \in Nat
    BY <1>1 DEF Query
  <2>2. j < k \/ k < j
    BY <1>1
  <2> QED  BY <1>2, <2>1, <2>2 DEF InLine
<1> HIDE DEF p, q
<1>7. \A k \in 1 .. told : k \in 1 .. Len(q)
  BY <1>1 DEF q
<1>8. ASSUME NEW n \in 1 .. MaxOutputs
      PROVE  /\ Cardinality(new(n)) \in {0, 1}
             /\ Cardinality(new(n)) # 0 =>
                  \E k \in 1 .. told : q[k].n = n /\ ~q[k].told
  <2>1. CASE new(n) = {}
    BY <2>1, FS_EmptySet
  <2>2. CASE new(n) # {}
    <3>1. PICK k \in 1 .. told : q[k] = [n |-> n, told |-> FALSE]
      BY <2>2
    <3>2. q[k].n = n /\ ~q[k].told
      BY <3>1
    <3>3. new(n) = {k}
      <4> SUFFICES ASSUME NEW j \in new(n) PROVE j = k
        BY <3>1
      <4>1. j \in 1 .. told /\ q[j].n = n
        OBVIOUS
      <4> QED  BY <1>6, <1>7, <3>2, <4>1
    <3> QED  BY <3>2, <3>3, FS_Singleton
  <2> QED  BY <2>1, <2>2
<1>9. ASSUME NEW n \in 1 .. MaxOutputs
      PROVE  /\ b.answers[n] \in {0, 1}
             /\ b.answers[n] # a.answers[n] =>
                   \E k \in 1 .. told : q[k].n = n /\ ~q[k].told
  <2>1. b.answers[n] = a.answers[n] + Cardinality(new(n)) /\ a.answers[n] \in {0, 1}
    BY <1>2, <1>3
  <2>2. ASSUME NEW k \in 1 .. told, q[k].n = n, ~q[k].told PROVE a.answers[n] = 0
    BY <1>2, <1>7, <2>2 DEF InLine
  <2> HIDE DEF new
  <2> QED  BY <1>8, <2>1, <2>2
<1> HIDE DEF new
<1>10. b.answers \in [1 .. MaxOutputs -> {0, 1}]
  <2>1. DOMAIN b.answers = 1 .. MaxOutputs /\ b.answers = [n \in 1 .. MaxOutputs |-> b.answers[n]]
    BY <1>2, <1>3
  <2> QED  BY <1>9, <2>1
<1>11. \A k \in 1 .. told : q[k].n \in 1 .. a.applied /\ (~q[k].told => q[k].n \notin a.effects)
  BY <1>2, <1>7 DEF InLine
<1>12. \A n \in b.effects : b.answers[n] = 0
  <2> SUFFICES ASSUME NEW n \in a.effects PROVE b.answers[n] = 0
    BY <1>3
  <2>1. n \in 1 .. MaxOutputs /\ a.answers[n] = 0
    BY <1>2
  <2> QED  BY <1>9, <1>11, <2>1
<1>13. \A n \in 1 .. MaxOutputs : n > a.applied => b.answers[n] = 0
  <2> SUFFICES ASSUME NEW n \in 1 .. MaxOutputs, n > a.applied PROVE b.answers[n] = 0
    OBVIOUS
  <2>1. a.answers[n] = 0
    BY <1>2
  <2>2. \A k \in 1 .. told : q[k].n # n
    BY <1>2, <1>11
  <2> QED  BY <1>9, <2>1, <2>2
<1>14. InLine(p, b, a.applied)
  <2>1. \A k \in 1 .. Len(p) : p[k].n \in 1 .. a.applied
    BY <1>2, <1>5 DEF InLine
  <2>2. ASSUME NEW k \in 1 .. Len(p), ~p[k].told
        PROVE  b.answers[p[k].n] = 0 /\ p[k].n \notin b.effects
    <3>1. k \in 1 .. Len(q) /\ ~q[k].told /\ ~(k <= told) /\ p[k].n = q[k].n
      BY <1>5, <2>2
    <3>2. a.answers[q[k].n] = 0 /\ q[k].n \notin a.effects /\ q[k].n \in 1 .. MaxOutputs
      BY <1>2, <3>1 DEF InLine
    <3>3. \A j \in 1 .. told : q[j].n # q[k].n
      BY <1>6, <1>7, <3>1
    <3>4. b.answers[q[k].n] = a.answers[q[k].n]
      BY <1>9, <3>2, <3>3
    <3> QED  BY <1>3, <3>1, <3>2, <3>4
  <2>3. ASSUME NEW j \in 1 .. Len(p), NEW k \in 1 .. Len(p), j < k
        PROVE  p[j].n < p[k].n /\ (p[k].told => p[j].told)
    <3>1. q[j].n < q[k].n /\ (q[k].told => q[j].told)
      BY <1>2, <1>5, <2>3 DEF InLine
    <3> QED  BY <1>1, <1>5, <2>3, <3>1
  <2> QED  BY <2>1, <2>2, <2>3 DEF InLine
<1>15. InLine(b.restarted, b, a.applied) /\ \A k \in 1 .. Len(b.restarted) : ~b.restarted[k].told
  BY <1>2, <1>3, EmptySeq DEF InLine
<1>16. b.owners \in Seq({"legacy", "server", "staged"}) /\ Len(b.owners) <= MaxOutputs
       /\ b.applied \in 0 .. Len(b.owners) /\ b.since \in 0 .. Len(b.owners)
       /\ b.applied - 0 = a.applied /\ b.effects \subseteq 1 .. a.applied
       /\ b.restarted = <<>> /\ b.mode # "server"
  BY <1>2, <1>3 DEF Accounted
<1> QED  BY <1>3, <1>4, <1>10, <1>12, <1>13, <1>14, <1>15, <1>16 DEF Accounted

LEMMA HearDrainAccount ==
    ASSUME Fit(au, browsers), Good(au, 0), NEW v \in Views, NEW told, HearDrain(v, told)
    PROVE  Accounted(au', 0)
<1> DEFINE d == browsers.drained[v]
<1> DEFINE r == au.rollback
<1> DEFINE b == [au EXCEPT !.rollback.locked = TRUE, !.rollback.drains = @ \union {v}]
<1> DEFINE c == Transferred(b, told)
<1> DEFINE enable == [kind |-> "enable", n |-> r.drained, epoch |-> d.epoch, by |-> {v},
                      to |-> r.selected]
<1> DEFINE back == [b EXCEPT !.rollback.drains = @ \ {v}]
<1> DEFINE failed == [Troubled(c) EXCEPT !.rollback.drains = @ \ {v}]
<1> DEFINE done == [c EXCEPT !.ccommit = d.epoch, !.admitted = TRUE,
                             !.chain = Append(@, enable)]
<1>1. Sound(au) /\ DOMAIN au = Fields /\ d \in Drain
  BY DEF Fit, Sound, Typed, BrowsersTyped, HearDrain
<1>2. CASE ~DrainFits(v, d)
  BY <1>2 DEF HearDrain, Good
<1>3. CASE DrainFits(v, d)
  <2>1. au.mode = "rolling-back" /\ r \in Rollback
    <3>1. d.epoch # 0
      BY <1>1 DEF Drain
    <3> HIDE DEF d
    <3>2. au.mode = "rolling-back" /\ r.epoch = d.epoch
      BY <1>3 DEF DrainFits
    <3> QED  BY <1>1, <3>1, <3>2, Waiting DEF Sound
  <2>2. Len(r.queries) <= MaxHeldChunks
    BY <1>1, <2>1 DEF Sound, Bounded, Rollback
  <2>3. /\ told \in 0 .. Len(r.queries)
        /\ \/ au' = b
           \/ au' = Invalidate(back, FALSE)
           \/ au' = Invalidate(failed, FALSE)
           \/ au' = done
    BY <1>3, <2>1, DrainHeard
  <2> HIDE DEF d
  <2>4. /\ Keeps(b, au, Free \cup {"rollback"}) /\ Keeps(b, au, Fields \ Account)
        /\ b.rollback = [r EXCEPT !.locked = TRUE, !.drains = @ \cup {v}]
        /\ b.mode = au.mode
    BY <1>1 DEF Keeps, Fields, Free, Account
  <2> HIDE DEF b
  <2>5. /\ b.rollback \in Rollback /\ b.rollback.pending = r.pending
        /\ b.rollback.queries = r.queries
    <3> DEFINE drains == r.drains \cup {v}
    <3>1. /\ b.rollback = [r EXCEPT !.locked = TRUE, !.drains = drains]
          /\ drains \in SUBSET Views
      BY <2>1, <2>4 DEF Rollback
    <3> HIDE DEF drains
    <3> QED  BY <2>1, <3>1, LockedSet
  <2>6. Good(b, 0) /\ DOMAIN b = Fields
    <3>1. Step(b, au)
      BY <1>1, <2>1, <2>2, <2>4, <2>5, NotedStep
    <3>2. r.epoch # 0
      BY <2>1 DEF Rollback
    <3> QED  BY <2>4, <2>5, <3>1, <3>2, GoodKept, GoodFields
  <2>7. ASSUME NEW x, Good(x, 0), x.rollback \in Rollback, NEW y,
               Keeps(y, x, (Free \ Account) \cup {"rollback"}),
               y.rollback = [x.rollback EXCEPT !.drains = @ \ {v}]
        PROVE  Good(Invalidate(y, FALSE), 0)
    <3>1. Keeps(y, x, Free \cup {"rollback"}) /\ Keeps(y, x, Fields \ Account)
      BY <2>7 DEF Keeps, Fields, Free, Account
    <3>2. Step(y, x) /\ y.rollback.epoch # 0
      BY <2>7, <3>1, DrainsStep DEF Good
    <3>3. x.rollback.epoch # 0 /\ y.rollback.queries = x.rollback.queries
      BY <2>7 DEF Rollback
    <3>4. Good(y, 0)
      BY <2>7, <3>1, <3>2, <3>3, GoodKept
    <3> QED  BY <3>2, <3>4, InvalidateGood
  <2>8. Good(Invalidate(back, FALSE), 0)
    <3>1. /\ Keeps(back, b, (Free \ Account) \cup {"rollback"})
          /\ back.rollback = [b.rollback EXCEPT !.drains = @ \ {v}]
      BY <2>6 DEF Keeps, Fields, Free, Account
    <3> HIDE DEF back
    <3> QED  BY <2>5, <2>6, <2>7, <3>1
  <2>9. Good(c, 0) /\ DOMAIN c = Fields /\ c.rollback \in Rollback
    <3>1. Sound(c) /\ DOMAIN c = Fields /\ c.rollback \in Rollback
      BY <2>2, <2>5, <2>6, HandedStep DEF Good
    <3>2. Accounted(c, 0)
      BY <2>1, <2>3, <2>4, <2>5, <2>6, TransferredAccount DEF Good
    <3> QED  BY <3>1, <3>2 DEF Good
  <2> HIDE DEF c
  <2>10. Good(Invalidate(failed, FALSE), 0)
    <3>1. /\ Keeps(failed, c, (Free \ Account) \cup {"rollback"})
          /\ failed.rollback = [c.rollback EXCEPT !.drains = @ \ {v}]
      BY <2>9 DEF Troubled, Keeps, Fields, Free, Account
    <3> HIDE DEF failed
    <3> QED  BY <2>7, <2>9, <3>1
  <2>11. Accounted(done, 0)
    <3>1. /\ Keeps(done, c, Fields \ Account) /\ done.mode = c.mode
          /\ done.rollback = c.rollback
      BY <2>9 DEF Keeps, Fields, Account
    <3> HIDE DEF done
    <3> QED  BY <2>9, <3>1, AccountKept DEF Good
  <2> HIDE DEF back, failed, done
  <2> QED  BY <2>3, <2>6, <2>8, <2>10, <2>11 DEF Good
<1> QED  BY <1>2, <1>3

LEMMA InitAccount == AuthorityInit => Accounted(au, 0)
<1> SUFFICES ASSUME AuthorityInit PROVE Accounted(au, 0)
  OBVIOUS
<1>1. /\ au.owners = <<>> /\ au.applied = 0 /\ au.since = 0 /\ au.effects = {}
      /\ au.restarted = <<>> /\ au.rollback = NoRollback /\ au.mode = "legacy"
      /\ au.answers = [n \in 1 .. MaxOutputs |-> 0]
  BY DEF AuthorityInit
<1>2. <<>> \in Seq({"legacy", "server", "staged"}) /\ Len(<<>>) = 0
  BY EmptySeq
<1>3. /\ au.answers \in [1 .. MaxOutputs -> {0, 1}] /\ MaxOutputs \in Nat
      /\ \A n \in 1 .. MaxOutputs : au.answers[n] = 0
  BY <1>1, AuthorityAssumption
<1>4. InLine(au.restarted, au, au.applied - 0)
  BY <1>1, <1>2 DEF InLine
<1> QED  BY <1>1, <1>2, <1>3, <1>4 DEF Accounted, NoRollback

LEMMA StepAccount ==
    ASSUME Fit(au, browsers), Accounted(au, 0), [AuthorityNext]_authorityVars
    PROVE  Accounted(au', 0)
<1>1. Good(au, 0) /\ browsers.attached \in SUBSET Views
  BY DEF Fit, Good, BrowsersTyped
<1>2. CASE EnterPromotion
  BY <1>1, <1>2, EnterAccount
<1>3. CASE DropFrame
  BY <1>1, <1>3, DropFrameAccount
<1>4. ASSUME NEW missed, SendFrame(missed) PROVE Accounted(au', 0)
  BY <1>1, <1>4, SendFrameAccount
<1>5. CASE ServerGoesOn
  BY <1>1, <1>5, ApplyAccount, FrameSettlesAccount, RunRecoveryAccount,
     TopologyTimerAccount, ReceiptAccount DEF ServerGoesOn
<1>6. ASSUME NEW v \in Views, ViewAnswers(v) PROVE Accounted(au', 0)
  <2>1. CASE SayDrained(v)
    BY <2>1 DEF SayDrained
  <2> QED  BY <1>1, <1>6, <2>1, HearDisableAccount, HearDrainAccount DEF ViewAnswers
<1>7. CASE Trouble
  BY <1>1, <1>7, EnqueueAccount, StartAccount, DeadlineAccount, RollBackAccount,
     RefuseScreenAccount, ViewLeavesAccount, ReceiptAccount DEF Trouble
<1>8. CASE UNCHANGED authorityVars
  BY <1>8 DEF authorityVars
<1> QED  BY <1>2, <1>3, <1>4, <1>5, <1>6, <1>7, <1>8 DEF AuthorityNext

\* However promotions, rollbacks and receipts overlap, the query of an output is in at most
\* one place: answered, staged for the server, or in a line that waits for a browser.  A line
\* is in the order of the outputs, with the queries that were told in front.
THEOREM AnswersAccounted == AuthoritySpec => []Accounted(au, 0)
<1>1. AuthorityInit => Accounted(au, 0)
  BY InitAccount
<1>2. Fit(au, browsers) /\ Accounted(au, 0) /\ [AuthorityNext]_authorityVars
         => Accounted(au, 0)'
  BY StepAccount
<1> QED  BY <1>1, <1>2, AlwaysFit, PTL DEF AuthoritySpec

\* MIG-BGSTAB-002 AC-3: the server writes at most one reply to a query, and while it is the
\* authority the queries of all the outputs that arrived since it took over have theirs, even
\* when receipts of earlier promotions come late.
THEOREM AnsweredOnceHolds == AuthoritySpec => []AnsweredOnce
<1>1. Accounted(au, 0) => AnsweredOnce
  <2> SUFFICES ASSUME Accounted(au, 0), NEW n \in DOMAIN au.owners
               PROVE  /\ au.answers[n] <= 1
                      /\ au.mode = "server" /\ au.since < n /\ n <= au.applied
                            => au.answers[n] = 1
    BY DEF AnsweredOnce
  <2>1. /\ DOMAIN au.owners = 1 .. Len(au.owners) /\ Len(au.owners) \in Nat
        /\ Len(au.owners) <= MaxOutputs /\ MaxOutputs \in Nat
    BY LenProperties, AuthorityAssumption DEF Accounted
  <2>2. n \in 1 .. MaxOutputs /\ n \in 1 .. Len(au.owners)
    BY <2>1
  <2>3. au.applied \in Nat /\ au.since \in Nat /\ au.applied - 0 = au.applied
    BY <2>1 DEF Accounted
  <2>4. au.answers[n] \in {0, 1}
    BY <2>2 DEF Accounted
  <2>5. au.mode = "server" /\ n > au.since => (n <= au.applied => au.answers[n] = 1)
    BY <2>2, <2>3 DEF Accounted
  <2> QED  BY <2>2, <2>3, <2>4, <2>5
<1> QED  BY <1>1, AnswersAccounted, PTL
=============================================================================
