------------------------ MODULE TerminalInputProofs ------------------------
(***************************************************************************)
(* Proofs about TerminalInput, for every value of the constants: no input  *)
(* is lost without a word, what the ledger let through is written once on  *)
(* its path, what it refuses was sent before (InputsAddUp); what arrives   *)
(* is written in the order of typing (TypedOrder); and nothing is written  *)
(* onto a screen known to be stale (ActsOnSeenScreen).                     *)
(*                                                                         *)
(* The invariant is about one client at a time.  At its centre is what     *)
(* stands between the client and the PTY: all that was sent on this        *)
(* connection has met its fate, waits behind the fence or is under way     *)
(* (NoneLost), each of the two in the order of typing and the first before *)
(* the second (InLine).  The order of what is written follows, and also    *)
(* why a retry the watermark of the ledger refuses is a retry: whatever    *)
(* arrives, what could be sent again before it has arrived before (NoGap). *)
(***************************************************************************)
EXTENDS TerminalInput, InputLedgerEntryProofs, SequenceTheorems

\* The parts of the invariant, for one client: s its socket, ch its channel, m its
\* connection record, q the inputs behind its fence, e its ledger entry, cl what it has
\* typed and sent, r how often each input was received, lg its log.
QueueOf(m) == IF m.replayPending # NoPending THEN m.replayPending.inputs ELSE <<>>

Told(lg, o) == \E k \in DOMAIN lg : lg[k].op = o
Waits(q, o) == \E i \in DOMAIN q : q[i] = o
UnderWay(ch, o) == \E p \in DOMAIN ch : ch[p].type = "input" /\ ch[p].op = o

\* What waits and what is under way is in the order of typing, and of this connection.
InLine(ch, q, cl) ==
    /\ cl.base <= cl.cursor
    /\ cl.cursor <= cl.next
    /\ \A i, k \in DOMAIN q : i < k => q[i] < q[k]
    /\ \A i \in DOMAIN q : cl.base <= q[i] /\ q[i] < cl.cursor
    /\ \A p \in DOMAIN ch : ch[p].type = "input" =>
          /\ cl.base <= ch[p].op
          /\ ch[p].op < cl.cursor
          /\ \A i \in DOMAIN q : q[i] < ch[p].op
    /\ \A p, k \in DOMAIN ch : p < k /\ ch[p].type = "input" /\ ch[k].type = "input" =>
          ch[p].op < ch[k].op

\* What was sent on this connection has met its fate, waits, or is under way.
NoneLost(s, ch, q, lg, cl) ==
    s # "closed" =>
        \A o \in Operations : cl.base <= o /\ o < cl.cursor =>
            Told(lg, o) \/ Waits(q, o) \/ UnderWay(ch, o)

\* When an input was written, each input before it had met its fate, or was lost on an
\* earlier connection and is not sent again.
WrittenInOrder(lg, cl) ==
    \A i \in DOMAIN lg : lg[i].fate \in Written =>
        \A o \in Operations : o < lg[i].op =>
            \/ \E k \in 1 .. i - 1 : lg[k].op = o
            \/ o < cl.base /\ ~Told(lg, o)

\* How often an operation occurs in a sequence of them.
Count(sq, o) == Cardinality({i \in DOMAIN sq : sq[i] = o})
Ops(lg) == [i \in DOMAIN lg |-> lg[i].op]

\* What was received has met its fate or waits, each time it was received.
Adds(q, lg, r) == \A o \in Operations : r[o] = Count(Ops(lg), o) + Count(q, o)

\* Whatever arrived, what the client could send again before it had arrived too.
NoGap(r, cl) ==
    \A o, p \in Operations : cl.base <= o /\ o < p /\ r[p] >= 1 => r[o] >= 1

Orderly(s, ch, q, lg, cl, r) ==
    /\ InLine(ch, q, cl)
    /\ NoneLost(s, ch, q, lg, cl)
    /\ WrittenInOrder(lg, cl)
    /\ Adds(q, lg, r)
    /\ NoGap(r, cl)

\* The fence is of the last snapshot that was asked for, and an acknowledgement under way
\* is of a snapshot that is acknowledged once.
FenceFits(s, ch, m) ==
    /\ m.replayPending # NoPending => m.replayPending.token = m.tokens
    /\ m.replayPending # NoPending \/ m.screenRepair => m.subscribed
    /\ s = "closed" => ch = <<>> /\ m = NewMeta
    /\ m.snapshots \subseteq 1 .. m.tokens
    /\ \A p \in DOMAIN ch : ch[p].type = "snapshot:ready" =>
          ch[p].token <= m.tokens /\ ch[p].token \notin m.snapshots

\* The ledger refuses only what was received before, and its path writes once.
AnswersFit(keeps, lg, r) ==
    /\ \A i \in DOMAIN lg : lg[i].fate \in LedgerReasons => r[lg[i].op] >= 2
    /\ keeps => \A i, k \in DOMAIN lg :
          i # k /\ lg[i].op = lg[k].op => ~(lg[i].fate = "written" /\ lg[k].fate = "written")

\* What the ledger let through was received, and what was written it has let through.
Passed(keeps, w, lg, r) ==
    /\ \A o \in Operations : w[o] >= 1 => r[o] >= 1
    /\ keeps => \A i \in DOMAIN lg : lg[i].fate = "written" => w[lg[i].op] >= 1

\* While the session lives the entry accounts for all of that.
LedgerFits(alive, keeps, e, lg, r) ==
    /\ AnswersFit(keeps, lg, r)
    /\ alive => \E w \in [Operations -> Nat] : EntryInv(e, w) /\ Passed(keeps, w, lg, r)

Fits(c) ==
    /\ Orderly(socket[c], channel[c], QueueOf(meta[c]), log[c], client[c], received[c])
    /\ FenceFits(socket[c], channel[c], meta[c])
    /\ LedgerFits(live, c \notin Legacy, ledger[c], log[c], received[c])

IInv == TypeOK /\ \A c \in Clients : Fits(c)

-----------------------------------------------------------------------------
\* Operations are numbers, and each is in its place in the one sequence.
LEMMA OperationFacts ==
    /\ \A o \in Operations : o \in Nat /\ o >= 1 /\ Sequence[o].start = o
    /\ Sequenced = Operations
    /\ MaxStart \in Nat
BY InputAssumption, EntryAssumption

\* How often an operation occurs is a number.
LEMMA CountType ==
    ASSUME NEW sq \in Seq(Operations), NEW o
    PROVE  /\ IsFiniteSet({i \in DOMAIN sq : sq[i] = o})
           /\ Count(sq, o) \in Nat
           /\ Count(sq, o) >= 1 <=> Waits(sq, o)
<1> DEFINE P == {i \in DOMAIN sq : sq[i] = o}
<1>1. IsFiniteSet(1 .. Len(sq))
  BY FS_Interval
<1>2. P \in SUBSET (1 .. Len(sq))
  OBVIOUS
<1>3. IsFiniteSet(P)
  BY <1>1, <1>2, FS_Subset
<1>4. Waits(sq, o) <=> P # {}
  BY DEF Waits
<1>5. Cardinality(P) \in Nat /\ (Cardinality(P) = 0 <=> P = {})
  <2> HIDE DEF P
  <2> QED  BY <1>3, FS_CardinalityType, FS_EmptySet
<1> QED  BY <1>3, <1>4, <1>5 DEF Count

\* A set of numbers that is moved up is as large.
LEMMA MovedUp ==
    ASSUME NEW P, P \subseteq Nat, IsFiniteSet(P), NEW n \in Nat
    PROVE  /\ IsFiniteSet({n + i : i \in P})
           /\ Cardinality({n + i : i \in P}) = Cardinality(P)
<1> DEFINE T == {n + i : i \in P}
           f == [i \in P |-> n + i]
<1>1. f \in [P -> T]
  OBVIOUS
<1>2. \A i, k \in P : f[i] = f[k] => i = k
  OBVIOUS
<1>3. \A t \in T : \E i \in P : f[i] = t
  OBVIOUS
<1>4. f \in Bijection(P, T)
  <2> HIDE DEF f, T
  <2> QED  BY <1>1, <1>2, <1>3 DEF Bijection, Injection, Surjection, IsInjective
<1>5. ExistsBijection(P, T)
  BY <1>4 DEF ExistsBijection
<1> HIDE DEF T
<1>6. IsFiniteSet(T) /\ Cardinality(T) = Cardinality(P)
  BY <1>5, FS_Bijection
<1> QED  BY <1>6 DEF T

\* What one sequence counts after another adds up.
LEMMA CountConcat ==
    ASSUME NEW sq \in Seq(Operations), NEW t \in Seq(Operations), NEW o
    PROVE  Count(sq \o t, o) = Count(sq, o) + Count(t, o)
<1> DEFINE P == {i \in DOMAIN sq : sq[i] = o}
           R == {i \in DOMAIN t : t[i] = o}
           U == {Len(sq) + i : i \in R}
<1>1. IsFiniteSet(P) /\ IsFiniteSet(R)
  BY CountType
<1>2. R \subseteq Nat /\ Len(sq) \in Nat
  OBVIOUS
<1>3. IsFiniteSet(U) /\ Cardinality(U) = Cardinality(R)
  <2> HIDE DEF R
  <2> QED  BY <1>1, <1>2, MovedUp
<1>4. {i \in DOMAIN (sq \o t) : (sq \o t)[i] = o} = P \cup U
  <2>1. ASSUME NEW i \in DOMAIN (sq \o t), (sq \o t)[i] = o
        PROVE  i \in P \cup U
    <3>1. CASE i <= Len(sq)
      BY <2>1, <3>1
    <3>2. CASE ~(i <= Len(sq))
      <4>1. i - Len(sq) \in DOMAIN t /\ (sq \o t)[i] = t[i - Len(sq)]
        BY <2>1, <3>2
      <4>2. i - Len(sq) \in R /\ i = Len(sq) + (i - Len(sq))
        BY <2>1, <4>1
      <4> QED  BY <4>2
    <3> QED  BY <3>1, <3>2
  <2>2. ASSUME NEW i \in P
        PROVE  i \in DOMAIN (sq \o t) /\ (sq \o t)[i] = o
    OBVIOUS
  <2>3. ASSUME NEW i \in R
        PROVE  Len(sq) + i \in DOMAIN (sq \o t) /\ (sq \o t)[Len(sq) + i] = o
    OBVIOUS
  <2> QED  BY <2>1, <2>2, <2>3
<1>5. P \cap U = {}
  OBVIOUS
<1>6. Cardinality({}) = 0
  BY FS_EmptySet
<1>7. Cardinality(P \cup U) = Cardinality(P) + Cardinality(U)
  <2>1. Cardinality(P \cup U) = Cardinality(P) + Cardinality(U) - Cardinality(P \cap U)
    <3> HIDE DEF P, U
    <3> QED  BY <1>1, <1>3, FS_Union
  <2>2. Cardinality(P) \in Nat /\ Cardinality(U) \in Nat
    <3> HIDE DEF P, U
    <3> QED  BY <1>1, <1>3, FS_CardinalityType
  <2>3. Cardinality(P \cap U) = 0
    BY <1>5, <1>6
  <2> HIDE DEF P, U
  <2> QED  BY <2>1, <2>2, <2>3
<1> QED  BY <1>3, <1>4, <1>7 DEF Count

\* The empty sequence and the sequence of one.
LEMMA CountFew ==
    ASSUME NEW o \in Operations, NEW p \in Operations
    PROVE  /\ Count(<<>>, o) = 0
           /\ Count(<<p>>, o) = IF p = o THEN 1 ELSE 0
<1>1. {i \in DOMAIN <<>> : <<>>[i] = o} = {}
  OBVIOUS
<1>2. {i \in DOMAIN <<p>> : <<p>>[i] = o} = IF p = o THEN {1} ELSE {}
  OBVIOUS
<1>3. Cardinality({}) = 0 /\ Cardinality({1}) = 1
  BY FS_EmptySet, FS_Singleton
<1> QED  BY <1>1, <1>2, <1>3 DEF Count

\* The operations of a log.
LEMMA OpsFacts ==
    ASSUME NEW lg \in Seq(Settled)
    PROVE  /\ Ops(lg) \in Seq(Operations)
           /\ Len(Ops(lg)) = Len(lg)
           /\ \A i \in 1 .. Len(lg) : Ops(lg)[i] = lg[i].op /\ lg[i].op \in Operations
           /\ \A o : Waits(Ops(lg), o) <=> Told(lg, o)
<1>1. DOMAIN lg = 1 .. Len(lg) /\ Len(lg) \in Nat
  OBVIOUS
<1>2. ASSUME NEW i \in 1 .. Len(lg) PROVE lg[i].op \in Operations
  <2>1. lg[i] \in Settled
    BY <1>1
  <2> QED  BY <2>1 DEF Settled
<1>3. Ops(lg) = [i \in 1 .. Len(lg) |-> lg[i].op]
  BY <1>1 DEF Ops
<1>4. Ops(lg) \in Seq(Operations) /\ Len(Ops(lg)) = Len(lg)
  BY <1>1, <1>2, <1>3
<1> QED  BY <1>1, <1>2, <1>3, <1>4 DEF Waits, Told

\* The operations of a log that goes on.
LEMMA OpsConcat ==
    ASSUME NEW lg \in Seq(Settled), NEW F \in Seq(Settled)
    PROVE  Ops(lg \o F) = Ops(lg) \o Ops(F)
<1>1. lg \o F \in Seq(Settled) /\ Len(lg \o F) = Len(lg) + Len(F)
  OBVIOUS
<1>2. /\ Ops(lg) \in Seq(Operations) /\ Len(Ops(lg)) = Len(lg)
      /\ Ops(F) \in Seq(Operations) /\ Len(Ops(F)) = Len(F)
      /\ Ops(lg \o F) \in Seq(Operations) /\ Len(Ops(lg \o F)) = Len(lg) + Len(F)
  BY <1>1, OpsFacts
<1>3. ASSUME NEW i \in 1 .. Len(lg) + Len(F)
      PROVE  Ops(lg \o F)[i] = (Ops(lg) \o Ops(F))[i]
  <2>1. Ops(lg \o F)[i] = (lg \o F)[i].op
    BY <1>1, OpsFacts
  <2>2. CASE i <= Len(lg)
    <3>1. (lg \o F)[i] = lg[i] /\ (Ops(lg) \o Ops(F))[i] = Ops(lg)[i]
      BY <1>2, <2>2
    <3>2. Ops(lg)[i] = lg[i].op
      BY <2>2, OpsFacts
    <3> QED  BY <2>1, <3>1, <3>2
  <2>3. CASE ~(i <= Len(lg))
    <3>1. (lg \o F)[i] = F[i - Len(lg)] /\ (Ops(lg) \o Ops(F))[i] = Ops(F)[i - Len(lg)]
      BY <1>2, <2>3
    <3>2. i - Len(lg) \in 1 .. Len(F)
      BY <2>3
    <3>3. Ops(F)[i - Len(lg)] = F[i - Len(lg)].op
      BY <3>2, OpsFacts
    <3> QED  BY <2>1, <3>1, <3>3
  <2> QED  BY <2>2, <2>3
<1> DEFINE a == Ops(lg)
           b == Ops(F)
           d == Ops(lg \o F)
<1> HIDE DEF a, b, d
<1>4. /\ a \in Seq(Operations) /\ Len(a) = Len(lg)
      /\ b \in Seq(Operations) /\ Len(b) = Len(F)
      /\ d \in Seq(Operations) /\ Len(d) = Len(lg) + Len(F)
  BY <1>2 DEF a, b, d
<1>5. a \o b \in Seq(Operations) /\ Len(a \o b) = Len(lg) + Len(F)
  <2>1. a \in Seq(Operations) /\ b \in Seq(Operations)
    BY <1>4
  <2>2. a \o b \in Seq(Operations) /\ Len(a \o b) = Len(a) + Len(b)
    BY <2>1, ConcatProperties
  <2> QED  BY <1>4, <2>2
<1>6. \A i \in 1 .. Len(lg) + Len(F) : d[i] = (a \o b)[i]
  BY <1>3 DEF a, b, d
<1> DEFINE ab == a \o b
<1> HIDE DEF ab
<1>7. /\ d \in Seq(Operations) /\ ab \in Seq(Operations)
      /\ Len(d) = Len(ab)
      /\ \A i \in 1 .. Len(d) : d[i] = ab[i]
  BY <1>4, <1>5, <1>6 DEF ab
<1>8. d = ab
  BY <1>7, SeqEqual
<1> QED  BY <1>8 DEF a, b, d, ab

-----------------------------------------------------------------------------
\* The parts have their types.
Here(s, ch, q, lg, cl, r) ==
    /\ s \in SocketState
    /\ ch \in Seq(Message)
    /\ q \in Seq(Operations)
    /\ lg \in Seq(Settled)
    /\ cl \in Typed
    /\ r \in [Operations -> Nat]

\* A client's positions are numbers.
LEMMA TypedFacts ==
    ASSUME NEW cl \in Typed
    PROVE  /\ cl.next \in Nat /\ cl.base \in Nat /\ cl.cursor \in Nat
           /\ cl.next >= 1 /\ cl.base >= 1 /\ cl.cursor >= 1
           /\ cl.next <= MaxStart + 1
BY OperationFacts DEF Typed

\* What the messages under way carry.
LEMMA MessageFacts ==
    ASSUME NEW ch \in Seq(Message), NEW p \in DOMAIN ch
    PROVE  /\ ch[p] \in Message
           /\ ch[p].type = "input" => ch[p].op \in Operations
           /\ ch[p].type \in {"snapshot:ready", "repair-replay"} => ch[p].token \in 0 .. MaxTokens
<1>1. ch[p] \in Message
  OBVIOUS
<1> QED  BY <1>1 DEF Message

\* An operation that is accounted for was received.
LEMMA ToldWasReceived ==
    ASSUME NEW q \in Seq(Operations), NEW lg \in Seq(Settled), NEW r \in [Operations -> Nat],
           Adds(q, lg, r), NEW o \in Operations
    PROVE  r[o] >= 1 <=> Told(lg, o) \/ Waits(q, o)
<1>1. r[o] = Count(Ops(lg), o) + Count(q, o)
  BY DEF Adds
<1>2. Count(Ops(lg), o) \in Nat /\ (Count(Ops(lg), o) >= 1 <=> Told(lg, o))
  BY OpsFacts, CountType
<1>3. Count(q, o) \in Nat /\ (Count(q, o) >= 1 <=> Waits(q, o))
  BY CountType
<1> QED  BY <1>1, <1>2, <1>3

\* A log that goes on.
LEMMA LogGoesOn ==
    ASSUME NEW lg \in Seq(Settled), NEW F \in Seq(Settled)
    PROVE  /\ lg \o F \in Seq(Settled)
           /\ DOMAIN (lg \o F) = 1 .. Len(lg) + Len(F)
           /\ DOMAIN lg = 1 .. Len(lg) /\ DOMAIN F = 1 .. Len(F)
           /\ Len(lg) \in Nat /\ Len(F) \in Nat
           /\ \A i \in 1 .. Len(lg) : (lg \o F)[i] = lg[i]
           /\ \A j \in 1 .. Len(F) : (lg \o F)[Len(lg) + j] = F[j]
           /\ \A i \in DOMAIN (lg \o F) :
                 i \in 1 .. Len(lg) \/ \E j \in 1 .. Len(F) : i = Len(lg) + j
           /\ \A o : Told(lg \o F, o) <=> Told(lg, o) \/ Told(F, o)
<1>1. /\ lg \o F \in Seq(Settled)
      /\ Len(lg \o F) = Len(lg) + Len(F)
      /\ DOMAIN (lg \o F) = 1 .. Len(lg) + Len(F)
      /\ DOMAIN lg = 1 .. Len(lg) /\ DOMAIN F = 1 .. Len(F)
      /\ Len(lg) \in Nat /\ Len(F) \in Nat
  OBVIOUS
<1>2. \A i \in 1 .. Len(lg) : (lg \o F)[i] = lg[i]
  OBVIOUS
<1>3. \A j \in 1 .. Len(F) : (lg \o F)[Len(lg) + j] = F[j] /\ Len(lg) + j \in DOMAIN (lg \o F)
  OBVIOUS
<1>4. ASSUME NEW i \in DOMAIN (lg \o F)
      PROVE  i \in 1 .. Len(lg) \/ \E j \in 1 .. Len(F) : i = Len(lg) + j
  <2>1. CASE ~(i <= Len(lg))
    <3>1. i - Len(lg) \in 1 .. Len(F) /\ i = Len(lg) + (i - Len(lg))
      BY <1>1, <2>1
    <3> QED  BY <3>1
  <2> QED  BY <1>1, <2>1
<1>5. ASSUME NEW o
      PROVE  Told(lg \o F, o) <=> Told(lg, o) \/ Told(F, o)
  <2>1. Told(lg, o) => Told(lg \o F, o)
    BY <1>1, <1>2 DEF Told
  <2>2. Told(F, o) => Told(lg \o F, o)
    BY <1>1, <1>3 DEF Told
  <2>3. ASSUME NEW i \in DOMAIN (lg \o F), (lg \o F)[i].op = o
        PROVE  Told(lg, o) \/ Told(F, o)
    BY <1>1, <1>2, <1>3, <1>4, <2>3 DEF Told
  <2> QED  BY <2>1, <2>2, <2>3 DEF Told
<1> QED  BY <1>1, <1>2, <1>3, <1>4, <1>5

\* The order of what is written, when the log goes on with inputs of this connection.
LEMMA WrittenGoesOn ==
    ASSUME NEW lg \in Seq(Settled), NEW F \in Seq(Settled), NEW cl \in Typed,
           WrittenInOrder(lg, cl),
           \A j \in DOMAIN F : F[j].op >= cl.base,
           \A j \in DOMAIN F : F[j].fate \in Written =>
               \A o \in Operations : o < F[j].op =>
                   Told(lg, o) \/ (\E k \in 1 .. j - 1 : F[k].op = o) \/ o < cl.base
    PROVE  WrittenInOrder(lg \o F, cl)
<1> SUFFICES ASSUME NEW i \in DOMAIN (lg \o F), (lg \o F)[i].fate \in Written,
                    NEW o \in Operations, o < (lg \o F)[i].op
             PROVE  \/ \E k \in 1 .. i - 1 : (lg \o F)[k].op = o
                    \/ o < cl.base /\ ~Told(lg \o F, o)
  BY DEF WrittenInOrder
<1>1. o < cl.base => ~Told(F, o)
  <2>1. \A j \in DOMAIN F : F[j] \in Settled
    OBVIOUS
  <2>2. \A j \in DOMAIN F : F[j].op \in Operations
    BY <2>1 DEF Settled
  <2>3. o \in Nat /\ cl.base \in Nat
    BY OperationFacts, TypedFacts
  <2>4. \A j \in DOMAIN F : F[j].op \in Nat
    BY <2>2, OperationFacts
  <2> QED  BY <2>3, <2>4 DEF Told
<1>2. Told(lg \o F, o) <=> Told(lg, o) \/ Told(F, o)
  BY LogGoesOn
<1>3. CASE i \in 1 .. Len(lg)
  <2>1. (lg \o F)[i] = lg[i] /\ i \in DOMAIN lg
    BY <1>3, LogGoesOn
  <2>2. CASE \E k \in 1 .. i - 1 : lg[k].op = o
    <3>1. \A k \in 1 .. i - 1 : (lg \o F)[k] = lg[k]
      BY <1>3, LogGoesOn
    <3> QED  BY <2>2, <3>1
  <2>3. CASE o < cl.base /\ ~Told(lg, o)
    BY <1>1, <1>2, <2>3
  <2> QED  BY <2>1, <2>2, <2>3 DEF WrittenInOrder
<1>4. CASE \E j \in 1 .. Len(F) : i = Len(lg) + j
  <2>1. PICK j \in 1 .. Len(F) : i = Len(lg) + j
    BY <1>4
  <2>2. (lg \o F)[i] = F[j] /\ j \in DOMAIN F
    BY <2>1, LogGoesOn
  <2>3. CASE Told(lg, o)
    <3>1. PICK k \in DOMAIN lg : lg[k].op = o
      BY <2>3 DEF Told
    <3>2. (lg \o F)[k] = lg[k] /\ k \in 1 .. i - 1
      BY <2>1, LogGoesOn
    <3> QED  BY <3>1, <3>2
  <2>4. CASE \E k \in 1 .. j - 1 : F[k].op = o
    <3>1. PICK k \in 1 .. j - 1 : F[k].op = o
      BY <2>4
    <3>2. (lg \o F)[Len(lg) + k] = F[k] /\ Len(lg) + k \in 1 .. i - 1
      BY <2>1, LogGoesOn
    <3> QED  BY <3>1, <3>2
  <2>5. CASE o < cl.base
    BY <1>1, <1>2, <2>3, <2>5
  <2> QED  BY <2>2, <2>3, <2>4, <2>5
<1> QED  BY <1>3, <1>4, LogGoesOn

\* The counts, when what waited is settled.
LEMMA AddsGoOn ==
    ASSUME NEW q \in Seq(Operations), NEW lg \in Seq(Settled), NEW F \in Seq(Settled),
           NEW r \in [Operations -> Nat],
           Adds(q, lg, r), Ops(F) = q
    PROVE  Adds(<<>>, lg \o F, r)
<1> SUFFICES ASSUME NEW o \in Operations
             PROVE  r[o] = Count(Ops(lg \o F), o) + Count(<<>>, o)
  BY DEF Adds
<1>1. r[o] = Count(Ops(lg), o) + Count(q, o)
  BY DEF Adds
<1>2. Ops(lg) \in Seq(Operations)
  BY OpsFacts
<1>3. Count(Ops(lg) \o q, o) = Count(Ops(lg), o) + Count(q, o)
  BY <1>2, CountConcat
<1>4. Ops(lg \o F) = Ops(lg) \o q
  BY OpsConcat
<1>5. Count(<<>>, o) = 0
  BY CountFew
<1>6. Count(Ops(lg), o) \in Nat /\ Count(q, o) \in Nat
  BY <1>2, CountType
<1> QED  BY <1>1, <1>3, <1>4, <1>5, <1>6

-----------------------------------------------------------------------------
(* What keeps the inputs of a client in order.                               *)

\* Where the inputs under way are, in numbers.
LEMMA LineFacts ==
    ASSUME NEW ch \in Seq(Message), NEW q \in Seq(Operations), NEW cl \in Typed
    PROVE  /\ \A i \in DOMAIN q : q[i] \in Operations /\ q[i] \in Nat
           /\ \A p \in DOMAIN ch : ch[p].type = "input" =>
                 ch[p].op \in Operations /\ ch[p].op \in Nat
           /\ DOMAIN ch = 1 .. Len(ch) /\ Len(ch) \in Nat
           /\ DOMAIN q = 1 .. Len(q) /\ Len(q) \in Nat
<1>1. \A i \in DOMAIN q : q[i] \in Operations
  OBVIOUS
<1>2. \A p \in DOMAIN ch : ch[p].type = "input" => ch[p].op \in Operations
  BY MessageFacts
<1> QED  BY <1>1, <1>2, OperationFacts, LenProperties

\* What waited is settled, in its order, each with some fate.
LEMMA Drained ==
    ASSUME NEW s, NEW ch, NEW q, NEW lg, NEW cl, NEW r,
           Here(s, ch, q, lg, cl, r), Orderly(s, ch, q, lg, cl, r), s # "closed",
           NEW F \in Seq(Settled), Ops(F) = q
    PROVE  Orderly(s, ch, <<>>, lg \o F, cl, r)
<1>1. /\ s \in SocketState /\ ch \in Seq(Message) /\ q \in Seq(Operations)
      /\ lg \in Seq(Settled) /\ cl \in Typed /\ r \in [Operations -> Nat]
  BY DEF Here
<1>2. /\ InLine(ch, q, cl) /\ NoneLost(s, ch, q, lg, cl) /\ WrittenInOrder(lg, cl)
      /\ Adds(q, lg, r) /\ NoGap(r, cl)
  BY DEF Orderly
<1>3. DOMAIN F = DOMAIN q /\ \A j \in DOMAIN F : F[j].op = q[j]
  BY DEF Ops
<1>4. /\ \A j \in DOMAIN q : q[j] \in Operations /\ q[j] \in Nat
      /\ \A p \in DOMAIN ch : ch[p].type = "input" =>
            ch[p].op \in Operations /\ ch[p].op \in Nat
      /\ DOMAIN q = 1 .. Len(q) /\ Len(q) \in Nat
  BY <1>1, LineFacts
<1>5. cl.base \in Nat /\ cl.cursor \in Nat
  BY <1>1, TypedFacts
<1>6. InLine(ch, <<>>, cl)
  BY <1>2 DEF InLine
<1>7. \A o : Told(lg \o F, o) <=> Told(lg, o) \/ Waits(q, o)
  <2>1. \A o : Told(F, o) <=> Waits(q, o)
    BY <1>3 DEF Told, Waits
  <2> QED  BY <1>1, <2>1, LogGoesOn
<1>8. NoneLost(s, ch, <<>>, lg \o F, cl)
  BY <1>2, <1>7 DEF NoneLost
<1>9. WrittenInOrder(lg \o F, cl)
  <2>1. \A j \in DOMAIN F : F[j].op >= cl.base
    BY <1>2, <1>3, <1>4, <1>5 DEF InLine
  <2>2. ASSUME NEW j \in DOMAIN F, NEW o \in Operations, o < F[j].op
        PROVE  Told(lg, o) \/ (\E k \in 1 .. j - 1 : F[k].op = o) \/ o < cl.base
    <3>1. o < q[j] /\ o \in Nat /\ j \in DOMAIN q
      BY <1>3, <2>2, OperationFacts
    <3>2. q[j] < cl.cursor /\ q[j] \in Nat
      BY <1>2, <1>4, <3>1 DEF InLine
    <3>3. CASE o < cl.base
      BY <3>3
    <3>4. CASE ~(o < cl.base)
      <4>1. cl.base <= o /\ o < cl.cursor
        BY <1>5, <3>1, <3>2, <3>4
      <4>2. Told(lg, o) \/ Waits(q, o) \/ UnderWay(ch, o)
        BY <1>2, <4>1 DEF NoneLost
      <4>3. CASE Waits(q, o)
        <5>1. PICK k \in DOMAIN q : q[k] = o
          BY <4>3 DEF Waits
        <5>2. ~(k = j) /\ ~(j < k)
          BY <1>2, <1>4, <3>1, <5>1 DEF InLine
        <5>3. k \in 1 .. j - 1
          BY <1>4, <3>1, <5>1, <5>2
        <5> QED  BY <1>3, <5>1, <5>3
      <4>4. ~UnderWay(ch, o)
        BY <1>2, <1>4, <3>1 DEF UnderWay, InLine
      <4> QED  BY <4>2, <4>3, <4>4
    <3> QED  BY <3>3, <3>4
  <2> QED  BY <1>1, <1>2, <2>1, <2>2, WrittenGoesOn
<1>10. Adds(<<>>, lg \o F, r)
  BY <1>1, <1>2, AddsGoOn
<1> QED  BY <1>2, <1>6, <1>8, <1>9, <1>10 DEF Orderly

\* A message that is no input is taken, or follows.
LEMMA OtherTaken ==
    ASSUME NEW s, NEW ch, NEW q, NEW lg, NEW cl, NEW r,
           Here(s, ch, q, lg, cl, r), Orderly(s, ch, q, lg, cl, r),
           ch # <<>>, Head(ch).type # "input"
    PROVE  Orderly(s, Tail(ch), q, lg, cl, r)
<1>1. ch \in Seq(Message) /\ Tail(ch) \in Seq(Message) /\ Len(Tail(ch)) = Len(ch) - 1
  BY DEF Here
<1>2. /\ DOMAIN ch = 1 .. Len(ch) /\ Len(ch) \in Nat
      /\ DOMAIN Tail(ch) = 1 .. Len(ch) - 1
      /\ Head(ch) = ch[1]
      /\ \A p \in DOMAIN Tail(ch) : Tail(ch)[p] = ch[p + 1] /\ p + 1 \in DOMAIN ch
  BY <1>1
<1>3. InLine(ch, q, cl) /\ NoneLost(s, ch, q, lg, cl)
  BY DEF Orderly
<1>4. InLine(Tail(ch), q, cl)
  <2> DEFINE t == Tail(ch)
  <2>1. \A p \in DOMAIN t : t[p] = ch[p + 1] /\ p + 1 \in DOMAIN ch /\ p \in Nat
    BY <1>2
  <2> HIDE DEF t
  <2>2. \A p \in DOMAIN t : t[p].type = "input" =>
          /\ cl.base <= t[p].op
          /\ t[p].op < cl.cursor
          /\ \A i \in DOMAIN q : q[i] < t[p].op
    BY <1>3, <2>1 DEF InLine
  <2>3. \A p, k \in DOMAIN t : p < k /\ t[p].type = "input" /\ t[k].type = "input" =>
          t[p].op < t[k].op
    <3>1. ASSUME NEW p \in DOMAIN t, NEW k \in DOMAIN t, p < k
          PROVE  p + 1 < k + 1
      BY <2>1, <3>1
    <3> QED  BY <1>3, <2>1, <3>1 DEF InLine
  <2>4. InLine(t, q, cl)
    BY <1>3, <2>2, <2>3 DEF InLine
  <2> QED  BY <2>4 DEF t
<1>5. \A o : UnderWay(ch, o) => UnderWay(Tail(ch), o)
  <2> SUFFICES ASSUME NEW o, NEW p \in DOMAIN ch, ch[p].type = "input", ch[p].op = o
               PROVE  UnderWay(Tail(ch), o)
    BY DEF UnderWay
  <2>1. p # 1
    BY <1>2
  <2>2. p - 1 \in DOMAIN Tail(ch) /\ Tail(ch)[p - 1] = ch[p]
    BY <1>1, <1>2, <2>1
  <2> QED  BY <2>2 DEF UnderWay
<1>6. NoneLost(s, Tail(ch), q, lg, cl)
  BY <1>3, <1>5 DEF NoneLost
<1> QED  BY <1>4, <1>6 DEF Orderly

LEMMA OtherFollows ==
    ASSUME NEW s, NEW ch, NEW q, NEW lg, NEW cl, NEW r,
           Here(s, ch, q, lg, cl, r), Orderly(s, ch, q, lg, cl, r),
           NEW message \in Message, message.type # "input"
    PROVE  Orderly(s, Append(ch, message), q, lg, cl, r)
<1> DEFINE t == Append(ch, message)
<1>1. ch \in Seq(Message)
  BY DEF Here
<1>2. /\ DOMAIN ch = 1 .. Len(ch) /\ Len(ch) \in Nat
      /\ DOMAIN t = 1 .. Len(ch) + 1
      /\ t[Len(ch) + 1] = message
      /\ \A p \in DOMAIN ch : t[p] = ch[p] /\ p \in DOMAIN t
  BY <1>1
<1> HIDE DEF t
<1>3. \A p \in DOMAIN t : t[p].type = "input" => p \in DOMAIN ch /\ t[p] = ch[p]
  BY <1>2
<1>4. InLine(ch, q, cl) /\ NoneLost(s, ch, q, lg, cl)
  BY DEF Orderly
<1>5. InLine(t, q, cl)
  BY <1>3, <1>4 DEF InLine
<1>6. \A o : UnderWay(ch, o) => UnderWay(t, o)
  BY <1>2 DEF UnderWay
<1>7. NoneLost(s, t, q, lg, cl)
  BY <1>4, <1>6 DEF NoneLost
<1>8. Orderly(s, t, q, lg, cl, r)
  BY <1>5, <1>7 DEF Orderly
<1> QED  BY <1>8 DEF t

\* The state of the socket matters only when it is closed, and then nothing is under way.
LEMMA SocketMoves ==
    ASSUME NEW s, NEW ch, NEW q, NEW lg, NEW cl, NEW r,
           Orderly(s, ch, q, lg, cl, r), s # "closed", NEW t
    PROVE  /\ Orderly(t, ch, q, lg, cl, r)
           /\ Orderly("closed", <<>>, q, lg, cl, r)
BY DEF Orderly, NoneLost, InLine

\* An input arrives: it is the next of its connection, behind those that wait, and all
\* before it arrived before.
LEMMA NextArrives ==
    ASSUME NEW s, NEW ch, NEW q, NEW lg, NEW cl, NEW r,
           Here(s, ch, q, lg, cl, r), Orderly(s, ch, q, lg, cl, r), s # "closed",
           ch # <<>>, Head(ch).type = "input",
           NEW o, o = Head(ch).op
    PROVE  /\ o \in Operations
           /\ cl.base <= o /\ o < cl.cursor
           /\ \A i \in DOMAIN q : q[i] < o
           /\ \A p \in DOMAIN Tail(ch) : Tail(ch)[p].type = "input" => o < Tail(ch)[p].op
           /\ InLine(Tail(ch), q, cl)
           /\ \A x : UnderWay(ch, x) => x = o \/ UnderWay(Tail(ch), x)
           /\ \A x \in Operations : cl.base <= x /\ x < o => Told(lg, x) \/ Waits(q, x)
<1>1. ch \in Seq(Message) /\ q \in Seq(Operations) /\ cl \in Typed
      /\ Tail(ch) \in Seq(Message) /\ Len(Tail(ch)) = Len(ch) - 1
  BY DEF Here
<1>2. /\ DOMAIN ch = 1 .. Len(ch) /\ Len(ch) \in Nat
      /\ DOMAIN Tail(ch) = 1 .. Len(ch) - 1
      /\ 1 \in DOMAIN ch
      /\ Head(ch) = ch[1]
      /\ \A p \in DOMAIN Tail(ch) : Tail(ch)[p] = ch[p + 1] /\ p + 1 \in DOMAIN ch
  BY <1>1
<1>3. InLine(ch, q, cl) /\ NoneLost(s, ch, q, lg, cl)
  BY DEF Orderly
<1>4. o = ch[1].op /\ ch[1].type = "input"
  BY <1>2
<1>5. /\ o \in Operations
      /\ cl.base <= o /\ o < cl.cursor
      /\ \A i \in DOMAIN q : q[i] < o
  BY <1>1, <1>2, <1>3, <1>4, MessageFacts DEF InLine
<1> DEFINE t == Tail(ch)
<1>6. \A p \in DOMAIN t : t[p] = ch[p + 1] /\ p + 1 \in DOMAIN ch /\ p \in Nat /\ 1 < p + 1
  BY <1>2
<1>7. \A x : UnderWay(ch, x) => x = o \/ UnderWay(t, x)
  <2> SUFFICES ASSUME NEW x, NEW p \in DOMAIN ch, ch[p].type = "input", ch[p].op = x, x # o
               PROVE  UnderWay(t, x)
    BY DEF UnderWay
  <2>1. p # 1
    BY <1>4
  <2>2. p - 1 \in DOMAIN t /\ t[p - 1] = ch[p]
    BY <1>1, <1>2, <2>1
  <2> QED  BY <2>2 DEF UnderWay
<1> HIDE DEF t
<1>8. \A p \in DOMAIN t : t[p].type = "input" => o < t[p].op
  BY <1>2, <1>3, <1>4, <1>6 DEF InLine
<1>9. InLine(t, q, cl)
  <2>1. \A p \in DOMAIN t : t[p].type = "input" =>
          /\ cl.base <= t[p].op
          /\ t[p].op < cl.cursor
          /\ \A i \in DOMAIN q : q[i] < t[p].op
    BY <1>3, <1>6 DEF InLine
  <2>2. \A p, k \in DOMAIN t : p < k /\ t[p].type = "input" /\ t[k].type = "input" =>
          t[p].op < t[k].op
    <3>1. ASSUME NEW p \in DOMAIN t, NEW k \in DOMAIN t, p < k
          PROVE  p + 1 < k + 1
      BY <1>6, <3>1
    <3> QED  BY <1>3, <1>6, <3>1 DEF InLine
  <2> QED  BY <1>3, <2>1, <2>2 DEF InLine
<1>10. ASSUME NEW x \in Operations, cl.base <= x, x < o
       PROVE  Told(lg, x) \/ Waits(q, x)
  <2>1. o \in Nat /\ x \in Nat /\ cl.cursor \in Nat
    BY <1>1, <1>5, OperationFacts, TypedFacts
  <2>2. x < cl.cursor
    BY <1>5, <1>10, <2>1
  <2>3. Told(lg, x) \/ Waits(q, x) \/ UnderWay(ch, x)
    BY <1>3, <1>10, <2>2 DEF NoneLost
  <2>4. ~UnderWay(t, x)
    <3>1. \A p \in DOMAIN t : t[p].type = "input" => t[p].op \in Nat
      BY <1>1, MessageFacts, OperationFacts DEF t
    <3> QED  BY <1>8, <1>10, <2>1, <3>1 DEF UnderWay
  <2>5. x # o
    BY <1>10, <2>1
  <2> QED  BY <1>7, <2>3, <2>4, <2>5
<1> QED  BY <1>5, <1>7, <1>8, <1>9, <1>10 DEF t

\* What arrives leaves no gap.
LEMMA GapStaysClosed ==
    ASSUME NEW s, NEW ch, NEW q, NEW lg, NEW cl, NEW r,
           Here(s, ch, q, lg, cl, r), Orderly(s, ch, q, lg, cl, r), s # "closed",
           ch # <<>>, Head(ch).type = "input",
           NEW o, o = Head(ch).op
    PROVE  /\ NoGap([r EXCEPT ![o] = @ + 1], cl)
           /\ \A x \in Operations : cl.base <= x /\ x < o => r[x] >= 1
           /\ [r EXCEPT ![o] = @ + 1] \in [Operations -> Nat]
<1> DEFINE v == [r EXCEPT ![o] = @ + 1]
<1>1. /\ q \in Seq(Operations) /\ lg \in Seq(Settled) /\ cl \in Typed
      /\ r \in [Operations -> Nat] /\ Adds(q, lg, r) /\ NoGap(r, cl)
  BY DEF Here, Orderly
<1>2. /\ o \in Operations
      /\ \A x \in Operations : cl.base <= x /\ x < o => Told(lg, x) \/ Waits(q, x)
  BY NextArrives
<1>3. \A x \in Operations : cl.base <= x /\ x < o => r[x] >= 1
  BY <1>1, <1>2, ToldWasReceived
<1>4. /\ v \in [Operations -> Nat]
      /\ \A x \in Operations : r[x] >= 1 => v[x] >= 1
      /\ \A x \in Operations : v[x] >= 1 => x = o \/ r[x] >= 1
  BY <1>1, <1>2
<1> HIDE DEF v
<1>5. NoGap(v, cl)
  BY <1>1, <1>2, <1>3, <1>4 DEF NoGap
<1> QED  BY <1>3, <1>4, <1>5 DEF v

\* It waits behind the others.
LEMMA NextWaits ==
    ASSUME NEW s, NEW ch, NEW q, NEW lg, NEW cl, NEW r,
           Here(s, ch, q, lg, cl, r), Orderly(s, ch, q, lg, cl, r), s # "closed",
           ch # <<>>, Head(ch).type = "input",
           NEW o, o = Head(ch).op
    PROVE  Orderly(s, Tail(ch), Append(q, o), lg, cl, [r EXCEPT ![o] = @ + 1])
<1> DEFINE t == Append(q, o)
           v == [r EXCEPT ![o] = @ + 1]
           th == Tail(ch)
<1>1. /\ ch \in Seq(Message) /\ th \in Seq(Message)
      /\ q \in Seq(Operations) /\ lg \in Seq(Settled) /\ cl \in Typed
      /\ r \in [Operations -> Nat] /\ Adds(q, lg, r) /\ WrittenInOrder(lg, cl)
      /\ NoneLost(s, ch, q, lg, cl)
  BY DEF Here, Orderly
<1>2. /\ o \in Operations
      /\ cl.base <= o /\ o < cl.cursor
      /\ \A i \in DOMAIN q : q[i] < o
      /\ \A p \in DOMAIN th : th[p].type = "input" => o < th[p].op
      /\ InLine(th, q, cl)
      /\ \A x : UnderWay(ch, x) => x = o \/ UnderWay(th, x)
  BY NextArrives
<1>3. NoGap(v, cl)
  BY GapStaysClosed
<1>4. /\ DOMAIN q = 1 .. Len(q) /\ Len(q) \in Nat
      /\ DOMAIN t = 1 .. Len(q) + 1
      /\ t[Len(q) + 1] = o
      /\ \A i \in DOMAIN q : t[i] = q[i]
  BY <1>1, <1>2
<1>4a. t = q \o <<o>>
  BY <1>1, <1>2, AppendIsConcat
<1>5. \A x : Waits(t, x) <=> Waits(q, x) \/ x = o
  BY <1>4 DEF Waits
<1>6. Adds(t, lg, v)
  <2> SUFFICES ASSUME NEW x \in Operations
               PROVE  v[x] = Count(Ops(lg), x) + Count(t, x)
    BY DEF Adds
  <2>1. r[x] = Count(Ops(lg), x) + Count(q, x)
    BY <1>1 DEF Adds
  <2>2. <<o>> \in Seq(Operations)
    BY <1>2
  <2>3. Count(t, x) = Count(q, x) + Count(<<o>>, x)
    <3>1. Count(q \o <<o>>, x) = Count(q, x) + Count(<<o>>, x)
      BY <1>1, <2>2, CountConcat
    <3> HIDE DEF t
    <3> QED  BY <1>4a, <3>1
  <2>4. Count(<<o>>, x) = IF o = x THEN 1 ELSE 0
    BY <1>2, CountFew
  <2>5. Count(Ops(lg), x) \in Nat /\ Count(q, x) \in Nat
    BY <1>1, OpsFacts, CountType
  <2>6. v[x] = IF o = x THEN r[x] + 1 ELSE r[x]
    BY <1>1, <1>2
  <2> HIDE DEF t, v
  <2> QED  BY <2>1, <2>3, <2>4, <2>5, <2>6
<1> HIDE DEF t, v, th
<1>7. NoneLost(s, th, t, lg, cl)
  BY <1>1, <1>2, <1>5 DEF NoneLost
<1>8. InLine(th, t, cl)
  <2>1. ASSUME NEW i \in DOMAIN t
        PROVE  \/ i \in DOMAIN q /\ t[i] = q[i]
               \/ i = Len(q) + 1 /\ t[i] = o
    BY <1>4
  <2>2. \A i, k \in DOMAIN t : i < k => t[i] < t[k]
    <3> SUFFICES ASSUME NEW i \in DOMAIN t, NEW k \in DOMAIN t, i < k
                 PROVE  t[i] < t[k]
      OBVIOUS
    <3>1. i \in DOMAIN q /\ t[i] = q[i]
      BY <1>4, <2>1
    <3>2. CASE k \in DOMAIN q /\ t[k] = q[k]
      BY <1>2, <3>1, <3>2 DEF InLine
    <3>3. CASE t[k] = o
      BY <1>2, <3>1, <3>3
    <3> QED  BY <2>1, <3>2, <3>3
  <2>3. \A i \in DOMAIN t : cl.base <= t[i] /\ t[i] < cl.cursor
    BY <1>2, <2>1 DEF InLine
  <2>4. \A p \in DOMAIN th : th[p].type = "input" => \A i \in DOMAIN t : t[i] < th[p].op
    BY <1>2, <2>1 DEF InLine
  <2> QED  BY <1>2, <2>2, <2>3, <2>4 DEF InLine
<1> QED  BY <1>1, <1>3, <1>6, <1>7, <1>8 DEF Orderly, t, v, th

\* It is settled on arrival; it is written only when none waits.
LEMMA NextSettled ==
    ASSUME NEW s, NEW ch, NEW q, NEW lg, NEW cl, NEW r,
           Here(s, ch, q, lg, cl, r), Orderly(s, ch, q, lg, cl, r), s # "closed",
           ch # <<>>, Head(ch).type = "input",
           NEW o, o = Head(ch).op,
           NEW fate \in Fates, fate \in Written => q = <<>>
    PROVE  Orderly(s, Tail(ch), q, lg \o All(<<o>>, fate), cl, [r EXCEPT ![o] = @ + 1])
<1> DEFINE F == All(<<o>>, fate)
           v == [r EXCEPT ![o] = @ + 1]
           th == Tail(ch)
<1>1. /\ ch \in Seq(Message) /\ th \in Seq(Message)
      /\ q \in Seq(Operations) /\ lg \in Seq(Settled) /\ cl \in Typed
      /\ r \in [Operations -> Nat] /\ Adds(q, lg, r) /\ WrittenInOrder(lg, cl)
      /\ NoneLost(s, ch, q, lg, cl)
  BY DEF Here, Orderly
<1>2. /\ o \in Operations
      /\ cl.base <= o
      /\ InLine(th, q, cl)
      /\ \A x : UnderWay(ch, x) => x = o \/ UnderWay(th, x)
      /\ \A x \in Operations : cl.base <= x /\ x < o => Told(lg, x) \/ Waits(q, x)
  BY NextArrives
<1>3. NoGap(v, cl)
  BY GapStaysClosed
<1>4. F = <<[op |-> o, fate |-> fate]>>
  BY DEF All
<1> DEFINE entry == [op |-> o, fate |-> fate]
<1>5. F \in Seq(Settled) /\ DOMAIN F = {1} /\ F[1].op = o /\ F[1].fate = fate
  <2>1. entry \in Settled /\ entry.op = o /\ entry.fate = fate
    BY <1>2 DEF Settled
  <2>2. F = <<entry>>
    BY <1>4
  <2> HIDE DEF entry, F
  <2> QED  BY <2>1, <2>2
<1>6. Ops(F) = <<o>>
  <2> DEFINE a == Ops(F)
             b == <<o>>
  <2>1. Len(F) = 1
    BY <1>4
  <2>2. a \in Seq(Operations) /\ Len(a) = 1 /\ a[1] = o
    BY <1>5, <2>1, OpsFacts
  <2>3. b \in Seq(Operations) /\ Len(b) = 1 /\ b[1] = o
    BY <1>2
  <2> HIDE DEF a, b
  <2>4. \A i \in 1 .. Len(a) : a[i] = b[i]
    BY <2>2, <2>3
  <2>5. a = b
    BY <2>2, <2>3, <2>4, SeqEqual
  <2> QED  BY <2>5 DEF a, b
<1> HIDE DEF F
<1>7. \A x : Told(lg \o F, x) <=> Told(lg, x) \/ x = o
  <2>1. \A x : Told(F, x) <=> x = o
    BY <1>5 DEF Told
  <2> QED  BY <1>1, <1>5, <2>1, LogGoesOn
<1>8. NoneLost(s, th, q, lg \o F, cl)
  BY <1>1, <1>2, <1>7 DEF NoneLost
<1>9. WrittenInOrder(lg \o F, cl)
  <2>1. cl.base \in Nat /\ o \in Nat
    BY <1>1, <1>2, OperationFacts, TypedFacts
  <2>2. \A j \in DOMAIN F : F[j].op >= cl.base
    BY <1>2, <1>5, <2>1
  <2>3. ASSUME NEW j \in DOMAIN F, F[j].fate \in Written,
               NEW x \in Operations, x < F[j].op
        PROVE  Told(lg, x) \/ (\E k \in 1 .. j - 1 : F[k].op = x) \/ x < cl.base
    <3>1. x < o /\ q = <<>> /\ x \in Nat
      BY <1>5, <2>3, OperationFacts
    <3>2. ~Waits(q, x)
      BY <3>1 DEF Waits
    <3> QED  BY <1>2, <2>1, <3>1, <3>2
  <2> QED  BY <1>1, <1>5, <2>2, <2>3, WrittenGoesOn
<1>10. Adds(q, lg \o F, v)
  <2> SUFFICES ASSUME NEW x \in Operations
               PROVE  v[x] = Count(Ops(lg \o F), x) + Count(q, x)
    BY DEF Adds
  <2>1. r[x] = Count(Ops(lg), x) + Count(q, x)
    BY <1>1 DEF Adds
  <2>2. <<o>> \in Seq(Operations) /\ Ops(lg) \in Seq(Operations)
    BY <1>1, <1>2, OpsFacts
  <2>3. Ops(lg \o F) = Ops(lg) \o <<o>>
    BY <1>1, <1>5, <1>6, OpsConcat
  <2>4. Count(Ops(lg) \o <<o>>, x) = Count(Ops(lg), x) + Count(<<o>>, x)
    BY <2>2, CountConcat
  <2>5. Count(<<o>>, x) = IF o = x THEN 1 ELSE 0
    BY <1>2, CountFew
  <2>6. Count(Ops(lg), x) \in Nat /\ Count(q, x) \in Nat
    BY <1>1, <2>2, CountType
  <2>7. v[x] = IF o = x THEN r[x] + 1 ELSE r[x]
    BY <1>1, <1>2
  <2> HIDE DEF v
  <2> QED  BY <2>1, <2>3, <2>4, <2>5, <2>6, <2>7
<1> HIDE DEF v, th
<1> QED  BY <1>2, <1>3, <1>8, <1>9, <1>10 DEF Orderly, F, v, th

\* The client sends its next input.
Sent(cl) == [cl EXCEPT !.cursor = cl.cursor + 1,
                       !.next = IF @ > cl.cursor THEN @ ELSE cl.cursor + 1]

LEMMA NextSent ==
    ASSUME NEW s, NEW ch, NEW q, NEW lg, NEW cl, NEW r,
           Here(s, ch, q, lg, cl, r), Orderly(s, ch, q, lg, cl, r),
           cl.cursor \in Operations
    PROVE  /\ Orderly(s, Append(ch, [type |-> "input", op |-> cl.cursor]), q, lg, Sent(cl), r)
           /\ Sent(cl) \in Typed
           /\ [type |-> "input", op |-> cl.cursor] \in Message
<1> DEFINE o == cl.cursor
           message == [type |-> "input", op |-> o]
           t == Append(ch, message)
           d == Sent(cl)
<1>1. /\ ch \in Seq(Message) /\ q \in Seq(Operations) /\ cl \in Typed
      /\ InLine(ch, q, cl) /\ NoneLost(s, ch, q, lg, cl)
      /\ WrittenInOrder(lg, cl) /\ NoGap(r, cl)
  BY DEF Here, Orderly
<1>2. /\ cl.next \in Nat /\ cl.base \in Nat /\ o \in Nat /\ o \in Operations /\ o <= MaxStart
      /\ o + 1 \in 1 .. MaxStart + 1 /\ cl.base <= o /\ o <= cl.next
  BY <1>1, TypedFacts, OperationFacts, InputAssumption DEF InLine
<1>3. /\ d \in Typed /\ d.cursor = o + 1 /\ d.base = cl.base
      /\ d.base <= d.cursor /\ d.cursor <= d.next
  <2> DEFINE next == IF cl.next > o THEN cl.next ELSE o + 1
  <2>1. next \in 1 .. MaxStart + 1 /\ o + 1 <= next
    <3>1. cl.next \in 1 .. MaxStart + 1
      BY <1>1 DEF Typed
    <3>2. cl.next > o => o + 1 <= cl.next
      BY <1>2
    <3> QED  BY <1>2, <3>1, <3>2
  <2>2. d = [next |-> next, base |-> cl.base, cursor |-> o + 1,
             connections |-> cl.connections]
    <3>1. d = [cl EXCEPT !.cursor = o + 1, !.next = next]
      BY DEF Sent
    <3> HIDE DEF next, d, o
    <3> QED  BY <1>1, <3>1 DEF Typed
  <2>3. cl.base \in 1 .. MaxStart + 1 /\ cl.connections \in 0 .. MaxConnections
    BY <1>1 DEF Typed
  <2> HIDE DEF next, d
  <2>4. d \in Typed
    BY <1>2, <2>1, <2>2, <2>3 DEF Typed
  <2> QED  BY <1>2, <2>1, <2>2, <2>4
<1>4. message \in Message /\ message.type = "input" /\ message.op = o
  BY <1>2 DEF Message
<1> HIDE DEF message, d
<1>5. /\ DOMAIN ch = 1 .. Len(ch) /\ Len(ch) \in Nat
      /\ DOMAIN t = 1 .. Len(ch) + 1
      /\ t[Len(ch) + 1] = message
      /\ \A p \in DOMAIN ch : t[p] = ch[p]
  BY <1>1, <1>4
<1> HIDE DEF t
<1>6. ASSUME NEW p \in DOMAIN t
      PROVE  \/ p \in DOMAIN ch /\ t[p] = ch[p]
             \/ p = Len(ch) + 1 /\ t[p] = message
  BY <1>5
<1>7. /\ \A i \in DOMAIN q : q[i] \in Nat
      /\ \A p \in DOMAIN ch : ch[p].type = "input" => ch[p].op \in Nat
  BY <1>1, LineFacts
<1>8. InLine(t, q, d)
  <2>1. \A i \in DOMAIN q : d.base <= q[i] /\ q[i] < d.cursor
    BY <1>1, <1>2, <1>3, <1>7 DEF InLine
  <2>2. \A p \in DOMAIN ch : ch[p].type = "input" =>
          /\ d.base <= ch[p].op
          /\ ch[p].op < o
          /\ ch[p].op < d.cursor
          /\ \A i \in DOMAIN q : q[i] < ch[p].op
    BY <1>1, <1>2, <1>3, <1>7 DEF InLine
  <2>3. d.base <= o /\ o < d.cursor /\ \A i \in DOMAIN q : q[i] < o
    BY <1>1, <1>2, <1>3 DEF InLine
  <2>4. \A p \in DOMAIN t : t[p].type = "input" =>
          /\ d.base <= t[p].op
          /\ t[p].op < d.cursor
          /\ \A i \in DOMAIN q : q[i] < t[p].op
    BY <1>4, <1>6, <2>2, <2>3
  <2>5. ASSUME NEW p \in DOMAIN t, NEW k \in DOMAIN t, p < k,
               t[p].type = "input", t[k].type = "input"
        PROVE  t[p].op < t[k].op
    <3>1. p \in DOMAIN ch /\ t[p] = ch[p]
      BY <1>5, <1>6, <2>5
    <3>2. CASE k \in DOMAIN ch /\ t[k] = ch[k]
      BY <1>1, <2>5, <3>1, <3>2 DEF InLine
    <3>3. CASE t[k] = message
      BY <1>4, <2>2, <2>5, <3>1, <3>3
    <3> QED  BY <1>6, <3>2, <3>3
  <2> QED  BY <1>1, <1>3, <2>1, <2>4, <2>5 DEF InLine
<1>9. NoneLost(s, t, q, lg, d)
  <2>1. \A x : UnderWay(ch, x) => UnderWay(t, x)
    BY <1>5 DEF UnderWay
  <2>2. UnderWay(t, o)
    BY <1>4, <1>5 DEF UnderWay
  <2>3. \A x \in Operations : x < d.cursor => x < o \/ x = o
    BY <1>2, <1>3, OperationFacts
  <2> QED  BY <1>1, <1>3, <2>1, <2>2, <2>3 DEF NoneLost
<1>10. WrittenInOrder(lg, d) /\ NoGap(r, d)
  BY <1>1, <1>3 DEF WrittenInOrder, NoGap
<1>11. Orderly(s, t, q, lg, d, r)
  BY <1>8, <1>9, <1>10 DEF Orderly
<1> QED  BY <1>3, <1>4, <1>11 DEF t, d, message

\* The client comes back and goes on at some input of the connection it lost.
Resumed(cl, from) == [cl EXCEPT !.base = from, !.cursor = from, !.connections = @ + 1]

LEMMA ComesBack ==
    ASSUME NEW s, NEW lg, NEW cl, NEW r,
           Here(s, <<>>, <<>>, lg, cl, r), Orderly(s, <<>>, <<>>, lg, cl, r),
           NEW from \in cl.base .. cl.next, cl.connections < MaxConnections
    PROVE  /\ Orderly("open", <<>>, <<>>, lg, Resumed(cl, from), r)
           /\ Resumed(cl, from) \in Typed
<1> DEFINE d == Resumed(cl, from)
<1>1. /\ cl \in Typed /\ WrittenInOrder(lg, cl) /\ NoGap(r, cl) /\ lg \in Seq(Settled)
  BY DEF Here, Orderly
<1>2. /\ cl.next \in Nat /\ cl.base \in Nat /\ from \in Nat /\ cl.base >= 1
      /\ cl.next <= MaxStart + 1 /\ cl.base <= from /\ from <= cl.next /\ MaxStart \in Nat
  BY <1>1, TypedFacts, OperationFacts
<1>3. from \in 1 .. MaxStart + 1 /\ cl.connections + 1 \in 0 .. MaxConnections
  BY <1>1, <1>2, InputAssumption DEF Typed
<1>4. d \in Typed /\ d.base = from /\ d.cursor = from /\ d.next = cl.next
  BY <1>1, <1>3 DEF Resumed, Typed
<1> HIDE DEF d
<1>5. InLine(<<>>, <<>>, d)
  BY <1>2, <1>4 DEF InLine
<1>6. NoneLost("open", <<>>, <<>>, lg, d)
  BY <1>2, <1>4, OperationFacts DEF NoneLost
<1>7. \A o \in Operations : o \in Nat
  BY OperationFacts
<1>8. WrittenInOrder(lg, d)
  BY <1>1, <1>2, <1>4, <1>7 DEF WrittenInOrder
<1>9. NoGap(r, d)
  BY <1>1, <1>2, <1>4, <1>7 DEF NoGap
<1>10. Adds(<<>>, lg, r)
  BY DEF Orderly
<1> QED  BY <1>4, <1>5, <1>6, <1>8, <1>9, <1>10 DEF Orderly, d

\* What the settling of a queue puts into the log.
LEMMA SettledFacts ==
    ASSUME NEW q \in Seq(Operations), NEW fates \in [DOMAIN q -> Fates],
           NEW F, F = [i \in DOMAIN q |-> [op |-> q[i], fate |-> fates[i]]]
    PROVE  /\ F \in Seq(Settled)
           /\ Ops(F) = q
           /\ \A i \in DOMAIN F : i \in DOMAIN q /\ F[i].fate = fates[i]
<1>1. DOMAIN q = 1 .. Len(q) /\ Len(q) \in Nat /\ \A i \in DOMAIN q : q[i] \in Operations
  BY LineFacts
<1>2. \A i \in DOMAIN q : [op |-> q[i], fate |-> fates[i]] \in Settled
  BY <1>1 DEF Settled
<1>3. F \in [1 .. Len(q) -> Settled]
  BY <1>1, <1>2
<1>4. F \in Seq(Settled) /\ Len(F) = Len(q)
  BY <1>1, <1>3
<1>5. \A i \in DOMAIN F : i \in DOMAIN q /\ F[i].fate = fates[i] /\ F[i].op = q[i]
  BY <1>1
<1>6. \A i \in 1 .. Len(Ops(F)) : Ops(F)[i] = q[i]
  BY <1>1, <1>4, <1>5, OpsFacts
<1>7. Ops(F) \in Seq(Operations) /\ Len(Ops(F)) = Len(q)
  BY <1>4, OpsFacts
<1>8. Ops(F) = q
  <2> DEFINE a == Ops(F)
  <2> HIDE DEF a
  <2>1. a \in Seq(Operations) /\ Len(a) = Len(q) /\ \A i \in 1 .. Len(a) : a[i] = q[i]
    BY <1>6, <1>7 DEF a
  <2>2. a = q
    BY <2>1, SeqEqual
  <2> QED  BY <2>2 DEF a
<1> QED  BY <1>4, <1>5, <1>8

LEMMA AllFacts ==
    ASSUME NEW q \in Seq(Operations), NEW fate \in Fates
    PROVE  /\ All(q, fate) \in Seq(Settled)
           /\ Ops(All(q, fate)) = q
           /\ \A i \in DOMAIN All(q, fate) : All(q, fate)[i].fate = fate
<1> DEFINE fates == [i \in DOMAIN q |-> fate]
<1>1. All(q, fate) = [i \in DOMAIN q |-> [op |-> q[i], fate |-> fates[i]]]
  BY DEF All
<1>2. fates \in [DOMAIN q -> Fates] /\ \A i \in DOMAIN q : fates[i] = fate
  OBVIOUS
<1> HIDE DEF fates
<1> QED  BY <1>1, <1>2, SettledFacts

-----------------------------------------------------------------------------
(* What the ledger remembers of a client.                                    *)

\* The ledger had no part in what is settled: its account stays as it was.
LEMMA LedgerStands ==
    ASSUME NEW alive \in BOOLEAN, NEW keeps \in BOOLEAN, NEW e,
           NEW lg \in Seq(Settled), NEW r \in [Operations -> Nat],
           LedgerFits(alive, keeps, e, lg, r),
           NEW F \in Seq(Settled),
           \A i \in DOMAIN F : F[i].fate \notin LedgerReasons \cup {"written"},
           NEW v \in [Operations -> Nat], \A o \in Operations : r[o] <= v[o],
           NEW alive2 \in BOOLEAN, NEW f, alive2 => alive /\ f = e
    PROVE  LedgerFits(alive2, keeps, f, lg \o F, v)
<1>1. ASSUME NEW i \in DOMAIN (lg \o F), (lg \o F)[i].fate \in LedgerReasons \cup {"written"}
      PROVE  i \in DOMAIN lg /\ (lg \o F)[i] = lg[i] /\ lg[i].op \in Operations
  <2>1. CASE i \in 1 .. Len(lg)
    <3>1. i \in DOMAIN lg /\ (lg \o F)[i] = lg[i]
      BY <2>1, LogGoesOn
    <3>2. lg[i] \in Settled
      BY <3>1
    <3> QED  BY <3>1, <3>2 DEF Settled
  <2>2. CASE \E j \in 1 .. Len(F) : i = Len(lg) + j
    <3>1. PICK j \in 1 .. Len(F) : i = Len(lg) + j
      BY <2>2
    <3>2. (lg \o F)[i] = F[j] /\ j \in DOMAIN F
      BY <3>1, LogGoesOn
    <3> QED  BY <1>1, <3>2
  <2> QED  BY <2>1, <2>2, LogGoesOn
<1>2. AnswersFit(keeps, lg, r)
  BY DEF LedgerFits
<1>3. ASSUME NEW i \in DOMAIN (lg \o F), (lg \o F)[i].fate \in LedgerReasons
      PROVE  v[(lg \o F)[i].op] >= 2
  <2>1. i \in DOMAIN lg /\ (lg \o F)[i] = lg[i] /\ lg[i].op \in Operations
    BY <1>1, <1>3
  <2>2. r[lg[i].op] >= 2
    BY <1>2, <1>3, <2>1 DEF AnswersFit
  <2> QED  BY <2>1, <2>2
<1>4. ASSUME keeps, NEW i \in DOMAIN (lg \o F), NEW k \in DOMAIN (lg \o F), i # k,
             (lg \o F)[i].op = (lg \o F)[k].op,
             (lg \o F)[i].fate = "written", (lg \o F)[k].fate = "written"
      PROVE  FALSE
  BY <1>1, <1>2, <1>4 DEF AnswersFit
<1>5. AnswersFit(keeps, lg \o F, v)
  BY <1>3, <1>4 DEF AnswersFit
<1>6. ASSUME alive2
      PROVE  \E w \in [Operations -> Nat] : EntryInv(f, w) /\ Passed(keeps, w, lg \o F, v)
  <2>1. PICK w \in [Operations -> Nat] : EntryInv(e, w) /\ Passed(keeps, w, lg, r)
    BY <1>6 DEF LedgerFits
  <2>2. \A o \in Operations : w[o] >= 1 => v[o] >= 1
    BY <2>1 DEF Passed
  <2>3. ASSUME keeps, NEW i \in DOMAIN (lg \o F), (lg \o F)[i].fate = "written"
        PROVE  w[(lg \o F)[i].op] >= 1
    BY <1>1, <2>1, <2>3 DEF Passed
  <2>4. Passed(keeps, w, lg \o F, v)
    BY <2>2, <2>3 DEF Passed
  <2> QED  BY <1>6, <2>1, <2>4
<1> QED  BY <1>5, <1>6 DEF LedgerFits

\* The same while the session and the entry stay, whether something is settled or not.
LEMMA LedgerUntouched ==
    ASSUME NEW alive \in BOOLEAN, NEW keeps \in BOOLEAN, NEW e,
           NEW lg \in Seq(Settled), NEW r \in [Operations -> Nat],
           LedgerFits(alive, keeps, e, lg, r),
           NEW v \in [Operations -> Nat], \A o \in Operations : r[o] <= v[o]
    PROVE  /\ LedgerFits(alive, keeps, e, lg, v)
           /\ \A F \in Seq(Settled) :
                 (\A i \in DOMAIN F : F[i].fate \notin LedgerReasons \cup {"written"})
                 => LedgerFits(alive, keeps, e, lg \o F, v)
<1>1. ASSUME NEW F \in Seq(Settled),
             \A i \in DOMAIN F : F[i].fate \notin LedgerReasons \cup {"written"}
      PROVE  LedgerFits(alive, keeps, e, lg \o F, v)
  <2>1. alive => alive /\ e = e
    OBVIOUS
  <2> QED  BY <1>1, <2>1, LedgerStands
<1>2. LedgerFits(alive, keeps, e, lg, v)
  <2> DEFINE F == <<>>
  <2>1. F \in Seq(Settled) /\ lg \o F = lg /\ DOMAIN F = {}
    BY ConcatEmptySeq, EmptySeq
  <2> HIDE DEF F
  <2>2. LedgerFits(alive, keeps, e, lg \o F, v)
    BY <1>1, <2>1
  <2> QED  BY <2>1, <2>2
<1> QED  BY <1>1, <1>2

\* An entry that is new accounts for a client whose writes it need not know.
LEMMA LedgerIsNew ==
    ASSUME NEW alive, NEW e, NEW lg \in Seq(Settled), NEW r \in [Operations -> Nat],
           LedgerFits(alive, FALSE, e, lg, r), NEW alive2
    PROVE  LedgerFits(alive2, FALSE, NewEntry, lg, r)
<1> DEFINE w == [o \in Operations |-> 0]
<1>1. w \in [Operations -> Nat] /\ \A o \in Operations : ~(w[o] >= 1)
  OBVIOUS
<1>2. EntryInv(NewEntry, w)
  BY NewEntryInv
<1> HIDE DEF w
<1>3. Passed(FALSE, w, lg, r)
  BY <1>1 DEF Passed
<1> QED  BY <1>1, <1>2, <1>3 DEF LedgerFits

\* The ledger lets an input through, and the gateway writes it or not.
LEMMA LedgerAdmits ==
    ASSUME NEW keeps \in BOOLEAN, NEW e,
           NEW lg \in Seq(Settled), NEW r \in [Operations -> Nat],
           LedgerFits(TRUE, keeps, e, lg, r),
           NEW o \in Operations, NEW f, f = Sweep(e, 0), Outcome(f, o, Bytes) = "admitted",
           NEW fate \in {"written", "target-identity-stale", "context-changed"}
    PROVE  LedgerFits(TRUE, keeps, Evict(Remember(f, o, Bytes, 0)),
                      lg \o All(<<o>>, fate), [r EXCEPT ![o] = @ + 1])
<1> DEFINE F == All(<<o>>, fate)
           l == lg \o F
           v == [r EXCEPT ![o] = @ + 1]
<1>1. PICK w \in [Operations -> Nat] : EntryInv(e, w) /\ Passed(keeps, w, lg, r)
  BY DEF LedgerFits
<1>2. EntryInv(f, w)
  BY <1>1, SweepKeeps
<1>3. o \notin Known(f) /\ w[o] = 0
  BY <1>2, OperationFacts, AdmittedIsNew
<1> DEFINE x == [w EXCEPT ![o] = @ + 1]
<1>4. EntryInv(Evict(Remember(f, o, Bytes, 0)), x) /\ x \in [Operations -> Nat]
  <2>1. Bytes \in Payloads \cup {NoPayload} /\ 0 \in Nat
    BY InputAssumption
  <2>2. EntryInv(Remember(f, o, Bytes, 0), x)
    BY <1>2, <1>3, <2>1, RememberKeeps
  <2>3. x \in [Operations -> Nat]
    OBVIOUS
  <2> HIDE DEF x
  <2> QED  BY <2>2, <2>3, EvictKeeps
<1>5. /\ v \in [Operations -> Nat]
      /\ \A p \in Operations : r[p] <= v[p]
      /\ v[o] >= 1
  OBVIOUS
<1>6. /\ x[o] >= 1
      /\ \A p \in Operations : w[p] >= 1 => x[p] >= 1
      /\ \A p \in Operations : x[p] >= 1 => p = o \/ w[p] >= 1
  OBVIOUS
<1>7. /\ F \in Seq(Settled) /\ DOMAIN F = {1} /\ F[1].op = o /\ F[1].fate = fate /\ Len(F) = 1
  <2> DEFINE entry == [op |-> o, fate |-> fate]
  <2>1. entry \in Settled /\ entry.op = o /\ entry.fate = fate
    BY DEF Settled, Fates
  <2>2. F = <<entry>>
    BY DEF All
  <2> HIDE DEF entry, F
  <2> QED  BY <2>1, <2>2
<1> HIDE DEF F, v, x
<1>8. ASSUME NEW i \in DOMAIN l
      PROVE  \/ i \in DOMAIN lg /\ l[i] = lg[i] /\ lg[i].op \in Operations
             \/ i = Len(lg) + 1 /\ l[i].op = o /\ l[i].fate = fate
  <2>1. CASE i \in 1 .. Len(lg)
    <3>1. i \in DOMAIN lg /\ l[i] = lg[i]
      BY <1>7, <2>1, LogGoesOn
    <3>2. lg[i] \in Settled
      BY <3>1
    <3> QED  BY <3>1, <3>2 DEF Settled
  <2>2. CASE \E j \in 1 .. Len(F) : i = Len(lg) + j
    <3>1. PICK j \in 1 .. Len(F) : i = Len(lg) + j
      BY <2>2
    <3>2. j = 1
      BY <1>7
    <3>3. l[i] = F[1]
      BY <1>7, <3>1, <3>2, LogGoesOn
    <3> QED  BY <1>7, <3>1, <3>2, <3>3
  <2> QED  BY <1>7, <2>1, <2>2, LogGoesOn
<1> HIDE DEF l
<1>9. AnswersFit(keeps, lg, r)
  BY DEF LedgerFits
<1>10. ASSUME NEW i \in DOMAIN l, l[i].fate \in LedgerReasons
       PROVE  v[l[i].op] >= 2
  <2>1. i \in DOMAIN lg /\ l[i] = lg[i] /\ lg[i].op \in Operations
    BY <1>8, <1>10 DEF LedgerReasons
  <2>2. r[lg[i].op] >= 2
    BY <1>9, <1>10, <2>1 DEF AnswersFit
  <2> QED  BY <1>5, <2>1, <2>2
<1>11. ASSUME keeps, NEW i \in DOMAIN lg, lg[i].fate = "written"
       PROVE  w[lg[i].op] >= 1
  BY <1>1, <1>11 DEF Passed
<1>12. ASSUME keeps, NEW i \in DOMAIN l, NEW k \in DOMAIN l, i # k, l[i].op = l[k].op,
              l[i].fate = "written", l[k].fate = "written"
       PROVE  FALSE
  <2>1. CASE i \in DOMAIN lg /\ l[i] = lg[i] /\ k \in DOMAIN lg /\ l[k] = lg[k]
    BY <1>9, <1>12, <2>1 DEF AnswersFit
  <2>2. CASE i \in DOMAIN lg /\ l[i] = lg[i] /\ l[k].op = o
    BY <1>3, <1>11, <1>12, <2>2
  <2>3. CASE k \in DOMAIN lg /\ l[k] = lg[k] /\ l[i].op = o
    BY <1>3, <1>11, <1>12, <2>3
  <2> QED  BY <1>8, <1>12, <2>1, <2>2, <2>3
<1>13. AnswersFit(keeps, l, v)
  BY <1>10, <1>12 DEF AnswersFit
<1>14. Passed(keeps, x, l, v)
  <2>1. \A p \in Operations : x[p] >= 1 => v[p] >= 1
    BY <1>1, <1>5, <1>6 DEF Passed
  <2>2. ASSUME keeps, NEW i \in DOMAIN l, l[i].fate = "written"
        PROVE  x[l[i].op] >= 1
    BY <1>6, <1>8, <1>11, <2>2
  <2> QED  BY <2>1, <2>2 DEF Passed
<1> QED  BY <1>4, <1>13, <1>14 DEF LedgerFits, F, l, v

\* The ledger refuses an input: it was received before.
LEMMA LedgerRefuses ==
    ASSUME NEW keeps \in BOOLEAN, NEW e,
           NEW lg \in Seq(Settled), NEW r \in [Operations -> Nat],
           LedgerFits(TRUE, keeps, e, lg, r),
           NEW o \in Operations, NEW f, f = Sweep(e, 0), Outcome(f, o, Bytes) # "admitted",
           NEW cl, NoGap(r, cl), cl.base <= o
    PROVE  /\ Reason[Outcome(f, o, Bytes)] \in LedgerReasons
           /\ LedgerFits(TRUE, keeps, f,
                         lg \o All(<<o>>, Reason[Outcome(f, o, Bytes)]), [r EXCEPT ![o] = @ + 1])
<1> DEFINE fate == Reason[Outcome(f, o, Bytes)]
           F == All(<<o>>, fate)
           l == lg \o F
           v == [r EXCEPT ![o] = @ + 1]
<1>1. PICK w \in [Operations -> Nat] : EntryInv(e, w) /\ Passed(keeps, w, lg, r)
  BY DEF LedgerFits
<1>2. EntryInv(f, w)
  BY <1>1, SweepKeeps
<1>3. \/ /\ Outcome(f, o, Bytes) \in {"duplicate", "expired", "payload-mismatch"}
         /\ o \in Known(f)
      \/ /\ Outcome(f, o, Bytes) = "unknown"
         /\ o \in Sequenced
         /\ \E q \in Sequenced : /\ w[q] >= 1
                                 /\ Sequence[q].epoch = Sequence[o].epoch
                                 /\ Sequence[o].start <= Sequence[q].start
  BY <1>2, RefusedIsKnown
<1>4. fate \in LedgerReasons
  BY <1>3 DEF Reason, LedgerReasons
<1>5. r[o] >= 1
  <2>1. CASE o \in Known(f)
    BY <1>1, <1>2, <2>1 DEF EntryInv, Passed
  <2>2. CASE \E q \in Sequenced : w[q] >= 1 /\ Sequence[o].start <= Sequence[q].start
    <3>1. PICK q \in Operations : w[q] >= 1 /\ o <= q
      BY <2>2, OperationFacts
    <3>2. r[q] >= 1
      BY <1>1, <3>1 DEF Passed
    <3>3. o \in Nat /\ q \in Nat
      BY OperationFacts
    <3>4. o = q \/ o < q
      BY <3>1, <3>3
    <3> QED  BY <3>2, <3>4 DEF NoGap
  <2> QED  BY <1>3, <2>1, <2>2
<1>6. /\ v \in [Operations -> Nat]
      /\ \A p \in Operations : r[p] <= v[p]
      /\ v[o] >= 2
  BY <1>5
<1>7. /\ F \in Seq(Settled) /\ DOMAIN F = {1} /\ F[1].op = o /\ F[1].fate = fate /\ Len(F) = 1
  <2> DEFINE entry == [op |-> o, fate |-> fate]
  <2>1. entry \in Settled /\ entry.op = o /\ entry.fate = fate
    <3> HIDE DEF fate
    <3> QED  BY <1>4 DEF Settled, Fates
  <2>2. F = <<entry>>
    BY DEF All
  <2> HIDE DEF entry, F, fate
  <2> QED  BY <2>1, <2>2
<1>8. fate # "written"
  BY <1>4 DEF LedgerReasons
<1> HIDE DEF F, v, fate
<1>9. ASSUME NEW i \in DOMAIN l
      PROVE  \/ i \in DOMAIN lg /\ l[i] = lg[i] /\ lg[i].op \in Operations
             \/ l[i].op = o /\ l[i].fate = fate
  <2>1. CASE i \in 1 .. Len(lg)
    <3>1. i \in DOMAIN lg /\ l[i] = lg[i]
      BY <1>7, <2>1, LogGoesOn
    <3>2. lg[i] \in Settled
      BY <3>1
    <3> QED  BY <3>1, <3>2 DEF Settled
  <2>2. CASE \E j \in 1 .. Len(F) : i = Len(lg) + j
    <3>1. PICK j \in 1 .. Len(F) : i = Len(lg) + j
      BY <2>2
    <3>2. j = 1
      BY <1>7
    <3>3. l[i] = F[1]
      BY <1>7, <3>1, <3>2, LogGoesOn
    <3> QED  BY <1>7, <3>3
  <2> QED  BY <1>7, <2>1, <2>2, LogGoesOn
<1> HIDE DEF l
<1>10. AnswersFit(keeps, lg, r)
  BY DEF LedgerFits
<1>11. ASSUME NEW i \in DOMAIN l, l[i].fate \in LedgerReasons
       PROVE  v[l[i].op] >= 2
  <2>1. CASE i \in DOMAIN lg /\ l[i] = lg[i] /\ lg[i].op \in Operations
    <3>1. r[lg[i].op] >= 2
      BY <1>10, <1>11, <2>1 DEF AnswersFit
    <3> QED  BY <1>6, <2>1, <3>1
  <2>2. CASE l[i].op = o
    BY <1>6, <2>2
  <2> QED  BY <1>9, <2>1, <2>2
<1>12. ASSUME keeps, NEW i \in DOMAIN l, NEW k \in DOMAIN l, i # k, l[i].op = l[k].op,
              l[i].fate = "written", l[k].fate = "written"
       PROVE  FALSE
  BY <1>8, <1>9, <1>10, <1>12 DEF AnswersFit
<1>13. AnswersFit(keeps, l, v)
  BY <1>11, <1>12 DEF AnswersFit
<1>14. Passed(keeps, w, l, v)
  <2>1. \A p \in Operations : w[p] >= 1 => v[p] >= 1
    BY <1>1, <1>6 DEF Passed
  <2>2. ASSUME keeps, NEW i \in DOMAIN l, l[i].fate = "written"
        PROVE  w[l[i].op] >= 1
    BY <1>1, <1>8, <1>9, <2>2 DEF Passed
  <2> QED  BY <2>1, <2>2 DEF Passed
<1>15. LedgerFits(TRUE, keeps, f, l, v)
  BY <1>2, <1>13, <1>14 DEF LedgerFits
<1> QED  BY <1>4, <1>15 DEF F, l, v, fate

-----------------------------------------------------------------------------
(* The replay fence.                                                         *)

\* What a connection record holds.
LEMMA MetaFacts ==
    ASSUME NEW m \in Meta
    PROVE  /\ QueueOf(m) \in Seq(Operations)
           /\ m.replayPending = NoPending => QueueOf(m) = <<>> /\ m.replayPending.token = 0
           /\ m.replayPending # NoPending =>
                 /\ m.replayPending \in
                       [token : 1 .. MaxTokens, authority : BOOLEAN, inputs : Seq(Operations)]
                 /\ QueueOf(m) = m.replayPending.inputs
                 /\ m.replayPending.token \in Nat /\ m.replayPending.token >= 1
                 /\ m.replayPending.authority \in BOOLEAN
           /\ m.tokens \in Nat /\ m.tokens <= MaxTokens /\ MaxTokens \in Nat
           /\ m.snapshots \subseteq 1 .. MaxTokens
           /\ m.subscribed \in BOOLEAN /\ m.screenRepair \in BOOLEAN
<1>1. MaxTokens \in Nat
  BY InputAssumption
<1>2. /\ m.tokens \in Nat /\ m.tokens <= MaxTokens
      /\ m.snapshots \subseteq 1 .. MaxTokens
      /\ m.subscribed \in BOOLEAN /\ m.screenRepair \in BOOLEAN
  BY <1>1 DEF Meta
<1>3. m.replayPending = NoPending => QueueOf(m) = <<>> /\ m.replayPending.token = 0
  BY DEF QueueOf, NoPending
<1>4. m.replayPending # NoPending =>
         m.replayPending \in [token : 1 .. MaxTokens, authority : BOOLEAN, inputs : Seq(Operations)]
  BY DEF Meta
<1>5. m.replayPending # NoPending =>
         /\ QueueOf(m) = m.replayPending.inputs
         /\ m.replayPending.inputs \in Seq(Operations)
         /\ m.replayPending.token \in Nat /\ m.replayPending.token >= 1
         /\ m.replayPending.authority \in BOOLEAN
  BY <1>1, <1>4 DEF QueueOf
<1>6. QueueOf(m) \in Seq(Operations)
  BY <1>3, <1>5, EmptySeq
<1> QED  BY <1>1, <1>2, <1>3, <1>4, <1>5, <1>6

\* The fence is gone.
LEMMA Cleared ==
    ASSUME NEW m \in Meta
    PROVE  /\ ClearPending(m) \in Meta
           /\ QueueOf(ClearPending(m)) = <<>>
           /\ ClearPending(m).replayPending = NoPending
           /\ ClearPending(m).tokens = m.tokens
           /\ ClearPending(m).snapshots = m.snapshots
           /\ ClearPending(m).subscribed = m.subscribed
           /\ ClearPending(m).screenRepair = m.screenRepair
BY DEF Meta, ClearPending, QueueOf

\* Record f is m with the fence of a new token, behind which q waits.
RaisedOver(m, q, f) ==
    /\ f \in Meta /\ SendSnapshot(f) \in Meta
    /\ QueueOf(f) = q /\ QueueOf(SendSnapshot(f)) = q
    /\ f.replayPending.token = m.tokens + 1 /\ f.tokens = m.tokens + 1
    /\ f.snapshots = m.snapshots
    /\ f.subscribed = m.subscribed
    /\ SendSnapshot(f).replayPending = f.replayPending
    /\ SendSnapshot(f).tokens = m.tokens + 1
    /\ SendSnapshot(f).snapshots = m.snapshots \cup {m.tokens + 1}
    /\ SendSnapshot(f).subscribed = m.subscribed

\* The fence of a new token stands, before and after its snapshot is sent.
LEMMA Raised ==
    ASSUME NEW m \in Meta, m.tokens < MaxTokens,
           NEW authority \in BOOLEAN, NEW q \in Seq(Operations)
    PROVE  RaisedOver(m, q, Fence(m, authority, q))
<1> DEFINE f == Fence(m, authority, q)
           pending == [token |-> m.tokens + 1, authority |-> authority, inputs |-> q]
<1>1. /\ m.tokens \in Nat /\ MaxTokens \in Nat /\ m.snapshots \subseteq 1 .. MaxTokens
      /\ m.subscribed \in BOOLEAN /\ m.screenRepair \in BOOLEAN
  BY MetaFacts
<1>2. m.tokens + 1 \in 1 .. MaxTokens /\ m.tokens + 1 \in 0 .. MaxTokens
  BY <1>1
<1>3. /\ pending \in [token : 1 .. MaxTokens, authority : BOOLEAN, inputs : Seq(Operations)]
      /\ pending.token = m.tokens + 1 /\ pending.inputs = q
  BY <1>2
<1>4. pending # NoPending
  <2>1. NoPending.token = 0
    BY DEF NoPending
  <2> HIDE DEF pending
  <2> QED  BY <1>1, <1>3, <2>1
<1>5. f = [subscribed |-> m.subscribed, screenRepair |-> m.screenRepair, tokens |-> m.tokens + 1,
           snapshots |-> m.snapshots, replayPending |-> pending]
  <2>1. f = [m EXCEPT !.tokens = m.tokens + 1, !.replayPending = pending]
    BY DEF Fence
  <2> HIDE DEF pending
  <2> QED  BY <2>1 DEF Meta
<1> HIDE DEF pending, f
<1>6. /\ f \in Meta /\ QueueOf(f) = q /\ f.replayPending = pending /\ f.tokens = m.tokens + 1
      /\ f.snapshots = m.snapshots /\ f.subscribed = m.subscribed
      /\ f.screenRepair = m.screenRepair
  BY <1>1, <1>2, <1>3, <1>4, <1>5 DEF Meta, QueueOf
<1> DEFINE g == SendSnapshot(f)
<1>7. g = [subscribed |-> m.subscribed, screenRepair |-> m.screenRepair, tokens |-> m.tokens + 1,
           snapshots |-> m.snapshots \cup {m.tokens + 1}, replayPending |-> pending]
  <2>1. f.replayPending.token = m.tokens + 1
    BY <1>3, <1>6
  <2>2. g = [f EXCEPT !.snapshots = m.snapshots \cup {m.tokens + 1}]
    BY <1>6, <2>1 DEF SendSnapshot
  <2> DEFINE more == m.snapshots \cup {m.tokens + 1}
             next == m.tokens + 1
  <2>3. /\ g = [f EXCEPT !.snapshots = more]
        /\ f = [subscribed |-> m.subscribed, screenRepair |-> m.screenRepair, tokens |-> next,
                snapshots |-> m.snapshots, replayPending |-> pending]
    BY <1>5, <2>2
  <2> HIDE DEF g, more, next
  <2>4. g = [subscribed |-> m.subscribed, screenRepair |-> m.screenRepair, tokens |-> next,
             snapshots |-> more, replayPending |-> pending]
    BY <2>3
  <2> QED  BY <2>4 DEF more, next
<1> HIDE DEF g
<1>8. m.snapshots \cup {m.tokens + 1} \subseteq 1 .. MaxTokens
  BY <1>1, <1>2
<1>9. /\ g \in Meta /\ QueueOf(g) = q /\ g.replayPending = pending /\ g.tokens = m.tokens + 1
      /\ g.snapshots = m.snapshots \cup {m.tokens + 1} /\ g.subscribed = m.subscribed
  BY <1>1, <1>2, <1>3, <1>4, <1>7, <1>8 DEF Meta, QueueOf
<1>10. RaisedOver(m, q, f)
  BY <1>3, <1>6, <1>9 DEF RaisedOver, g
<1> QED  BY <1>10 DEF f

-----------------------------------------------------------------------------
(* The steps of one client, on what is known of it.                          *)

Good(alive, keeps, s, ch, m, e, cl, r, lg) ==
    /\ Here(s, ch, QueueOf(m), lg, cl, r)
    /\ m \in Meta
    /\ e \in Entry
    /\ Orderly(s, ch, QueueOf(m), lg, cl, r)
    /\ FenceFits(s, ch, m)
    /\ LedgerFits(alive, keeps, e, lg, r)

\* A message that is no input is taken from the channel.
LEMMA GoodTakes ==
    ASSUME NEW alive, NEW keeps, NEW s, NEW ch, NEW m, NEW e, NEW cl, NEW r, NEW lg,
           Good(alive, keeps, s, ch, m, e, cl, r, lg),
           ch # <<>>, Head(ch).type # "input"
    PROVE  Good(alive, keeps, s, Tail(ch), m, e, cl, r, lg)
<1>1. Here(s, ch, QueueOf(m), lg, cl, r) /\ Orderly(s, ch, QueueOf(m), lg, cl, r)
  BY DEF Good
<1>2. Orderly(s, Tail(ch), QueueOf(m), lg, cl, r)
  BY <1>1, OtherTaken
<1>3. ch \in Seq(Message) /\ Tail(ch) \in Seq(Message) /\ Len(Tail(ch)) = Len(ch) - 1
  BY <1>1 DEF Here
<1>4. Here(s, Tail(ch), QueueOf(m), lg, cl, r)
  BY <1>1, <1>3 DEF Here
<1>5. \A p \in DOMAIN Tail(ch) : p + 1 \in DOMAIN ch /\ Tail(ch)[p] = ch[p + 1]
  BY <1>3
<1>6. FenceFits(s, ch, m) /\ s # "closed"
  BY DEF Good, FenceFits
<1>7. FenceFits(s, Tail(ch), m)
  <2> DEFINE t == Tail(ch)
  <2> HIDE DEF t
  <2>1. FenceFits(s, t, m)
    BY <1>5, <1>6 DEF FenceFits, t
  <2> QED  BY <2>1 DEF t
<1> QED  BY <1>2, <1>4, <1>7 DEF Good

\* A message that is no input, nor an acknowledgement, follows.
LEMMA GoodFollows ==
    ASSUME NEW alive, NEW keeps, NEW s, NEW ch, NEW m, NEW e, NEW cl, NEW r, NEW lg,
           Good(alive, keeps, s, ch, m, e, cl, r, lg), s = "open",
           NEW message \in Message, message.type \notin {"input", "snapshot:ready"}
    PROVE  Good(alive, keeps, s, Append(ch, message), m, e, cl, r, lg)
<1>1. Here(s, ch, QueueOf(m), lg, cl, r) /\ Orderly(s, ch, QueueOf(m), lg, cl, r)
  BY DEF Good
<1>2. Orderly(s, Append(ch, message), QueueOf(m), lg, cl, r)
  BY <1>1, OtherFollows
<1>3. ch \in Seq(Message)
  BY <1>1 DEF Here
<1> DEFINE t == Append(ch, message)
<1>4. t \in Seq(Message)
  BY <1>3
<1>5. ASSUME NEW p \in DOMAIN t
      PROVE  \/ t[p] = message
             \/ p \in DOMAIN ch /\ t[p] = ch[p]
  BY <1>3
<1> HIDE DEF t
<1>6. Here(s, t, QueueOf(m), lg, cl, r)
  BY <1>1, <1>4 DEF Here
<1>7. FenceFits(s, t, m)
  BY <1>5 DEF Good, FenceFits
<1> QED  BY <1>2, <1>6, <1>7 DEF Good, t

\* The record changes, its queue does not.
LEMMA GoodRecord ==
    ASSUME NEW alive, NEW keeps, NEW s, NEW ch, NEW m, NEW e, NEW cl, NEW r, NEW lg,
           Good(alive, keeps, s, ch, m, e, cl, r, lg),
           NEW n \in Meta, QueueOf(n) = QueueOf(m), FenceFits(s, ch, n)
    PROVE  Good(alive, keeps, s, ch, n, e, cl, r, lg)
BY DEF Good

\* What waits is settled without the ledger, and the fence is gone.
LEMMA GoodDrains ==
    ASSUME NEW alive \in BOOLEAN, NEW keeps \in BOOLEAN,
           NEW s, NEW ch, NEW m, NEW e, NEW cl, NEW r, NEW lg,
           Good(alive, keeps, s, ch, m, e, cl, r, lg), s # "closed",
           NEW F \in Seq(Settled), Ops(F) = QueueOf(m),
           \A i \in DOMAIN F : F[i].fate \notin LedgerReasons \cup {"written"}
    PROVE  Good(alive, keeps, s, ch, ClearPending(m), e, cl, r, lg \o F)
<1> DEFINE n == ClearPending(m)
<1>1. /\ Here(s, ch, QueueOf(m), lg, cl, r) /\ Orderly(s, ch, QueueOf(m), lg, cl, r)
      /\ m \in Meta /\ LedgerFits(alive, keeps, e, lg, r)
  BY DEF Good
<1>2. /\ n \in Meta /\ QueueOf(n) = <<>> /\ n.replayPending = NoPending
      /\ n.tokens = m.tokens /\ n.snapshots = m.snapshots
      /\ n.subscribed = m.subscribed /\ n.screenRepair = m.screenRepair
  BY <1>1, Cleared
<1> HIDE DEF n
<1>3. Orderly(s, ch, <<>>, lg \o F, cl, r)
  BY <1>1, Drained
<1>4. /\ lg \in Seq(Settled) /\ r \in [Operations -> Nat] /\ \A o \in Operations : r[o] <= r[o]
      /\ lg \o F \in Seq(Settled) /\ <<>> \in Seq(Operations)
  BY <1>1, EmptySeq DEF Here
<1>5. LedgerFits(alive, keeps, e, lg \o F, r)
  BY <1>1, <1>4, LedgerStands
<1>6. FenceFits(s, ch, n)
  BY <1>2 DEF Good, FenceFits
<1>7. Here(s, ch, <<>>, lg \o F, cl, r)
  BY <1>1, <1>4 DEF Here
<1> QED  BY <1>2, <1>3, <1>5, <1>6, <1>7 DEF Good, n

\* A fence of a new token takes the inputs over, before and after its snapshot is sent.
LEMMA GoodRaises ==
    ASSUME NEW alive, NEW keeps, NEW s, NEW ch, NEW m, NEW e, NEW cl, NEW r, NEW lg,
           Good(alive, keeps, s, ch, m, e, cl, r, lg), s # "closed",
           m.subscribed, m.tokens < MaxTokens, NEW authority \in BOOLEAN
    PROVE  /\ Good(alive, keeps, s, ch, Fence(m, authority, QueueOf(m)), e, cl, r, lg)
           /\ Good(alive, keeps, s, ch, SendSnapshot(Fence(m, authority, QueueOf(m))), e, cl, r, lg)
<1> DEFINE q == QueueOf(m)
           f == Fence(m, authority, QueueOf(m))
           g == SendSnapshot(f)
<1>1. m \in Meta /\ FenceFits(s, ch, m) /\ ch \in Seq(Message) /\ q \in Seq(Operations)
  BY DEF Good, Here
<1>2. /\ f \in Meta /\ g \in Meta
      /\ QueueOf(f) = q /\ QueueOf(g) = q
      /\ f.replayPending.token = m.tokens + 1 /\ f.tokens = m.tokens + 1
      /\ f.snapshots = m.snapshots
      /\ f.subscribed = m.subscribed
      /\ g.replayPending = f.replayPending
      /\ g.tokens = m.tokens + 1
      /\ g.snapshots = m.snapshots \cup {m.tokens + 1}
      /\ g.subscribed = m.subscribed
  <2>1. RaisedOver(m, q, f)
    BY <1>1, Raised
  <2> HIDE DEF f, q
  <2> QED  BY <2>1 DEF RaisedOver
<1>3. m.tokens \in Nat
  BY <1>1, MetaFacts
<1> HIDE DEF f, g
<1>4. \A p \in DOMAIN ch : ch[p].type = "snapshot:ready" =>
         ch[p].token \in Nat /\ ch[p].token <= m.tokens /\ ch[p].token \notin m.snapshots
  <2>1. \A p \in DOMAIN ch : ch[p].type = "snapshot:ready" => ch[p].token \in Nat
    BY <1>1, MessageFacts, InputAssumption
  <2> QED  BY <1>1, <2>1 DEF FenceFits
<1>5. m.snapshots \subseteq 1 .. m.tokens + 1
  <2>1. m.snapshots \subseteq 1 .. m.tokens
    BY <1>1 DEF FenceFits
  <2> QED  BY <1>3, <2>1
<1>6. FenceFits(s, ch, f)
  <2>1. \A p \in DOMAIN ch : ch[p].type = "snapshot:ready" =>
           ch[p].token <= f.tokens /\ ch[p].token \notin f.snapshots
    BY <1>2, <1>3, <1>4
  <2> QED  BY <1>2, <1>5, <2>1 DEF FenceFits
<1>7. FenceFits(s, ch, g)
  <2>1. \A p \in DOMAIN ch : ch[p].type = "snapshot:ready" =>
           ch[p].token <= g.tokens /\ ch[p].token \notin g.snapshots
    BY <1>2, <1>3, <1>4
  <2>2. g.snapshots \subseteq 1 .. g.tokens
    BY <1>2, <1>3, <1>5
  <2> QED  BY <1>2, <2>1, <2>2 DEF FenceFits
<1>8. Good(alive, keeps, s, ch, f, e, cl, r, lg)
  BY <1>2, <1>6, GoodRecord
<1>9. Good(alive, keeps, s, ch, g, e, cl, r, lg)
  BY <1>2, <1>7, GoodRecord
<1> QED  BY <1>8, <1>9 DEF f, g

\* Nothing waits, nothing is settled.
LEMMA NothingSettled ==
    ASSUME NEW lg \in Seq(Settled), NEW fate
    PROVE  lg \o All(<<>>, fate) = lg
<1>1. All(<<>>, fate) = <<>>
  BY DEF All
<1> QED  BY <1>1, ConcatEmptySeq

\* A snapshot takes the place of the fence; what it displaces is settled.
LEMMA GoodReplays ==
    ASSUME NEW alive \in BOOLEAN, NEW keeps \in BOOLEAN,
           NEW s, NEW ch, NEW m, NEW e, NEW cl, NEW r, NEW lg,
           Good(alive, keeps, s, ch, m, e, cl, r, lg), s # "closed",
           m.subscribed, m.tokens < MaxTokens
    PROVE  /\ Displaced(m) = <<>> => Good(alive, keeps, s, ch, SnapshotReplay(m), e, cl, r, lg)
           /\ Good(alive, keeps, s, ch, SnapshotReplay(m), e, cl, r,
                   lg \o All(Displaced(m), "context-changed"))
           /\ Good(alive, keeps, s, ch, AuthorityFence(m), e, cl, r, lg)
           /\ m.replayPending = NoPending \/ m.replayPending.authority => Displaced(m) = <<>>
<1>1. m \in Meta /\ lg \in Seq(Settled)
  BY DEF Good, Here
<1>2. /\ QueueOf(m) \in Seq(Operations)
      /\ m.replayPending = NoPending => QueueOf(m) = <<>>
      /\ m.replayPending # NoPending => QueueOf(m) = m.replayPending.inputs
  BY <1>1, MetaFacts
<1>3. Displaced(m) = <<>> => Seed(m) = QueueOf(m)
  BY <1>2 DEF Displaced, Seed
<1>4. Displaced(m) # <<>> => Seed(m) = <<>> /\ Displaced(m) = QueueOf(m)
  BY <1>2 DEF Displaced, Seed
<1>5. Good(alive, keeps, s, ch, SendSnapshot(Fence(m, FALSE, QueueOf(m))), e, cl, r, lg)
  BY GoodRaises
<1>6. Displaced(m) = <<>> => Good(alive, keeps, s, ch, SnapshotReplay(m), e, cl, r, lg)
  BY <1>3, <1>5 DEF SnapshotReplay
<1>7. ASSUME Displaced(m) = <<>>
      PROVE  Good(alive, keeps, s, ch, SnapshotReplay(m), e, cl, r,
                  lg \o All(Displaced(m), "context-changed"))
  BY <1>1, <1>6, <1>7, NothingSettled
<1>8. ASSUME Displaced(m) # <<>>
      PROVE  Good(alive, keeps, s, ch, SnapshotReplay(m), e, cl, r,
                  lg \o All(Displaced(m), "context-changed"))
  <2> DEFINE n == ClearPending(m)
             F == All(QueueOf(m), "context-changed")
  <2>1. "context-changed" \in Fates /\ "context-changed" \notin LedgerReasons \cup {"written"}
    BY DEF Fates, LedgerReasons
  <2>2. /\ F \in Seq(Settled) /\ Ops(F) = QueueOf(m)
        /\ \A i \in DOMAIN F : F[i].fate = "context-changed"
    BY <1>2, <2>1, AllFacts
  <2>3. /\ n \in Meta /\ QueueOf(n) = <<>> /\ n.tokens = m.tokens /\ n.subscribed = m.subscribed
    BY <1>1, Cleared
  <2>4. Fence(n, FALSE, <<>>) = Fence(m, FALSE, <<>>)
    BY <1>1 DEF Fence, ClearPending, Meta
  <2> HIDE DEF F, n
  <2>5. Good(alive, keeps, s, ch, n, e, cl, r, lg \o F)
    BY <2>1, <2>2, GoodDrains DEF n
  <2>6. Good(alive, keeps, s, ch, SendSnapshot(Fence(n, FALSE, <<>>)), e, cl, r, lg \o F)
    BY <2>3, <2>5, GoodRaises
  <2>7. Good(alive, keeps, s, ch, SnapshotReplay(m), e, cl, r, lg \o F)
    BY <1>4, <1>8, <2>4, <2>6 DEF SnapshotReplay
  <2> QED  BY <1>4, <1>8, <2>7 DEF F
<1>9. Good(alive, keeps, s, ch, AuthorityFence(m), e, cl, r, lg)
  <2>1. Good(alive, keeps, s, ch, Fence(m, TRUE, QueueOf(m)), e, cl, r, lg)
    BY GoodRaises
  <2> QED  BY <1>2, <2>1 DEF AuthorityFence
<1>10. m.replayPending = NoPending \/ m.replayPending.authority => Displaced(m) = <<>>
  BY <1>2 DEF Displaced, Seed
<1> QED  BY <1>6, <1>7, <1>8, <1>9, <1>10

\* A client that unsubscribes has no fence and no repair.
LEMMA GoodUnsubscribes ==
    ASSUME NEW alive \in BOOLEAN, NEW keeps \in BOOLEAN,
           NEW s, NEW ch, NEW m, NEW e, NEW cl, NEW r, NEW lg,
           Good(alive, keeps, s, ch, m, e, cl, r, lg), s # "closed",
           NEW fate \in Fates \ (LedgerReasons \cup {"written"})
    PROVE  Good(alive, keeps, s, ch, Unsubscribed(m), e, cl, r, lg \o All(QueueOf(m), fate))
<1> DEFINE n == ClearPending(m)
           u == Unsubscribed(m)
           F == All(QueueOf(m), fate)
<1>1. m \in Meta
  BY DEF Good
<1>2. QueueOf(m) \in Seq(Operations)
  BY <1>1, MetaFacts
<1>3. /\ F \in Seq(Settled) /\ Ops(F) = QueueOf(m)
      /\ \A i \in DOMAIN F : F[i].fate = fate
  BY <1>2, AllFacts
<1>4. /\ n \in Meta /\ QueueOf(n) = <<>> /\ n.replayPending = NoPending
  BY <1>1, Cleared
<1>5. u = [n EXCEPT !.subscribed = FALSE, !.screenRepair = FALSE]
  BY DEF Unsubscribed
<1> HIDE DEF n, u, F
<1>6. /\ u \in Meta /\ u.replayPending = NoPending /\ u.tokens = n.tokens
      /\ u.snapshots = n.snapshots /\ u.screenRepair = FALSE
  BY <1>4, <1>5 DEF Meta
<1>7. QueueOf(u) = <<>>
  BY <1>6 DEF QueueOf
<1>8. Good(alive, keeps, s, ch, n, e, cl, r, lg \o F)
  BY <1>3, GoodDrains DEF n
<1>9. FenceFits(s, ch, u)
  BY <1>6, <1>8 DEF Good, FenceFits
<1>10. Good(alive, keeps, s, ch, u, e, cl, r, lg \o F)
  BY <1>4, <1>6, <1>7, <1>8, <1>9, GoodRecord
<1> QED  BY <1>10 DEF u, F

-----------------------------------------------------------------------------
(* The actions.                                                              *)

\* What the invariant says of one client.
LEMMA AtHand ==
    ASSUME IInv, NEW c \in Clients
    PROVE  /\ Good(live, c \notin Legacy, socket[c], channel[c], meta[c], ledger[c],
                   client[c], received[c], log[c])
           /\ Queue(c) = QueueOf(meta[c])
           /\ live \in BOOLEAN /\ (c \notin Legacy) \in BOOLEAN
           /\ meta[c] \in Meta /\ channel[c] \in Seq(Message) /\ log[c] \in Seq(Settled)
<1>1. TypeOK /\ Fits(c)
  BY DEF IInv
<1>2. /\ socket[c] \in SocketState /\ channel[c] \in Seq(Message) /\ meta[c] \in Meta
      /\ ledger[c] \in Entry /\ client[c] \in Typed /\ received[c] \in [Operations -> Nat]
      /\ log[c] \in Seq(Settled) /\ live \in BOOLEAN
  BY <1>1 DEF TypeOK
<1>3. QueueOf(meta[c]) \in Seq(Operations)
  BY <1>2, MetaFacts
<1>4. Here(socket[c], channel[c], QueueOf(meta[c]), log[c], client[c], received[c])
  BY <1>2, <1>3 DEF Here
<1>5. Queue(c) = QueueOf(meta[c])
  BY DEF Queue, QueueOf, Pending
<1> QED  BY <1>1, <1>2, <1>4, <1>5 DEF Good, Fits

\* A step of one client is good when what it makes of the client is.
LEMMA OneClient ==
    ASSUME IInv, NEW c \in Clients, live' = live,
           NEW s, NEW ch, NEW m, NEW e, NEW cl, NEW r, NEW lg,
           socket' = [socket EXCEPT ![c] = s],
           channel' = [channel EXCEPT ![c] = ch],
           meta' = [meta EXCEPT ![c] = m],
           ledger' = [ledger EXCEPT ![c] = e],
           client' = [client EXCEPT ![c] = cl],
           received' = [received EXCEPT ![c] = r],
           log' = [log EXCEPT ![c] = lg],
           Good(live, c \notin Legacy, s, ch, m, e, cl, r, lg)
    PROVE  IInv'
<1>1. TypeOK /\ \A d \in Clients : Fits(d)
  BY DEF IInv
<1>2. /\ s \in SocketState /\ ch \in Seq(Message) /\ m \in Meta /\ e \in Entry
      /\ cl \in Typed /\ r \in [Operations -> Nat] /\ lg \in Seq(Settled)
  BY DEF Good, Here
<1>3. TypeOK'
  BY <1>1, <1>2 DEF TypeOK
<1>4. /\ socket'[c] = s /\ channel'[c] = ch /\ meta'[c] = m /\ ledger'[c] = e
      /\ client'[c] = cl /\ received'[c] = r /\ log'[c] = lg
  BY <1>1 DEF TypeOK
<1>5. Fits(c)'
  BY <1>4 DEF Good, Fits
<1>6. ASSUME NEW d \in Clients, d # c
      PROVE  Fits(d)'
  <2>1. /\ socket'[d] = socket[d] /\ channel'[d] = channel[d] /\ meta'[d] = meta[d]
        /\ ledger'[d] = ledger[d] /\ client'[d] = client[d] /\ received'[d] = received[d]
        /\ log'[d] = log[d]
    BY <1>1, <1>6 DEF TypeOK
  <2> QED  BY <1>1, <2>1 DEF Fits
<1> QED  BY <1>3, <1>5, <1>6 DEF IInv

\* A variable that does not change, as the lemma above wants it.
LEMMA Unchanged ==
    ASSUME TypeOK, NEW c \in Clients
    PROVE  /\ socket = [socket EXCEPT ![c] = socket[c]]
           /\ channel = [channel EXCEPT ![c] = channel[c]]
           /\ meta = [meta EXCEPT ![c] = meta[c]]
           /\ ledger = [ledger EXCEPT ![c] = ledger[c]]
           /\ client = [client EXCEPT ![c] = client[c]]
           /\ received = [received EXCEPT ![c] = received[c]]
           /\ log = [log EXCEPT ![c] = log[c]]
BY DEF TypeOK

\* What is under way when a message follows.
LEMMA Followed ==
    ASSUME NEW ch \in Seq(Message), NEW message \in Message, NEW t, t = Append(ch, message)
    PROVE  /\ t \in Seq(Message)
           /\ \A p \in DOMAIN t : \/ t[p] = message
                                  \/ p \in DOMAIN ch /\ t[p] = ch[p]
<1>1. t \in Seq(Message)
  OBVIOUS
<1>2. ASSUME NEW p \in DOMAIN t
      PROVE  \/ t[p] = message
             \/ p \in DOMAIN ch /\ t[p] = ch[p]
  OBVIOUS
<1> QED  BY <1>1, <1>2

\* What is known of a client whose message is taken, when it is no input.
LEMMA Taken ==
    ASSUME IInv, NEW c \in Clients, NEW type, Receive(c, type), type # "input"
    PROVE  /\ Good(live, c \notin Legacy, socket[c], Tail(channel[c]), meta[c], ledger[c],
                   client[c], received[c], log[c])
           /\ socket[c] # "closed"
           /\ channel' = [channel EXCEPT ![c] = Tail(channel[c])]
           /\ 1 \in DOMAIN channel[c] /\ channel[c][1] = Head(channel[c])
           /\ Head(channel[c]).type = type
<1>1. /\ socket[c] # "closed" /\ channel[c] # <<>> /\ Head(channel[c]).type = type
      /\ channel' = [channel EXCEPT ![c] = Tail(channel[c])]
  BY DEF Receive
<1>2. channel[c] \in Seq(Message)
  BY AtHand
<1>3. 1 \in DOMAIN channel[c] /\ channel[c][1] = Head(channel[c])
  BY <1>1, <1>2
<1> QED  BY <1>1, <1>3, AtHand, GoodTakes

LEMMA ConnectKeeps ==
    ASSUME IInv, NEW c \in Clients, Connect(c)
    PROVE  IInv'
<1> DEFINE m == meta[c]
           cl == client[c]
<1>1. /\ Good(live, c \notin Legacy, "closed", channel[c], m, ledger[c], cl, received[c], log[c])
      /\ TypeOK
  BY AtHand DEF Connect, IInv
<1>2. channel[c] = <<>> /\ m = NewMeta
  BY <1>1 DEF Good, FenceFits
<1>3. QueueOf(m) = <<>> /\ NewMeta.replayPending = NoPending /\ ~NewMeta.screenRepair
      /\ NewMeta.snapshots = {}
  BY <1>2 DEF QueueOf, NewMeta
<1>4. PICK from \in cl.base .. cl.next :
         client' = [client EXCEPT ![c].base = from, ![c].cursor = from, ![c].connections = @ + 1]
  BY DEF Connect
<1>5. client' = [client EXCEPT ![c] = Resumed(cl, from)]
  BY <1>1, <1>4 DEF Resumed, TypeOK, Typed
<1>6. /\ Here("closed", <<>>, <<>>, log[c], cl, received[c])
      /\ Orderly("closed", <<>>, <<>>, log[c], cl, received[c])
  BY <1>1, <1>2, <1>3 DEF Good
<1>7. cl.connections < MaxConnections
  BY DEF Connect
<1>8. /\ Orderly("open", <<>>, <<>>, log[c], Resumed(cl, from), received[c])
      /\ Resumed(cl, from) \in Typed
  BY <1>6, <1>7, ComesBack
<1>9. FenceFits("open", <<>>, m)
  BY <1>2, <1>3 DEF FenceFits
<1>10. Good(live, c \notin Legacy, "open", <<>>, m, ledger[c], Resumed(cl, from),
            received[c], log[c])
  BY <1>1, <1>3, <1>2, <1>6, <1>8, <1>9 DEF Good, Here, SocketState
<1>11. /\ live' = live
       /\ socket' = [socket EXCEPT ![c] = "open"]
       /\ channel' = [channel EXCEPT ![c] = <<>>]
       /\ meta' = [meta EXCEPT ![c] = m]
       /\ ledger' = [ledger EXCEPT ![c] = ledger[c]]
       /\ received' = [received EXCEPT ![c] = received[c]]
       /\ log' = [log EXCEPT ![c] = log[c]]
  BY <1>1, <1>2, Unchanged DEF Connect
<1> HIDE DEF m, cl
<1> QED  BY <1>5, <1>10, <1>11, OneClient

LEMMA SendInputKeeps ==
    ASSUME IInv, NEW c \in Clients, SendInput(c)
    PROVE  IInv'
<1> DEFINE cl == client[c]
           message == [type |-> "input", op |-> cl.cursor]
           t == Append(channel[c], message)
<1>1. /\ Good(live, c \notin Legacy, "open", channel[c], meta[c], ledger[c], cl,
              received[c], log[c])
      /\ TypeOK
  BY AtHand DEF SendInput, Send, IInv
<1>2. /\ cl.cursor \in Operations
      /\ socket[c] = "open"
      /\ channel' = [channel EXCEPT ![c] = t]
      /\ client' = [client EXCEPT ![c].cursor = cl.cursor + 1,
                                  ![c].next = IF @ > cl.cursor THEN @ ELSE cl.cursor + 1]
  BY DEF SendInput, Send
<1>3. client' = [client EXCEPT ![c] = Sent(cl)]
  BY <1>1, <1>2 DEF Sent, TypeOK, Typed
<1>4. /\ Orderly("open", t, QueueOf(meta[c]), log[c], Sent(cl), received[c])
      /\ Sent(cl) \in Typed /\ message \in Message
  BY <1>1, <1>2, NextSent DEF Good
<1>5. channel[c] \in Seq(Message)
  BY AtHand
<1>6. message.type # "snapshot:ready"
  OBVIOUS
<1> HIDE DEF message
<1>7. /\ t \in Seq(Message)
      /\ \A p \in DOMAIN t : \/ t[p] = message
                             \/ p \in DOMAIN channel[c] /\ t[p] = channel[c][p]
  BY <1>4, <1>5, Followed
<1> HIDE DEF t, cl
<1>8. FenceFits("open", t, meta[c])
  BY <1>1, <1>6, <1>7 DEF Good, FenceFits
<1>9. Good(live, c \notin Legacy, "open", t, meta[c], ledger[c], Sent(cl), received[c], log[c])
  BY <1>1, <1>4, <1>7, <1>8 DEF Good, Here
<1>10. /\ live' = live
       /\ socket' = [socket EXCEPT ![c] = "open"]
       /\ meta' = [meta EXCEPT ![c] = meta[c]]
       /\ ledger' = [ledger EXCEPT ![c] = ledger[c]]
       /\ received' = [received EXCEPT ![c] = received[c]]
       /\ log' = [log EXCEPT ![c] = log[c]]
  BY <1>1, <1>2, Unchanged DEF SendInput
<1> QED  BY <1>2, <1>3, <1>9, <1>10, OneClient

LEMMA SendSnapshotReadyKeeps ==
    ASSUME IInv, NEW c \in Clients, SendSnapshotReady(c)
    PROVE  IInv'
<1> DEFINE m == meta[c]
<1>1. /\ Good(live, c \notin Legacy, "open", channel[c], m, ledger[c], client[c],
              received[c], log[c])
      /\ TypeOK /\ socket[c] = "open" /\ channel[c] \in Seq(Message) /\ m \in Meta
  BY AtHand DEF SendSnapshotReady, Send, IInv
<1>2. PICK t \in m.snapshots :
         /\ channel' = [channel EXCEPT ![c] = Append(@, [type |-> "snapshot:ready", token |-> t])]
         /\ meta' = [meta EXCEPT ![c].snapshots = @ \ {t}]
         /\ UNCHANGED <<live, socket, ledger, client, received, log>>
  BY DEF SendSnapshotReady, Send
<1> DEFINE n == [m EXCEPT !.snapshots = @ \ {t}]
           message == [type |-> "snapshot:ready", token |-> t]
           ch == Append(channel[c], message)
<1>3. meta' = [meta EXCEPT ![c] = n] /\ channel' = [channel EXCEPT ![c] = ch]
  BY <1>1, <1>2 DEF TypeOK
<1>4. /\ n \in Meta /\ n.replayPending = m.replayPending /\ n.tokens = m.tokens
      /\ n.snapshots = m.snapshots \ {t} /\ n.subscribed = m.subscribed
      /\ n.screenRepair = m.screenRepair
  BY <1>1 DEF Meta
<1>5. /\ message \in Message /\ message.type = "snapshot:ready" /\ message.token = t
  <2>1. t \in 0 .. MaxTokens
    BY <1>1, MetaFacts
  <2> QED  BY <2>1 DEF Message
<1>6. t <= m.tokens
  BY <1>1, MetaFacts DEF Good, FenceFits
<1> HIDE DEF n, message
<1>7. /\ ch \in Seq(Message)
      /\ \A p \in DOMAIN ch : \/ ch[p] = message
                              \/ p \in DOMAIN channel[c] /\ ch[p] = channel[c][p]
  BY <1>1, <1>5, Followed
<1>8. Orderly("open", ch, QueueOf(m), log[c], client[c], received[c])
  BY <1>1, <1>5, OtherFollows DEF Good
<1> HIDE DEF ch, m
<1>9. QueueOf(n) = QueueOf(m)
  BY <1>4 DEF QueueOf
<1>10. FenceFits("open", ch, n)
  BY <1>1, <1>4, <1>5, <1>6, <1>7 DEF Good, FenceFits
<1>11. Good(live, c \notin Legacy, "open", ch, n, ledger[c], client[c], received[c], log[c])
  BY <1>1, <1>4, <1>7, <1>8, <1>9, <1>10 DEF Good, Here
<1>12. /\ live' = live
       /\ socket' = [socket EXCEPT ![c] = "open"]
       /\ ledger' = [ledger EXCEPT ![c] = ledger[c]]
       /\ client' = [client EXCEPT ![c] = client[c]]
       /\ received' = [received EXCEPT ![c] = received[c]]
       /\ log' = [log EXCEPT ![c] = log[c]]
  BY <1>1, <1>2, Unchanged
<1> QED  BY <1>3, <1>11, <1>12, OneClient

LEMMA SendOtherKeeps ==
    ASSUME IInv, NEW c \in Clients, SendRepairReplay(c) \/ SendControl(c)
    PROVE  IInv'
<1>1. TypeOK /\ meta[c] \in Meta /\ MaxTokens \in Nat
  BY AtHand, InputAssumption DEF IInv
<1>2. PICK message \in Message :
         /\ message.type \notin {"input", "snapshot:ready"}
         /\ Send(c, message)
         /\ UNCHANGED <<live, socket, meta, ledger, client, received, log>>
  <2>1. CASE SendRepairReplay(c)
    <3>1. PICK t \in {0} \cup meta[c].snapshots :
             /\ Send(c, [type |-> "repair-replay", token |-> t])
             /\ UNCHANGED <<live, socket, meta, ledger, client, received, log>>
      BY <2>1 DEF SendRepairReplay
    <3>2. t \in 0 .. MaxTokens
      BY <1>1, MetaFacts
    <3>3. /\ [type |-> "repair-replay", token |-> t] \in Message
          /\ [type |-> "repair-replay", token |-> t].type = "repair-replay"
      BY <3>2 DEF Message
    <3> QED  BY <3>1, <3>3
  <2>2. CASE SendControl(c)
    <3>1. PICK type \in {"subscribe", "unsubscribe", "screen-repair"} :
             /\ Send(c, [type |-> type])
             /\ UNCHANGED <<live, socket, meta, ledger, client, received, log>>
      BY <2>2 DEF SendControl
    <3>2. [type |-> type] \in Message /\ [type |-> type].type = type
      BY DEF Message
    <3> QED  BY <3>1, <3>2
  <2> QED  BY <2>1, <2>2
<1>3. /\ socket[c] = "open" /\ channel' = [channel EXCEPT ![c] = Append(channel[c], message)]
  BY <1>2 DEF Send
<1>4. Good(live, c \notin Legacy, "open", Append(channel[c], message), meta[c], ledger[c],
           client[c], received[c], log[c])
  BY <1>2, <1>3, AtHand, GoodFollows
<1>5. /\ live' = live
      /\ socket' = [socket EXCEPT ![c] = "open"]
      /\ meta' = [meta EXCEPT ![c] = meta[c]]
      /\ ledger' = [ledger EXCEPT ![c] = ledger[c]]
      /\ client' = [client EXCEPT ![c] = client[c]]
      /\ received' = [received EXCEPT ![c] = received[c]]
      /\ log' = [log EXCEPT ![c] = log[c]]
  BY <1>1, <1>2, <1>3, Unchanged
<1> QED  BY <1>3, <1>4, <1>5, OneClient

\* An input is taken from the channel and settled.
LEMMA GoodSettles ==
    ASSUME NEW alive, NEW keeps, NEW s, NEW ch, NEW m, NEW e, NEW cl, NEW r, NEW lg,
           Good(alive, keeps, s, ch, m, e, cl, r, lg), s # "closed",
           ch # <<>>, Head(ch).type = "input", NEW o, o = Head(ch).op,
           NEW fate \in Fates, fate \in Written => QueueOf(m) = <<>>,
           NEW f \in Entry,
           LedgerFits(alive, keeps, f, lg \o All(<<o>>, fate), [r EXCEPT ![o] = @ + 1])
    PROVE  Good(alive, keeps, s, Tail(ch), m, f, cl, [r EXCEPT ![o] = @ + 1],
                lg \o All(<<o>>, fate))
<1>1. /\ Here(s, ch, QueueOf(m), lg, cl, r) /\ Orderly(s, ch, QueueOf(m), lg, cl, r)
      /\ m \in Meta /\ FenceFits(s, ch, m)
  BY DEF Good
<1>2. Orderly(s, Tail(ch), QueueOf(m), lg \o All(<<o>>, fate), cl, [r EXCEPT ![o] = @ + 1])
  BY <1>1, NextSettled
<1>3. o \in Operations /\ [r EXCEPT ![o] = @ + 1] \in [Operations -> Nat]
  BY <1>1, NextArrives, GapStaysClosed
<1>4. All(<<o>>, fate) \in Seq(Settled)
  <2>1. <<o>> \in Seq(Operations)
    BY <1>3
  <2> QED  BY <2>1, AllFacts
<1>5. lg \o All(<<o>>, fate) \in Seq(Settled)
  BY <1>1, <1>4, LogGoesOn DEF Here
<1>6. ch \in Seq(Message) /\ Tail(ch) \in Seq(Message) /\ Len(Tail(ch)) = Len(ch) - 1
  BY <1>1 DEF Here
<1>7. Here(s, Tail(ch), QueueOf(m), lg \o All(<<o>>, fate), cl, [r EXCEPT ![o] = @ + 1])
  BY <1>1, <1>3, <1>5, <1>6 DEF Here
<1>8. \A p \in DOMAIN Tail(ch) : p + 1 \in DOMAIN ch /\ Tail(ch)[p] = ch[p + 1]
  BY <1>6
<1>9. FenceFits(s, Tail(ch), m)
  <2> DEFINE t == Tail(ch)
  <2> HIDE DEF t
  <2>1. FenceFits(s, t, m)
    BY <1>1, <1>8 DEF FenceFits, t
  <2> QED  BY <2>1 DEF t
<1> QED  BY <1>1, <1>2, <1>7, <1>9 DEF Good

\* An input is taken from the channel and waits.
LEMMA GoodWaits ==
    ASSUME NEW alive \in BOOLEAN, NEW keeps \in BOOLEAN,
           NEW s, NEW ch, NEW m, NEW e, NEW cl, NEW r, NEW lg,
           Good(alive, keeps, s, ch, m, e, cl, r, lg), s # "closed",
           ch # <<>>, Head(ch).type = "input", NEW o, o = Head(ch).op,
           m.replayPending # NoPending,
           NEW n, n = [m EXCEPT !.replayPending.inputs = Append(@, o)]
    PROVE  Good(alive, keeps, s, Tail(ch), n, e, cl, [r EXCEPT ![o] = @ + 1], lg)
<1> DEFINE v == [r EXCEPT ![o] = @ + 1]
           q == QueueOf(m)
           t == Tail(ch)
<1>1. /\ Here(s, ch, q, lg, cl, r) /\ Orderly(s, ch, q, lg, cl, r)
      /\ m \in Meta /\ FenceFits(s, ch, m) /\ LedgerFits(alive, keeps, e, lg, r)
      /\ e \in Entry
  BY DEF Good
<1>2. Orderly(s, t, Append(q, o), lg, cl, v)
  BY <1>1, NextWaits
<1>3. o \in Operations /\ v \in [Operations -> Nat]
  BY <1>1, NextArrives, GapStaysClosed
<1>4. /\ m.replayPending \in [token : 1 .. MaxTokens, authority : BOOLEAN, inputs : Seq(Operations)]
      /\ q = m.replayPending.inputs /\ q \in Seq(Operations)
      /\ m.replayPending.token >= 1 /\ m.replayPending.token \in Nat
  BY <1>1, MetaFacts
<1> DEFINE pending == [m.replayPending EXCEPT !.inputs = Append(q, o)]
<1>5. Append(q, o) \in Seq(Operations)
  BY <1>3, <1>4
<1>6. /\ pending \in [token : 1 .. MaxTokens, authority : BOOLEAN, inputs : Seq(Operations)]
      /\ pending.inputs = Append(q, o) /\ pending.token = m.replayPending.token
  <2> DEFINE more == Append(q, o)
  <2> HIDE DEF more, q
  <2> QED  BY <1>4, <1>5 DEF more
<1>7. pending # NoPending
  <2>1. NoPending.token = 0
    BY DEF NoPending
  <2> HIDE DEF pending
  <2> QED  BY <1>4, <1>6, <2>1
<1>8. n = [m EXCEPT !.replayPending = pending]
  BY <1>1, <1>4 DEF Meta
<1> HIDE DEF pending, q, t, v
<1>9. /\ n \in Meta /\ n.replayPending = pending /\ n.tokens = m.tokens
      /\ n.snapshots = m.snapshots /\ n.subscribed = m.subscribed
      /\ n.screenRepair = m.screenRepair
  BY <1>1, <1>6, <1>8 DEF Meta
<1>10. QueueOf(n) = Append(q, o)
  BY <1>6, <1>7, <1>9 DEF QueueOf
<1>11. ch \in Seq(Message) /\ t \in Seq(Message) /\ Len(t) = Len(ch) - 1
  BY <1>1 DEF Here, t
<1>12. \A p \in DOMAIN t : p + 1 \in DOMAIN ch /\ t[p] = ch[p + 1]
  BY <1>11 DEF t
<1>13. FenceFits(s, t, n)
  BY <1>1, <1>6, <1>9, <1>12 DEF FenceFits
<1>14. Here(s, t, Append(q, o), lg, cl, v)
  BY <1>1, <1>3, <1>5, <1>11 DEF Here
<1>15. LedgerFits(alive, keeps, e, lg, v)
  <2>1. lg \in Seq(Settled) /\ r \in [Operations -> Nat]
    BY <1>1 DEF Here
  <2>2. \A x \in Operations : r[x] <= v[x]
    BY <1>3, <2>1 DEF v
  <2> QED  BY <1>1, <1>3, <2>1, <2>2, LedgerUntouched
<1> QED  BY <1>1, <1>2, <1>9, <1>10, <1>13, <1>14, <1>15 DEF Good, t, v

LEMMA HandleInputKeeps ==
    ASSUME IInv, NEW c \in Clients, HandleInput(c)
    PROVE  IInv'
<1> DEFINE s == socket[c]
           ch == channel[c]
           m == meta[c]
           e == ledger[c]
           cl == client[c]
           r == received[c]
           lg == log[c]
           keeps == c \notin Legacy
           o == Head(ch).op
           v == [r EXCEPT ![o] = @ + 1]
           f == Sweep(e, 0)
<1>1. /\ Good(live, keeps, s, ch, m, e, cl, r, lg) /\ TypeOK
      /\ live \in BOOLEAN /\ keeps \in BOOLEAN
      /\ Queue(c) = QueueOf(m) /\ m \in Meta /\ lg \in Seq(Settled) /\ ch \in Seq(Message)
  BY AtHand DEF IInv
<1>2. /\ s # "closed" /\ ch # <<>> /\ Head(ch).type = "input"
      /\ channel' = [channel EXCEPT ![c] = Tail(ch)]
  BY DEF HandleInput, Receive
<1>3. /\ Here(s, ch, QueueOf(m), lg, cl, r) /\ Orderly(s, ch, QueueOf(m), lg, cl, r)
      /\ LedgerFits(live, keeps, e, lg, r) /\ NoGap(r, cl) /\ e \in Entry
      /\ r \in [Operations -> Nat]
  BY <1>1 DEF Good, Orderly, Here
<1>4. /\ o \in Operations /\ cl.base <= o /\ v \in [Operations -> Nat]
      /\ \A x \in Operations : r[x] <= v[x]
  <2>1. o \in Operations /\ cl.base <= o
    BY <1>2, <1>3, NextArrives
  <2> QED  BY <1>3, <2>1
<1>5. /\ live' = live
      /\ socket' = [socket EXCEPT ![c] = s]
      /\ client' = [client EXCEPT ![c] = cl]
      /\ received' = [received EXCEPT ![c] = v]
  BY <1>1, Unchanged DEF HandleInput, TypeOK
<1>6. m.replayPending # NoPending <=> Pending(c)
  BY DEF Pending
<1> HIDE DEF s, ch, m, e, cl, r, lg, keeps, v, f
<1>7. ASSUME NEW fate \in Fates \ (LedgerReasons \cup Written), UNCHANGED <<meta, ledger>>,
             Settle(c, All(<<o>>, fate))
      PROVE  IInv'
  <2> DEFINE F == All(<<o>>, fate)
  <2>1. <<o>> \in Seq(Operations)
    BY <1>4
  <2>2. /\ F \in Seq(Settled)
        /\ \A i \in DOMAIN F : F[i].fate = fate
    BY <2>1, AllFacts
  <2>3. \A i \in DOMAIN F : F[i].fate \notin LedgerReasons \cup {"written"}
    BY <2>2 DEF Written
  <2>4. LedgerFits(live, keeps, e, lg \o F, v)
    BY <1>1, <1>3, <1>4, <2>2, <2>3, LedgerUntouched
  <2>5. Good(live, keeps, s, Tail(ch), m, e, cl, v, lg \o F)
    BY <1>1, <1>2, <1>3, <2>4, GoodSettles DEF v
  <2>6. /\ meta' = [meta EXCEPT ![c] = m] /\ ledger' = [ledger EXCEPT ![c] = e]
        /\ log' = [log EXCEPT ![c] = lg \o F]
    BY <1>1, <1>7, Unchanged DEF Settle, m, e, lg
  <2> QED  BY <1>2, <1>5, <2>5, <2>6, OneClient DEF keeps
<1>8. CASE ~live /\ Settle(c, All(<<o>>, "session-missing")) /\ UNCHANGED <<meta, ledger>>
  <2>1. "session-missing" \in Fates \ (LedgerReasons \cup Written)
    BY DEF Fates, LedgerReasons, Written
  <2> QED  BY <1>7, <1>8, <2>1
<1>9. CASE live /\ Pending(c) /\ QueueInput(c, o)
  <2>1. CASE Len(Queue(c)) < MaxQueued
    <3> DEFINE n == [m EXCEPT !.replayPending.inputs = Append(@, o)]
    <3>1. /\ meta' = [meta EXCEPT ![c] = n]
          /\ UNCHANGED <<log, ledger>>
      BY <1>1, <1>9, <2>1 DEF QueueInput, TypeOK, m
    <3> HIDE DEF n
    <3>2. Good(live, keeps, s, Tail(ch), n, e, cl, v, lg)
      BY <1>1, <1>2, <1>6, <1>9, GoodWaits DEF n, v
    <3>3. ledger' = [ledger EXCEPT ![c] = e] /\ log' = [log EXCEPT ![c] = lg]
      BY <1>1, <3>1, Unchanged DEF e, lg
    <3> QED  BY <1>2, <1>5, <3>1, <3>2, <3>3, OneClient DEF keeps
  <2>2. CASE ~(Len(Queue(c)) < MaxQueued)
    <3>1. Settle(c, All(<<o>>, "queue-overflow")) /\ UNCHANGED <<meta, ledger>>
      BY <1>9, <2>2 DEF QueueInput
    <3>2. "queue-overflow" \in Fates \ (LedgerReasons \cup Written)
      BY DEF Fates, LedgerReasons, Written
    <3> QED  BY <1>7, <3>1, <3>2
  <2> QED  BY <2>1, <2>2
<1>10. CASE live /\ ~Pending(c) /\ WriteThrough(c, o) /\ UNCHANGED meta
  <2>1. QueueOf(m) = <<>>
    BY <1>1, <1>6, <1>10, MetaFacts
  <2>2. live = TRUE /\ LedgerFits(TRUE, keeps, e, lg, r)
    BY <1>1, <1>3, <1>10
  <2>3. meta' = [meta EXCEPT ![c] = m]
    BY <1>1, <1>10, Unchanged DEF m
  <2>4. CASE Outcome(f, o, Bytes) = "admitted"
    <3> DEFINE g == Evict(Remember(f, o, Bytes, 0))
    <3>1. PICK fate \in GatewayFates(m) :
             /\ ledger' = [ledger EXCEPT ![c] = g]
             /\ log' = [log EXCEPT ![c] = lg \o All(<<o>>, fate)]
      BY <1>10, <2>4 DEF WriteThrough, Settle, f, e, m, lg
    <3>2. fate \in {"written", "target-identity-stale", "context-changed"} /\ fate \in Fates
      BY DEF GatewayFates, Fates
    <3> DEFINE lg2 == lg \o All(<<o>>, fate)
    <3>3. LedgerFits(TRUE, keeps, g, lg2, v)
      BY <1>1, <1>3, <1>4, <2>2, <2>4, <3>2, LedgerAdmits DEF f, v
    <3> HIDE DEF g, lg2
    <3>4. g \in Entry
      BY <3>3 DEF LedgerFits, EntryInv
    <3>5. Good(live, keeps, s, Tail(ch), m, g, cl, v, lg2)
      BY <1>1, <1>2, <2>1, <2>2, <3>2, <3>3, <3>4, GoodSettles DEF v, lg2
    <3>6. ledger' = [ledger EXCEPT ![c] = g] /\ log' = [log EXCEPT ![c] = lg2]
      BY <3>1 DEF g, lg2
    <3> QED  BY <1>2, <1>5, <2>3, <3>5, <3>6, OneClient DEF keeps
  <2>5. CASE Outcome(f, o, Bytes) # "admitted"
    <3> DEFINE fate == Reason[Outcome(f, o, Bytes)]
               lg2 == lg \o All(<<o>>, fate)
    <3>1. /\ ledger' = [ledger EXCEPT ![c] = f]
          /\ log' = [log EXCEPT ![c] = lg2]
      BY <1>10, <2>5 DEF WriteThrough, Settle, f, e, m, lg
    <3>2. fate \in LedgerReasons /\ LedgerFits(TRUE, keeps, f, lg2, v)
      BY <1>1, <1>3, <1>4, <2>2, <2>5, LedgerRefuses DEF f, v
    <3> HIDE DEF fate
    <3>3. fate \in Fates
      BY <3>2 DEF Fates
    <3>4. f \in Entry
      BY <3>2 DEF LedgerFits, EntryInv
    <3>5. Good(live, keeps, s, Tail(ch), m, f, cl, v, lg2)
      BY <1>1, <1>2, <2>1, <2>2, <3>2, <3>3, <3>4, GoodSettles DEF v
    <3> HIDE DEF lg2
    <3> QED  BY <1>2, <1>5, <2>3, <3>1, <3>5, OneClient DEF keeps
  <2> QED  BY <2>4, <2>5
<1> QED  BY <1>8, <1>9, <1>10 DEF HandleInput, ch

\* The same for a step that changes no more than the record, the channel and the log.
LEMMA OneRecord ==
    ASSUME IInv, NEW c \in Clients, UNCHANGED <<live, socket, ledger, client, received>>,
           NEW ch, NEW m, NEW lg,
           channel' = [channel EXCEPT ![c] = ch],
           meta' = [meta EXCEPT ![c] = m],
           log' = [log EXCEPT ![c] = lg],
           Good(live, c \notin Legacy, socket[c], ch, m, ledger[c], client[c], received[c], lg)
    PROVE  IInv'
<1>1. TypeOK
  BY DEF IInv
<1>2. /\ live' = live
      /\ socket' = [socket EXCEPT ![c] = socket[c]]
      /\ channel' = [channel EXCEPT ![c] = ch]
      /\ meta' = [meta EXCEPT ![c] = m]
      /\ ledger' = [ledger EXCEPT ![c] = ledger[c]]
      /\ client' = [client EXCEPT ![c] = client[c]]
      /\ received' = [received EXCEPT ![c] = received[c]]
      /\ log' = [log EXCEPT ![c] = lg]
  BY <1>1, Unchanged
<1> QED  BY ONLY IInv, <1>2, Good(live, c \notin Legacy, socket[c], ch, m, ledger[c], client[c],
                             received[c], lg), c \in Clients, OneClient

\* The fates of what waits, none of them the ledger's.
LEMMA OtherFates ==
    /\ {"timeout", "dropped", "context-changed", "session-missing", "transport-closed",
        "flushed", "target-identity-stale"} \subseteq Fates \ (LedgerReasons \cup {"written"})
BY DEF Fates, LedgerReasons

LEMMA HandleSnapshotReadyKeeps ==
    ASSUME IInv, NEW c \in Clients, HandleSnapshotReady(c)
    PROVE  IInv'
<1> DEFINE m == meta[c]
           ch == Tail(channel[c])
           lg == log[c]
           G(n, l) == Good(live, c \notin Legacy, socket[c], ch, n, ledger[c], client[c],
                           received[c], l)
<1>1. /\ G(m, lg) /\ socket[c] # "closed" /\ channel' = [channel EXCEPT ![c] = ch]
  BY Taken DEF HandleSnapshotReady
<1>2. /\ UNCHANGED <<live, socket, ledger, client, received>>
      /\ TypeOK /\ live \in BOOLEAN /\ (c \notin Legacy) \in BOOLEAN
      /\ Queue(c) = QueueOf(m) /\ m \in Meta
  BY AtHand DEF HandleSnapshotReady, IInv
<1>3. QueueOf(m) \in Seq(Operations)
  BY <1>2, MetaFacts
<1>4. CASE Acknowledged(c, Head(channel[c]).token)
  <2>1. /\ meta' = [meta EXCEPT ![c] = ClearPending(m)]
        /\ IF socket[c] = "open"
           THEN \E fates \in FlushFates(ClearPending(m), QueueOf(m)) :
                    Settle(c, [i \in DOMAIN fates |-> [op |-> QueueOf(m)[i], fate |-> fates[i]]])
           ELSE Settle(c, All(QueueOf(m), "dropped"))
    BY <1>2, <1>4 DEF HandleSnapshotReady
  <2>2. PICK F \in Seq(Settled) :
           /\ Ops(F) = QueueOf(m)
           /\ \A i \in DOMAIN F : F[i].fate \notin LedgerReasons \cup {"written"}
           /\ log' = [log EXCEPT ![c] = lg \o F]
    <3>1. CASE socket[c] = "open"
      <4>1. PICK fates \in FlushFates(ClearPending(m), QueueOf(m)) :
               Settle(c, [i \in DOMAIN fates |-> [op |-> QueueOf(m)[i], fate |-> fates[i]]])
        BY <2>1, <3>1
      <4>2. /\ DOMAIN fates = DOMAIN QueueOf(m)
            /\ \A i \in DOMAIN QueueOf(m) :
                  fates[i] \in {"timeout", "context-changed", "flushed", "target-identity-stale"}
        BY DEF FlushFates, GatewayFates
      <4>3. fates \in [DOMAIN QueueOf(m) -> Fates]
        <5>1. fates \in [DOMAIN QueueOf(m) -> {"timeout"} \cup
                {IF fate = "written" THEN "flushed" ELSE fate :
                    fate \in GatewayFates(ClearPending(m))}]
          BY DEF FlushFates
        <5> QED  BY <4>2, <5>1, OtherFates
      <4> DEFINE F == [i \in DOMAIN QueueOf(m) |-> [op |-> QueueOf(m)[i], fate |-> fates[i]]]
      <4>4. /\ F \in Seq(Settled) /\ Ops(F) = QueueOf(m)
            /\ \A i \in DOMAIN F : i \in DOMAIN QueueOf(m) /\ F[i].fate = fates[i]
        BY <1>3, <4>3, SettledFacts
      <4>5. log' = [log EXCEPT ![c] = lg \o F]
        BY <4>1, <4>2 DEF Settle
      <4> HIDE DEF F
      <4>6. \A i \in DOMAIN F : F[i].fate \notin LedgerReasons \cup {"written"}
        BY <4>2, <4>4, OtherFates
      <4> QED  BY <4>4, <4>5, <4>6
    <3>2. CASE socket[c] # "open"
      <4> DEFINE F == All(QueueOf(m), "dropped")
      <4>1. /\ F \in Seq(Settled) /\ Ops(F) = QueueOf(m)
            /\ \A i \in DOMAIN F : F[i].fate = "dropped"
        BY <1>3, AllFacts, OtherFates
      <4>2. log' = [log EXCEPT ![c] = lg \o F]
        BY <2>1, <3>2 DEF Settle
      <4> HIDE DEF F
      <4> QED  BY <4>1, <4>2, OtherFates
    <3> QED  BY <3>1, <3>2
  <2>3. G(ClearPending(m), lg \o F)
    BY <1>1, <1>2, <2>2, GoodDrains
  <2> QED  BY <1>1, <1>2, <2>1, <2>2, <2>3, OneRecord
<1>5. CASE ~Acknowledged(c, Head(channel[c]).token)
  <2>1. meta' = [meta EXCEPT ![c] = m] /\ log' = [log EXCEPT ![c] = lg]
    BY <1>2, <1>5, Unchanged DEF HandleSnapshotReady
  <2> QED  BY <1>1, <1>2, <2>1, OneRecord
<1> QED  BY <1>4, <1>5

LEMMA HandleSubscribeKeeps ==
    ASSUME IInv, NEW c \in Clients, HandleSubscribe(c)
    PROVE  IInv'
<1> DEFINE m == meta[c]
           ch == Tail(channel[c])
           lg == log[c]
           G(n, l) == Good(live, c \notin Legacy, socket[c], ch, n, ledger[c], client[c],
                           received[c], l)
<1>1. /\ G(m, lg) /\ socket[c] # "closed" /\ channel' = [channel EXCEPT ![c] = ch]
  BY Taken DEF HandleSubscribe
<1>2. /\ UNCHANGED <<live, socket, ledger, client, received, log>>
      /\ TypeOK /\ live \in BOOLEAN /\ (c \notin Legacy) \in BOOLEAN /\ m \in Meta
  BY AtHand DEF HandleSubscribe, IInv
<1>3. log' = [log EXCEPT ![c] = lg]
  BY <1>2, Unchanged
<1>4. CASE live /\ ~meta[c].subscribed
  <2> DEFINE n == [m EXCEPT !.subscribed = TRUE]
  <2>1. StartReplay(c, n)
    BY <1>4 DEF HandleSubscribe
  <2>2. /\ n \in Meta /\ n.replayPending = m.replayPending /\ n.tokens = m.tokens
        /\ n.snapshots = m.snapshots /\ n.screenRepair = m.screenRepair /\ n.subscribed = TRUE
    BY <1>2 DEF Meta
  <2>3. m.replayPending = NoPending
    BY <1>1, <1>4 DEF Good, FenceFits
  <2> HIDE DEF n
  <2>4. FenceFits(socket[c], ch, n) /\ QueueOf(n) = QueueOf(m)
    BY <1>1, <2>2 DEF Good, FenceFits, QueueOf
  <2>5. G(n, lg)
    BY <1>1, <2>2, <2>4, GoodRecord
  <2>6. n.tokens < MaxTokens
    BY <2>1 DEF StartReplay
  <2>7. G(SnapshotReplay(n), lg) /\ G(AuthorityFence(n), lg)
    BY <1>1, <1>2, <2>2, <2>3, <2>5, <2>6, GoodReplays
  <2>8. \/ meta' = [meta EXCEPT ![c] = SnapshotReplay(n)]
        \/ meta' = [meta EXCEPT ![c] = AuthorityFence(n)]
    BY <2>1 DEF StartReplay
  <2>9. CASE meta' = [meta EXCEPT ![c] = SnapshotReplay(n)]
    BY <1>1, <1>2, <1>3, <2>7, <2>9, OneRecord
  <2>10. CASE meta' = [meta EXCEPT ![c] = AuthorityFence(n)]
    BY <1>1, <1>2, <1>3, <2>7, <2>10, OneRecord
  <2> QED  BY <2>8, <2>9, <2>10
<1>5. CASE ~(live /\ ~meta[c].subscribed)
  <2>1. meta' = [meta EXCEPT ![c] = m]
    BY <1>2, <1>5, Unchanged DEF HandleSubscribe
  <2> QED  BY <1>1, <1>2, <1>3, <2>1, OneRecord
<1> QED  BY <1>4, <1>5

LEMMA HandleUnsubscribeKeeps ==
    ASSUME IInv, NEW c \in Clients, HandleUnsubscribe(c)
    PROVE  IInv'
<1> DEFINE m == meta[c]
           ch == Tail(channel[c])
           lg == log[c]
<1>1. /\ Good(live, c \notin Legacy, socket[c], ch, m, ledger[c], client[c], received[c], lg)
      /\ socket[c] # "closed" /\ channel' = [channel EXCEPT ![c] = ch]
  BY Taken DEF HandleUnsubscribe
<1>2. /\ UNCHANGED <<live, socket, ledger, client, received>>
      /\ live \in BOOLEAN /\ (c \notin Legacy) \in BOOLEAN
      /\ meta' = [meta EXCEPT ![c] = Unsubscribed(m)]
      /\ log' = [log EXCEPT ![c] = lg \o All(QueueOf(m), "context-changed")]
  BY AtHand DEF HandleUnsubscribe, Settle
<1>3. Good(live, c \notin Legacy, socket[c], ch, Unsubscribed(m), ledger[c], client[c],
           received[c], lg \o All(QueueOf(m), "context-changed"))
  BY <1>1, <1>2, OtherFates, GoodUnsubscribes
<1> QED  BY <1>1, <1>2, <1>3, OneRecord

\* What waited is rejected with one reason, and the fence is gone.
LEMMA GoodClears ==
    ASSUME NEW alive \in BOOLEAN, NEW keeps \in BOOLEAN,
           NEW s, NEW ch, NEW m, NEW e, NEW cl, NEW r, NEW lg,
           Good(alive, keeps, s, ch, m, e, cl, r, lg), s # "closed",
           NEW fate \in Fates \ (LedgerReasons \cup {"written"})
    PROVE  Good(alive, keeps, s, ch, ClearPending(m), e, cl, r, lg \o All(QueueOf(m), fate))
<1> DEFINE F == All(QueueOf(m), fate)
<1>1. QueueOf(m) \in Seq(Operations)
  BY MetaFacts DEF Good
<1>2. /\ F \in Seq(Settled) /\ Ops(F) = QueueOf(m)
      /\ \A i \in DOMAIN F : F[i].fate = fate
  BY <1>1, AllFacts
<1>3. \A i \in DOMAIN F : F[i].fate \notin LedgerReasons \cup {"written"}
  BY <1>2
<1> HIDE DEF F
<1>4. Good(alive, keeps, s, ch, ClearPending(m), e, cl, r, lg \o F)
  BY <1>2, <1>3, GoodDrains
<1> QED  BY <1>4 DEF F

\* A step that changes no more than the record and the log.
LEMMA OneTimer ==
    ASSUME IInv, NEW c \in Clients,
           UNCHANGED <<live, socket, channel, ledger, client, received>>,
           NEW m, NEW lg,
           meta' = [meta EXCEPT ![c] = m],
           log' = [log EXCEPT ![c] = lg],
           Good(live, c \notin Legacy, socket[c], channel[c], m, ledger[c], client[c],
                received[c], lg)
    PROVE  IInv'
<1>1. TypeOK
  BY DEF IInv
<1>2. channel' = [channel EXCEPT ![c] = channel[c]]
  BY <1>1, Unchanged
<1>3. UNCHANGED <<live, socket, ledger, client, received>>
  OBVIOUS
<1> QED  BY ONLY IInv, c \in Clients, <1>2, <1>3, meta' = [meta EXCEPT ![c] = m],
                 log' = [log EXCEPT ![c] = lg],
                 Good(live, c \notin Legacy, socket[c], channel[c], m, ledger[c], client[c],
                      received[c], lg), OneRecord

LEMMA HandleRepairReplayKeeps ==
    ASSUME IInv, NEW c \in Clients, HandleRepairReplay(c)
    PROVE  IInv'
<1> DEFINE m == meta[c]
           n == ClearPending(m)
           ch == Tail(channel[c])
           lg == log[c]
           lg2 == lg \o All(QueueOf(m), "context-changed")
           G(x, l) == Good(live, c \notin Legacy, socket[c], ch, x, ledger[c], client[c],
                           received[c], l)
<1>1. /\ G(m, lg) /\ socket[c] # "closed" /\ channel' = [channel EXCEPT ![c] = ch]
  BY Taken DEF HandleRepairReplay
<1>2. /\ UNCHANGED <<live, socket, ledger, client, received>>
      /\ TypeOK /\ live \in BOOLEAN /\ (c \notin Legacy) \in BOOLEAN
      /\ Queue(c) = QueueOf(m) /\ m \in Meta
  BY AtHand DEF HandleRepairReplay, IInv
<1>3. CASE m.subscribed /\ Head(channel[c]).token = m.replayPending.token
  <2>1. /\ log' = [log EXCEPT ![c] = lg2]
        /\ \/ StartReplay(c, n)
           \/ meta' = [meta EXCEPT ![c] = n]
    BY <1>2, <1>3 DEF HandleRepairReplay, Settle
  <2>2. G(n, lg2)
    BY <1>1, <1>2, OtherFates, GoodClears
  <2>3. n.replayPending = NoPending /\ n.subscribed
    BY <1>2, <1>3, Cleared
  <2> HIDE DEF n, lg2
  <2>4. CASE meta' = [meta EXCEPT ![c] = n]
    BY <1>1, <1>2, <2>1, <2>2, <2>4, OneRecord
  <2>5. CASE StartReplay(c, n)
    <3>1. n.tokens < MaxTokens
      BY <2>5 DEF StartReplay
    <3>2. G(SnapshotReplay(n), lg2) /\ G(AuthorityFence(n), lg2)
      BY <1>1, <1>2, <2>2, <2>3, <3>1, GoodReplays
    <3>3. CASE meta' = [meta EXCEPT ![c] = SnapshotReplay(n)]
      BY <1>1, <1>2, <2>1, <3>2, <3>3, OneRecord
    <3>4. CASE meta' = [meta EXCEPT ![c] = AuthorityFence(n)]
      BY <1>1, <1>2, <2>1, <3>2, <3>4, OneRecord
    <3> QED  BY <2>5, <3>3, <3>4 DEF StartReplay
  <2> QED  BY <2>1, <2>4, <2>5
<1>4. CASE ~(m.subscribed /\ Head(channel[c]).token = m.replayPending.token)
  <2>1. meta' = [meta EXCEPT ![c] = m] /\ log' = [log EXCEPT ![c] = lg]
    BY <1>2, <1>4, Unchanged DEF HandleRepairReplay
  <2> QED  BY <1>1, <1>2, <2>1, OneRecord
<1> QED  BY <1>3, <1>4

LEMMA HandleScreenRepairKeeps ==
    ASSUME IInv, NEW c \in Clients, HandleScreenRepair(c)
    PROVE  IInv'
<1> DEFINE m == meta[c]
           ch == Tail(channel[c])
           lg == log[c]
           G(x) == Good(live, c \notin Legacy, socket[c], ch, x, ledger[c], client[c],
                        received[c], lg)
<1>1. /\ G(m) /\ socket[c] # "closed" /\ channel' = [channel EXCEPT ![c] = ch]
  BY Taken DEF HandleScreenRepair
<1>2. /\ UNCHANGED <<live, socket, ledger, client, received, log>>
      /\ TypeOK /\ m \in Meta
  BY AtHand DEF HandleScreenRepair, IInv
<1>3. log' = [log EXCEPT ![c] = lg]
  BY <1>2, Unchanged
<1>4. CASE m.subscribed /\ ~Pending(c) /\ ~m.screenRepair
  <2> DEFINE n == [m EXCEPT !.screenRepair = TRUE]
  <2>1. meta' = [meta EXCEPT ![c] = n]
    BY <1>2, <1>4 DEF HandleScreenRepair, TypeOK
  <2>2. /\ n \in Meta /\ n.replayPending = m.replayPending /\ n.tokens = m.tokens
        /\ n.snapshots = m.snapshots /\ n.subscribed = m.subscribed
    BY <1>2 DEF Meta
  <2> HIDE DEF n
  <2>3. FenceFits(socket[c], ch, n) /\ QueueOf(n) = QueueOf(m)
    BY <1>1, <1>4, <2>2 DEF Good, FenceFits, QueueOf
  <2>4. G(n)
    BY <1>1, <2>2, <2>3, GoodRecord
  <2> QED  BY <1>1, <1>2, <1>3, <2>1, <2>4, OneRecord
<1>5. CASE ~(m.subscribed /\ ~Pending(c) /\ ~m.screenRepair)
  <2>1. meta' = [meta EXCEPT ![c] = m]
    BY <1>2, <1>5, Unchanged DEF HandleScreenRepair
  <2> QED  BY <1>1, <1>2, <1>3, <2>1, OneRecord
<1> QED  BY <1>4, <1>5

LEMMA ScreenRepairEndsKeeps ==
    ASSUME IInv, NEW c \in Clients, ScreenRepairEnds(c)
    PROVE  IInv'
<1> DEFINE m == [meta[c] EXCEPT !.screenRepair = FALSE]
           lg == log[c]
           G(x, l) == Good(live, c \notin Legacy, socket[c], channel[c], x, ledger[c],
                           client[c], received[c], l)
<1>1. /\ G(meta[c], lg) /\ TypeOK /\ meta[c] \in Meta
      /\ live \in BOOLEAN /\ (c \notin Legacy) \in BOOLEAN
  BY AtHand DEF IInv
<1>2. UNCHANGED <<live, socket, channel, ledger, client, received>> /\ meta[c].screenRepair
  BY DEF ScreenRepairEnds
<1>3. /\ m \in Meta /\ m.replayPending = meta[c].replayPending /\ m.tokens = meta[c].tokens
      /\ m.snapshots = meta[c].snapshots /\ m.subscribed = meta[c].subscribed
  BY <1>1 DEF Meta
<1>4. \/ meta' = [meta EXCEPT ![c] = m] /\ UNCHANGED log
      \/ /\ m.tokens < MaxTokens
         /\ meta' = [meta EXCEPT ![c] = SnapshotReplay(m)]
         /\ log' = [log EXCEPT ![c] = lg \o All(Displaced(m), "context-changed")]
      \/ /\ m.tokens < MaxTokens
         /\ meta' = [meta EXCEPT ![c] = AuthorityFence(m)]
         /\ UNCHANGED log
  BY <1>1 DEF ScreenRepairEnds, Settle, TypeOK
<1>5. meta[c].subscribed /\ socket[c] # "closed"
  BY <1>1, <1>2 DEF Good, FenceFits, NewMeta
<1> HIDE DEF m
<1>6. FenceFits(socket[c], channel[c], m) /\ QueueOf(m) = QueueOf(meta[c])
  BY <1>1, <1>3, <1>5 DEF Good, FenceFits, QueueOf
<1>7. G(m, lg)
  BY <1>1, <1>3, <1>6, GoodRecord
<1>8. UNCHANGED log => log' = [log EXCEPT ![c] = lg]
  BY <1>1, Unchanged
<1>9. CASE meta' = [meta EXCEPT ![c] = m] /\ UNCHANGED log
  BY <1>2, <1>7, <1>8, <1>9, OneTimer
<1>10. ASSUME m.tokens < MaxTokens
       PROVE  /\ G(SnapshotReplay(m), lg \o All(Displaced(m), "context-changed"))
              /\ G(AuthorityFence(m), lg)
  BY <1>1, <1>3, <1>5, <1>7, <1>10, GoodReplays
<1>11. CASE /\ m.tokens < MaxTokens
            /\ meta' = [meta EXCEPT ![c] = SnapshotReplay(m)]
            /\ log' = [log EXCEPT ![c] = lg \o All(Displaced(m), "context-changed")]
  BY <1>2, <1>10, <1>11, OneTimer
<1>12. CASE /\ m.tokens < MaxTokens
            /\ meta' = [meta EXCEPT ![c] = AuthorityFence(m)]
            /\ UNCHANGED log
  BY <1>2, <1>8, <1>10, <1>12, OneTimer
<1> QED  BY <1>4, <1>9, <1>11, <1>12

LEMMA ReplayAckTimeoutKeeps ==
    ASSUME IInv, NEW c \in Clients, ReplayAckTimeout(c)
    PROVE  IInv'
<1> DEFINE m == meta[c]
           lg == log[c]
           lg2 == lg \o All(QueueOf(m), "timeout")
           G(x, l) == Good(live, c \notin Legacy, socket[c], channel[c], x, ledger[c],
                           client[c], received[c], l)
<1>1. /\ G(m, lg) /\ m \in Meta /\ Queue(c) = QueueOf(m)
      /\ live \in BOOLEAN /\ (c \notin Legacy) \in BOOLEAN
  BY AtHand
<1>2. /\ UNCHANGED <<live, socket, channel, ledger, client, received>>
      /\ m.replayPending # NoPending
      /\ meta' = [meta EXCEPT ![c] = ClearPending(m)]
      /\ log' = [log EXCEPT ![c] = lg2]
  BY <1>1 DEF ReplayAckTimeout, Pending, Settle
<1>3. socket[c] # "closed"
  BY <1>1, <1>2 DEF Good, FenceFits, NewMeta
<1>4. G(ClearPending(m), lg2)
  BY <1>1, <1>3, OtherFates, GoodClears
<1> HIDE DEF lg2
<1> QED  BY <1>2, <1>4, OneTimer

LEMMA AuthorityRetryKeeps ==
    ASSUME IInv, NEW c \in Clients, AuthorityRetry(c)
    PROVE  IInv'
<1> DEFINE m == meta[c]
           lg == log[c]
           lg2 == lg \o All(QueueOf(m), "timeout")
           G(x, l) == Good(live, c \notin Legacy, socket[c], channel[c], x, ledger[c],
                           client[c], received[c], l)
<1>1. /\ G(m, lg) /\ m \in Meta /\ Queue(c) = QueueOf(m) /\ TypeOK
      /\ live \in BOOLEAN /\ (c \notin Legacy) \in BOOLEAN
  BY AtHand DEF IInv
<1>2. /\ UNCHANGED <<live, socket, channel, ledger, client, received>>
      /\ m.replayPending # NoPending /\ m.replayPending.authority
      /\ socket[c] # "closed"
      /\ \/ /\ m.tokens < MaxTokens
            /\ meta' = [meta EXCEPT ![c] = SnapshotReplay(m)]
            /\ UNCHANGED log
         \/ /\ meta' = [meta EXCEPT ![c] = ClearPending(m)]
            /\ log' = [log EXCEPT ![c] = lg2]
  BY <1>1 DEF AuthorityRetry, Pending, Settle
<1>3. m.subscribed
  BY <1>1, <1>2 DEF Good, FenceFits
<1>4. log' = [log EXCEPT ![c] = lg] \/ ~UNCHANGED log
  BY <1>1, Unchanged
<1>5. CASE m.tokens < MaxTokens /\ meta' = [meta EXCEPT ![c] = SnapshotReplay(m)] /\ UNCHANGED log
  <2>1. G(SnapshotReplay(m), lg)
    BY <1>1, <1>2, <1>3, <1>5, GoodReplays
  <2> QED  BY <1>2, <1>4, <1>5, <2>1, OneTimer
<1>6. CASE meta' = [meta EXCEPT ![c] = ClearPending(m)] /\ log' = [log EXCEPT ![c] = lg2]
  <2>1. G(ClearPending(m), lg2)
    BY <1>1, <1>2, OtherFates, GoodClears
  <2> HIDE DEF lg2
  <2> QED  BY <1>2, <1>6, <2>1, OneTimer
<1> QED  BY <1>2, <1>5, <1>6

LEMMA RefreshReplaySnapshotKeeps ==
    ASSUME IInv, NEW c \in Clients, RefreshReplaySnapshot(c)
    PROVE  IInv'
<1> DEFINE m == meta[c]
           lg == log[c]
           lg2 == lg \o All(QueueOf(m), "context-changed")
           n == SendSnapshot(Fence(m, m.replayPending.authority, QueueOf(m)))
           G(x, l) == Good(live, c \notin Legacy, socket[c], channel[c], x, ledger[c],
                           client[c], received[c], l)
<1>1. /\ G(m, lg) /\ m \in Meta /\ Queue(c) = QueueOf(m) /\ TypeOK
      /\ live \in BOOLEAN /\ (c \notin Legacy) \in BOOLEAN
  BY AtHand DEF IInv
<1>2. /\ UNCHANGED <<live, socket, channel, ledger, client, received>>
      /\ m.subscribed /\ m.tokens < MaxTokens
      /\ socket[c] # "closed"
  BY DEF RefreshReplaySnapshot
<1>3. \/ /\ m.replayPending # NoPending
         /\ meta' = [meta EXCEPT ![c] = n]
         /\ UNCHANGED log
      \/ /\ meta' = [meta EXCEPT ![c] = ClearPending(m)]
         /\ log' = [log EXCEPT ![c] = lg2]
      \/ /\ m.replayPending = NoPending
         /\ meta' = [meta EXCEPT ![c] = SnapshotReplay(m)]
         /\ UNCHANGED log
  BY <1>1 DEF RefreshReplaySnapshot, Pending, Settle
<1>4. log' = [log EXCEPT ![c] = lg] \/ ~UNCHANGED log
  BY <1>1, Unchanged
<1>5. CASE /\ m.replayPending # NoPending
           /\ meta' = [meta EXCEPT ![c] = n]
           /\ UNCHANGED log
  <2>1. m.replayPending.authority \in BOOLEAN
    BY <1>1, <1>5, MetaFacts
  <2>2. G(n, lg)
    BY <1>1, <1>2, <2>1, GoodRaises
  <2> HIDE DEF n
  <2> QED  BY <1>2, <1>4, <1>5, <2>2, OneTimer
<1>6. CASE meta' = [meta EXCEPT ![c] = ClearPending(m)] /\ log' = [log EXCEPT ![c] = lg2]
  <2>1. G(ClearPending(m), lg2)
    BY <1>1, <1>2, OtherFates, GoodClears
  <2> HIDE DEF lg2
  <2> QED  BY <1>2, <1>6, <2>1, OneTimer
<1>7. CASE /\ m.replayPending = NoPending
           /\ meta' = [meta EXCEPT ![c] = SnapshotReplay(m)]
           /\ UNCHANGED log
  <2>1. G(SnapshotReplay(m), lg)
    BY <1>1, <1>2, <1>7, GoodReplays
  <2> QED  BY <1>2, <1>4, <1>7, <2>1, OneTimer
<1> QED  BY <1>3, <1>5, <1>6, <1>7

LEMMA BeginCloseKeeps ==
    ASSUME IInv, NEW c \in Clients, BeginClose(c)
    PROVE  IInv'
<1> DEFINE m == meta[c]
           ch == channel[c]
           e == ledger[c]
           cl == client[c]
           r == received[c]
           lg == log[c]
<1>1. Good(live, c \notin Legacy, socket[c], ch, m, e, cl, r, lg) /\ TypeOK
  BY AtHand DEF IInv
<1>2. /\ live' = live
      /\ socket' = [socket EXCEPT ![c] = "closing"]
      /\ channel' = [channel EXCEPT ![c] = ch]
      /\ meta' = [meta EXCEPT ![c] = m]
      /\ ledger' = [ledger EXCEPT ![c] = e]
      /\ client' = [client EXCEPT ![c] = cl]
      /\ received' = [received EXCEPT ![c] = r]
      /\ log' = [log EXCEPT ![c] = lg]
  BY <1>1, Unchanged DEF BeginClose
<1>3. socket[c] = "open"
  BY DEF BeginClose
<1>4. Orderly("closing", ch, QueueOf(m), lg, cl, r)
  BY <1>1, <1>3, SocketMoves DEF Good
<1>5. FenceFits("closing", ch, m)
  BY <1>1 DEF Good, FenceFits
<1>6. Good(live, c \notin Legacy, "closing", ch, m, e, cl, r, lg)
  BY <1>1, <1>4, <1>5 DEF Good, Here, SocketState
<1> HIDE DEF m, ch, e, cl, r, lg
<1> QED  BY <1>2, <1>6, OneClient

\* The record of a connection that is yet to come.
LEMMA NewMetaFacts ==
    /\ NewMeta \in Meta
    /\ QueueOf(NewMeta) = <<>>
    /\ FenceFits("closed", <<>>, NewMeta)
<1>1. MaxTokens \in Nat
  BY InputAssumption
<1>2. /\ NewMeta \in Meta
      /\ NewMeta.replayPending = NoPending /\ NewMeta.screenRepair = FALSE
      /\ NewMeta.snapshots = {}
  BY <1>1 DEF NewMeta, Meta
<1>3. QueueOf(NewMeta) = <<>>
  BY <1>2 DEF QueueOf
<1>4. FenceFits("closed", <<>>, NewMeta)
  BY <1>2 DEF FenceFits
<1> QED  BY <1>2, <1>3, <1>4

LEMMA HandleDisconnectKeeps ==
    ASSUME IInv, NEW c \in Clients, HandleDisconnect(c)
    PROVE  IInv'
<1> DEFINE m == meta[c]
           ch == channel[c]
           e == ledger[c]
           f == LedgerAfterDisconnect(c)
           cl == client[c]
           r == received[c]
           lg == log[c]
           lg2 == lg \o All(QueueOf(m), "transport-closed")
           keeps == c \notin Legacy
<1>1. /\ Good(live, keeps, socket[c], ch, m, e, cl, r, lg) /\ TypeOK
      /\ m \in Meta /\ Queue(c) = QueueOf(m) /\ lg \in Seq(Settled)
      /\ live \in BOOLEAN /\ keeps \in BOOLEAN
  BY AtHand DEF IInv
<1>2. socket[c] # "closed"
  BY DEF HandleDisconnect
<1>3. log' = [log EXCEPT ![c] = lg2]
  <2>1. CASE m.subscribed
    BY <1>1, <2>1 DEF HandleDisconnect, Settle
  <2>2. CASE ~m.subscribed
    <3>1. QueueOf(m) = <<>>
      BY <1>1, <2>2 DEF Good, FenceFits, QueueOf
    <3>2. lg2 = lg
      BY <1>1, <3>1, NothingSettled
    <3>3. log' = [log EXCEPT ![c] = lg \o <<>>]
      BY <2>2 DEF HandleDisconnect, Settle
    <3>4. lg \o <<>> = lg
      BY <1>1, ConcatEmptySeq
    <3> QED  BY <3>2, <3>3, <3>4
  <2> QED  BY <2>1, <2>2
<1>4. Good(live, keeps, socket[c], ch, ClearPending(m), e, cl, r, lg2)
  BY <1>1, <1>2, OtherFates, GoodClears
<1>5. QueueOf(ClearPending(m)) = <<>>
  BY <1>1, Cleared
<1>6. f \in Entry /\ LedgerFits(live, keeps, f, lg2, r)
  <2>1. CASE c \in Legacy
    <3>1. f = NewEntry /\ keeps = FALSE
      BY <2>1 DEF LedgerAfterDisconnect
    <3>2. LedgerFits(live, FALSE, e, lg2, r) /\ lg2 \in Seq(Settled) /\ r \in [Operations -> Nat]
      BY <1>4, <3>1 DEF Good, Here
    <3> HIDE DEF lg2, e, r
    <3>3. LedgerFits(live, FALSE, NewEntry, lg2, r)
      BY <3>2, LedgerIsNew
    <3>4. NewEntry \in Entry
      BY NewEntryInv DEF EntryInv
    <3> QED  BY <3>1, <3>3, <3>4
  <2>2. CASE c \notin Legacy
    BY <1>4, <2>2 DEF LedgerAfterDisconnect, Good
  <2> QED  BY <2>1, <2>2
<1>7. Orderly("closed", <<>>, <<>>, lg2, cl, r)
  BY <1>2, <1>4, <1>5, SocketMoves DEF Good
<1>8. Good(live, keeps, "closed", <<>>, NewMeta, f, cl, r, lg2)
  BY <1>4, <1>6, <1>7, NewMetaFacts DEF Good, Here, SocketState
<1>9. /\ live' = live
      /\ socket' = [socket EXCEPT ![c] = "closed"]
      /\ channel' = [channel EXCEPT ![c] = <<>>]
      /\ meta' = [meta EXCEPT ![c] = NewMeta]
      /\ ledger' = [ledger EXCEPT ![c] = f]
      /\ client' = [client EXCEPT ![c] = cl]
      /\ received' = [received EXCEPT ![c] = r]
  BY <1>1, Unchanged DEF HandleDisconnect
<1> HIDE DEF f, cl, r, lg2
<1> QED  BY <1>3, <1>8, <1>9, OneClient

\* With the session goes the account of the ledger; its answers stand.
LEMMA GoodEnds ==
    ASSUME NEW alive, NEW keeps, NEW s, NEW ch, NEW m, NEW e, NEW cl, NEW r, NEW lg,
           Good(alive, keeps, s, ch, m, e, cl, r, lg), NEW f \in Entry
    PROVE  Good(FALSE, keeps, s, ch, m, f, cl, r, lg)
<1>1. LedgerFits(FALSE, keeps, f, lg, r)
  BY DEF Good, LedgerFits
<1> QED  BY <1>1 DEF Good

LEMMA EndSessionKeeps ==
    ASSUME IInv, NEW announced \in BOOLEAN, EndSession(announced)
    PROVE  IInv'
<1> DEFINE n(c) == IF meta[c].subscribed THEN Unsubscribed(meta[c]) ELSE meta[c]
           f(c) == IF announced /\ meta[c].subscribed THEN NewEntry ELSE ledger[c]
           l(c) == IF meta[c].subscribed THEN log[c] \o All(Queue(c), "session-missing")
                   ELSE log[c]
<1>1. /\ live' = FALSE
      /\ UNCHANGED <<socket, channel, client, received>>
      /\ ledger' = [c \in Clients |-> f(c)]
      /\ meta' = [c \in Clients |-> n(c)]
      /\ log' = [c \in Clients |-> l(c)]
  BY DEF EndSession
<1>2. TypeOK
  BY DEF IInv
<1>3. ASSUME NEW c \in Clients
      PROVE  Good(FALSE, c \notin Legacy, socket[c], channel[c], n(c), f(c), client[c],
                  received[c], l(c))
  <2>1. /\ Good(live, c \notin Legacy, socket[c], channel[c], meta[c], ledger[c], client[c],
                received[c], log[c])
        /\ Queue(c) = QueueOf(meta[c])
        /\ live \in BOOLEAN /\ (c \notin Legacy) \in BOOLEAN
    BY AtHand
  <2>2. NewEntry \in Entry /\ ledger[c] \in Entry
    BY <2>1, NewEntryInv DEF EntryInv, Good
  <2>3. CASE meta[c].subscribed
    <3>1. socket[c] # "closed"
      BY <2>1, <2>3 DEF Good, FenceFits, NewMeta
    <3>2. Good(live, c \notin Legacy, socket[c], channel[c], Unsubscribed(meta[c]), ledger[c],
               client[c], received[c], log[c] \o All(QueueOf(meta[c]), "session-missing"))
      BY <2>1, <3>1, OtherFates, GoodUnsubscribes
    <3>3. f(c) \in Entry
      BY <2>2
    <3> HIDE DEF f
    <3>4. Good(FALSE, c \notin Legacy, socket[c], channel[c], Unsubscribed(meta[c]), f(c),
               client[c], received[c], log[c] \o All(QueueOf(meta[c]), "session-missing"))
      BY <3>2, <3>3, GoodEnds
    <3> QED  BY <2>1, <2>3, <3>4
  <2>4. CASE ~meta[c].subscribed
    <3>1. f(c) = ledger[c] /\ n(c) = meta[c] /\ l(c) = log[c]
      BY <2>4
    <3>2. Good(FALSE, c \notin Legacy, socket[c], channel[c], meta[c], ledger[c], client[c],
               received[c], log[c])
      BY <2>1, <2>2, GoodEnds
    <3> QED  BY <3>1, <3>2
  <2> QED  BY <2>3, <2>4
<1> HIDE DEF n, f, l
<1>4. \A c \in Clients : n(c) \in Meta /\ f(c) \in Entry /\ l(c) \in Seq(Settled)
  BY <1>3 DEF Good, Here
<1>5. TypeOK'
  <2>1. meta' \in [Clients -> Meta] /\ ledger' \in [Clients -> Entry] /\ log' \in [Clients -> Seq(Settled)]
    BY <1>1, <1>4
  <2> QED  BY <1>1, <1>2, <2>1 DEF TypeOK
<1>6. ASSUME NEW c \in Clients
      PROVE  Fits(c)'
  <2>1. meta'[c] = n(c) /\ ledger'[c] = f(c) /\ log'[c] = l(c)
    BY <1>1
  <2>2. /\ Orderly(socket[c], channel[c], QueueOf(n(c)), l(c), client[c], received[c])
        /\ FenceFits(socket[c], channel[c], n(c))
        /\ LedgerFits(FALSE, c \notin Legacy, f(c), l(c), received[c])
    BY <1>3 DEF Good
  <2> QED  BY <1>1, <2>1, <2>2 DEF Fits
<1> QED  BY <1>5, <1>6 DEF IInv

-----------------------------------------------------------------------------
(* The invariant.                                                            *)

LEMMA InitHolds == Init => IInv
<1> SUFFICES ASSUME Init PROVE IInv
  OBVIOUS
<1> DEFINE cl == [next |-> 1, base |-> 1, cursor |-> 1, connections |-> 0]
           r == [o \in Operations |-> 0]
<1>1. cl \in Typed /\ r \in [Operations -> Nat] /\ \A o \in Operations : r[o] = 0
  BY InputAssumption, OperationFacts DEF Typed
<1>2. <<>> \in Seq(Message) /\ <<>> \in Seq(Settled) /\ <<>> \in Seq(Operations)
  OBVIOUS
<1>3. NewEntry \in Entry
  BY NewEntryInv DEF EntryInv
<1>4. TypeOK
  BY <1>1, <1>2, <1>3, NewMetaFacts DEF Init, TypeOK, SocketState
<1>5. Orderly("closed", <<>>, <<>>, <<>>, cl, r)
  <2>1. cl.base = 1 /\ cl.cursor = 1 /\ cl.next = 1
    OBVIOUS
  <2> HIDE DEF cl
  <2>2. InLine(<<>>, <<>>, cl)
    BY <2>1 DEF InLine
  <2>3. NoneLost("closed", <<>>, <<>>, <<>>, cl) /\ WrittenInOrder(<<>>, cl)
    BY DEF NoneLost, WrittenInOrder
  <2>4. \A o \in Operations : r[o] = Count(Ops(<<>>), o) + Count(<<>>, o)
    <3>1. Ops(<<>>) = <<>>
      BY DEF Ops
    <3>2. \A o \in Operations : Count(<<>>, o) = 0
      BY CountFew
    <3> HIDE DEF r
    <3> QED  BY <1>1, <3>1, <3>2
  <2>5. Adds(<<>>, <<>>, r)
    BY <2>4 DEF Adds
  <2>6. NoGap(r, cl)
    BY <1>1 DEF NoGap
  <2> QED  BY <2>2, <2>3, <2>5, <2>6 DEF Orderly
<1>6. \A keeps : LedgerFits(TRUE, keeps, NewEntry, <<>>, r)
  <2>1. EntryInv(NewEntry, r)
    BY NewEntryInv
  <2>2. \A keeps : Passed(keeps, r, <<>>, r) /\ AnswersFit(keeps, <<>>, r)
    BY <1>1 DEF Passed, AnswersFit
  <2> QED  BY <1>1, <2>1, <2>2 DEF LedgerFits
<1>7. ASSUME NEW c \in Clients
      PROVE  Fits(c)
  <2>1. /\ live = TRUE /\ socket[c] = "closed" /\ channel[c] = <<>> /\ meta[c] = NewMeta
        /\ ledger[c] = NewEntry /\ client[c] = cl /\ received[c] = r /\ log[c] = <<>>
    BY DEF Init
  <2> HIDE DEF cl, r
  <2> QED  BY <1>5, <1>6, <2>1, NewMetaFacts DEF Fits
<1> QED  BY <1>4, <1>7 DEF IInv

LEMMA NextKeeps == IInv /\ [Next]_vars => IInv'
<1> SUFFICES ASSUME IInv, [Next]_vars PROVE IInv'
  OBVIOUS
<1>1. ASSUME NEW c \in Clients, ClientNext(c)
      PROVE  IInv'
  BY <1>1, ConnectKeeps, SendInputKeeps, SendSnapshotReadyKeeps, SendOtherKeeps DEF ClientNext
<1>2. ASSUME NEW c \in Clients, ServerNext(c)
      PROVE  IInv'
  BY <1>2, HandleInputKeeps, HandleSnapshotReadyKeeps, HandleSubscribeKeeps,
     HandleUnsubscribeKeeps, HandleRepairReplayKeeps, HandleScreenRepairKeeps,
     ScreenRepairEndsKeeps, ReplayAckTimeoutKeeps, AuthorityRetryKeeps,
     RefreshReplaySnapshotKeeps, BeginCloseKeeps, HandleDisconnectKeeps DEF ServerNext
<1>3. CASE PtyExit \/ DeleteSession
  <2>1. TRUE \in BOOLEAN /\ FALSE \in BOOLEAN
    OBVIOUS
  <2> QED  BY <1>3, <2>1, EndSessionKeeps DEF PtyExit, DeleteSession
<1>4. CASE UNCHANGED vars
  BY <1>4 DEF vars, IInv, TypeOK, Fits
<1> QED  BY <1>1, <1>2, <1>3, <1>4 DEF Next

\* The invariant holds of every state: of each client, whatever the others do, its inputs
\* are in line, none is lost, and the ledger accounts for them.
THEOREM InvHolds == Spec => []IInv
<1>1. Init => IInv
  BY InitHolds
<1>2. IInv /\ [Next]_vars => IInv'
  BY NextKeeps
<1> QED  BY <1>1, <1>2, PTL DEF Spec

-----------------------------------------------------------------------------
(* What follows from it.                                                     *)

\* Inputs are written in the order of typing (TypedOrder, the order in which handleInput
\* and flushQueuedReplayInputs hand them to the gateway).
THEOREM TypedOrderHolds == Spec => []TypedOrder
<1>1. ASSUME IInv PROVE TypedOrder
  <2> SUFFICES ASSUME NEW c \in Clients, NEW i \in DOMAIN log[c], NEW j \in DOMAIN log[c],
                      i < j, First(c, i), First(c, j),
                      log[c][i].fate \in Written, log[c][j].fate \in Written
               PROVE  log[c][i].op < log[c][j].op
    BY DEF TypedOrder
  <2> DEFINE lg == log[c]
             cl == client[c]
  <2>1. lg \in Seq(Settled) /\ WrittenInOrder(lg, cl)
    BY <1>1 DEF IInv, TypeOK, Fits, Orderly
  <2>2. /\ lg[i] \in Settled /\ lg[j] \in Settled
        /\ i \in 1 .. Len(lg) /\ j \in 1 .. Len(lg) /\ Len(lg) \in Nat
    BY <2>1
  <2>3. /\ lg[i].op \in Operations /\ lg[j].op \in Operations
        /\ lg[i].op \in Nat /\ lg[j].op \in Nat
    BY <2>2, OperationFacts DEF Settled
  <2>4. lg[i].op # lg[j].op
    BY <2>2 DEF First
  <2>5. ASSUME lg[j].op < lg[i].op
        PROVE  FALSE
    <3>1. \/ \E k \in 1 .. i - 1 : lg[k].op = lg[j].op
          \/ ~Told(lg, lg[j].op)
      BY <2>1, <2>3, <2>5 DEF WrittenInOrder
    <3>2. Told(lg, lg[j].op)
      BY DEF Told
    <3>3. PICK k \in 1 .. i - 1 : lg[k].op = lg[j].op
      BY <3>1, <3>2
    <3>4. k \in 1 .. j - 1
      BY <2>2, <3>3
    <3> QED  BY <3>3, <3>4 DEF First
  <2> QED  BY <2>3, <2>4, <2>5
<1> QED  BY <1>1, InvHolds, PTL

\* No input is lost without a word, the path of the ledger writes each at most once, and
\* the ledger refuses only what was received before (InputsAddUp, for handleInput and all
\* that drains the replay fence).
THEOREM InputsAddUpHold == Spec => []InputsAddUp
<1>1. ASSUME IInv PROVE InputsAddUp
  <2>1. TypeOK
    BY <1>1 DEF IInv
  <2>2. ASSUME NEW c \in Clients
        PROVE  /\ log[c] \in Seq(Settled)
               /\ Queue(c) = QueueOf(meta[c])
               /\ Adds(QueueOf(meta[c]), log[c], received[c])
               /\ AnswersFit(c \notin Legacy, log[c], received[c])
    BY <1>1, AtHand DEF Good, Orderly, LedgerFits
  <2>3. EveryInputSettled
    <3> SUFFICES ASSUME NEW c \in Clients, NEW o \in Operations
                 PROVE  received[c][o] = Cardinality({i \in DOMAIN log[c] : log[c][i].op = o})
                            + Cardinality({i \in DOMAIN Queue(c) : Queue(c)[i] = o})
      BY DEF EveryInputSettled
    <3>1. received[c][o] = Count(Ops(log[c]), o) + Count(Queue(c), o)
      BY <2>2 DEF Adds
    <3>2. {i \in DOMAIN Ops(log[c]) : Ops(log[c])[i] = o} = {i \in DOMAIN log[c] : log[c][i].op = o}
      BY DEF Ops
    <3> QED  BY <3>1, <3>2 DEF Count
  <2>4. DirectWriteOnce
    <3> SUFFICES ASSUME NEW c \in Clients \ Legacy, NEW i \in DOMAIN log[c],
                        NEW j \in DOMAIN log[c], i # j, log[c][i].op = log[c][j].op
                 PROVE  ~(log[c][i].fate = "written" /\ log[c][j].fate = "written")
      BY DEF DirectWriteOnce
    <3> QED  BY <2>2 DEF AnswersFit
  <2>5. NoFalseRefusal
    BY <2>2 DEF NoFalseRefusal, AnswersFit
  <2> QED  BY <2>1, <2>3, <2>4, <2>5 DEF InputsAddUp
<1> QED  BY <1>1, InvHolds, PTL

-----------------------------------------------------------------------------
(* What is written acts on the screen its user sees.                         *)

\* What a step does to one client: it writes onto no stale screen, and flushes only on
\* the acknowledgement of the newest snapshot.
Seen(c) ==
    /\ NewFates(c) \cap Written # {}
       => meta'[c].replayPending = NoPending /\ ~meta'[c].screenRepair
    /\ "flushed" \in NewFates(c) => meta[c].tokens \notin meta'[c].snapshots

\* The fates a step adds.
LEMMA FatesAdded ==
    ASSUME TypeOK, NEW c \in Clients, NEW F \in Seq(Settled), log'[c] = log[c] \o F
    PROVE  \A fate \in NewFates(c) : \E k \in DOMAIN F : F[k].fate = fate
<1> SUFFICES ASSUME NEW i \in DOMAIN log'[c] \ DOMAIN log[c]
             PROVE  \E k \in DOMAIN F : F[k].fate = log'[c][i].fate
  BY DEF NewFates
<1> DEFINE lg == log[c]
<1>1. lg \in Seq(Settled)
  BY DEF TypeOK
<1>2. i \in DOMAIN (lg \o F) /\ i \notin 1 .. Len(lg)
  BY <1>1
<1>3. PICK j \in 1 .. Len(F) : i = Len(lg) + j
  BY <1>1, <1>2, LogGoesOn
<1>4. (lg \o F)[i] = F[j]
  BY <1>1, <1>3, LogGoesOn
<1> QED  BY <1>3, <1>4

\* A step that writes nothing.
LEMMA NoneWritten ==
    ASSUME TypeOK, NEW c \in Clients, NEW F \in Seq(Settled), log'[c] = log[c] \o F,
           \A k \in DOMAIN F : F[k].fate \notin Written
    PROVE  Seen(c)
<1>1. NewFates(c) \cap Written = {}
  BY FatesAdded
<1>2. "flushed" \in Written
  BY DEF Written
<1> QED  BY <1>1, <1>2 DEF Seen

LEMMA LogStays ==
    ASSUME TypeOK, NEW c \in Clients, log'[c] = log[c]
    PROVE  Seen(c)
<1>1. NewFates(c) = {}
  BY DEF NewFates
<1> QED  BY <1>1 DEF Seen

LEMMA NoneWrittenOf ==
    ASSUME TypeOK, NEW d \in Clients, NEW F \in Seq(Settled), Settle(d, F),
           \A k \in DOMAIN F : F[k].fate \notin Written, NEW c \in Clients
    PROVE  Seen(c)
<1>1. CASE c = d
  <2>1. log'[c] = log[c] \o F
    BY <1>1 DEF Settle, TypeOK
  <2> QED  BY <2>1, NoneWritten
<1>2. CASE c # d
  <2>1. log'[c] = log[c]
    BY <1>2 DEF Settle, TypeOK
  <2> QED  BY <2>1, LogStays
<1> QED  BY <1>1, <1>2

\* The reasons for which what waited is rejected.
LEMMA Rejections ==
    /\ {"timeout", "dropped", "context-changed", "session-missing", "transport-closed",
        "queue-overflow"} \cup LedgerReasons \subseteq Fates \ Written
BY DEF Fates, LedgerReasons, Written

LEMMA RejectedOf ==
    ASSUME IInv, NEW d \in Clients, NEW q \in Seq(Operations), NEW fate \in Fates \ Written,
           Settle(d, All(q, fate)), NEW c \in Clients
    PROVE  Seen(c)
<1>1. /\ All(q, fate) \in Seq(Settled)
      /\ \A k \in DOMAIN All(q, fate) : All(q, fate)[k].fate = fate
  BY AllFacts
<1>2. TypeOK
  BY DEF IInv
<1> QED  BY <1>1, <1>2, NoneWrittenOf

LEMMA HandleInputSeen ==
    ASSUME IInv, NEW d \in Clients, HandleInput(d), NEW c \in Clients
    PROVE  Seen(c)
<1> DEFINE o == Head(channel[d]).op
           m == meta[d]
           f == Sweep(ledger[d], 0)
<1>1. /\ TypeOK /\ channel[d] \in Seq(Message) /\ channel[d] # <<>>
      /\ Head(channel[d]).type = "input" /\ m \in Meta
  BY AtHand DEF HandleInput, Receive, IInv
<1>2. o \in Operations
  <2>1. 1 \in DOMAIN channel[d] /\ channel[d][1] = Head(channel[d])
    BY <1>1
  <2> QED  BY <1>1, <2>1, MessageFacts
<1>3. <<o>> \in Seq(Operations)
  BY <1>2
<1>4. CASE ~live /\ Settle(d, All(<<o>>, "session-missing"))
  BY <1>3, <1>4, Rejections, RejectedOf
<1>5. CASE Pending(d) /\ QueueInput(d, o)
  <2>1. \/ UNCHANGED log
        \/ Settle(d, All(<<o>>, "queue-overflow"))
    BY <1>5 DEF QueueInput
  <2>2. CASE UNCHANGED log
    BY <1>1, <2>2, LogStays
  <2>3. CASE Settle(d, All(<<o>>, "queue-overflow"))
    BY <1>3, <2>3, Rejections, RejectedOf
  <2> QED  BY <2>1, <2>2, <2>3
<1>6. CASE ~Pending(d) /\ WriteThrough(d, o) /\ UNCHANGED meta
  <2>1. CASE Outcome(f, o, Bytes) = "admitted"
    <3>1. PICK fate \in GatewayFates(m) : Settle(d, All(<<o>>, fate))
      BY <1>6, <2>1 DEF WriteThrough, f, m
    <3>2. fate \in Fates /\ fate # "flushed"
      BY DEF GatewayFates, Fates
    <3>3. CASE fate \in Written
      <4>1. m.replayPending = NoPending /\ ~m.screenRepair
        BY <3>3 DEF GatewayFates, Written
      <4>2. CASE c = d
        <5>1. log'[c] = log[c] \o All(<<o>>, fate) /\ meta'[c] = m
          BY <1>1, <1>6, <3>1, <4>2 DEF Settle, TypeOK
        <5>2. /\ All(<<o>>, fate) \in Seq(Settled)
              /\ \A k \in DOMAIN All(<<o>>, fate) : All(<<o>>, fate)[k].fate = fate
          BY <1>3, <3>2, AllFacts
        <5>3. "flushed" \notin NewFates(c)
          BY <1>1, <3>2, <5>1, <5>2, FatesAdded
        <5> QED  BY <4>1, <5>1, <5>3 DEF Seen
      <4>3. CASE c # d
        <5>1. log'[c] = log[c]
          BY <1>1, <3>1, <4>3 DEF Settle, TypeOK
        <5> QED  BY <1>1, <5>1, LogStays
      <4> QED  BY <4>2, <4>3
    <3>4. CASE fate \notin Written
      BY <1>3, <3>1, <3>2, <3>4, RejectedOf
    <3> QED  BY <3>3, <3>4
  <2>2. CASE Outcome(f, o, Bytes) # "admitted"
    <3> DEFINE fate == Reason[Outcome(f, o, Bytes)]
    <3>1. Settle(d, All(<<o>>, fate))
      BY <1>6, <2>2 DEF WriteThrough, f
    <3>2. fate \in LedgerReasons
      BY <2>2 DEF Reason, LedgerReasons, Outcome
    <3>3. fate \in Fates \ Written
      BY <3>2, Rejections
    <3> HIDE DEF fate
    <3> QED  BY <1>3, <3>1, <3>3, RejectedOf
  <2> QED  BY <2>1, <2>2
<1> QED  BY <1>4, <1>5, <1>6 DEF HandleInput

LEMMA HandleSnapshotReadySeen ==
    ASSUME IInv, NEW d \in Clients, HandleSnapshotReady(d), NEW c \in Clients
    PROVE  Seen(c)
<1> DEFINE m == meta[d]
           q == QueueOf(m)
           t == Head(channel[d]).token
<1>1. /\ TypeOK /\ m \in Meta /\ Queue(d) = q
      /\ FenceFits(socket[d], channel[d], m)
      /\ channel[d] \in Seq(Message) /\ channel[d] # <<>>
      /\ Head(channel[d]).type = "snapshot:ready"
  BY AtHand DEF HandleSnapshotReady, Receive, IInv, Good
<1>2. q \in Seq(Operations)
  BY <1>1, MetaFacts
<1>3. CASE UNCHANGED log
  BY <1>1, <1>3, LogStays
<1>4. CASE Settle(d, All(q, "dropped"))
  BY <1>2, <1>4, Rejections, RejectedOf
<1>5. ASSUME Acknowledged(d, t), meta' = [meta EXCEPT ![d] = ClearPending(m)],
             NEW fates \in FlushFates(ClearPending(m), q),
             Settle(d, [i \in DOMAIN fates |-> [op |-> q[i], fate |-> fates[i]]])
      PROVE  Seen(c)
  <2> DEFINE F == [i \in DOMAIN q |-> [op |-> q[i], fate |-> fates[i]]]
  <2>1. fates \in [DOMAIN q -> {"timeout"} \cup
            {IF fate = "written" THEN "flushed" ELSE fate : fate \in GatewayFates(ClearPending(m))}]
    BY DEF FlushFates
  <2>2. \A i \in DOMAIN q : fates[i] \in
            {"timeout", "context-changed", "flushed", "target-identity-stale"}
    BY <2>1 DEF GatewayFates
  <2>3. fates \in [DOMAIN q -> Fates]
    BY <2>1, <2>2, OtherFates
  <2>4. /\ F \in Seq(Settled)
        /\ \A i \in DOMAIN F : i \in DOMAIN q /\ F[i].fate = fates[i]
    BY <1>2, <2>3, SettledFacts
  <2>5. Settle(d, F)
    BY <1>5, <2>3
  <2> HIDE DEF F
  <2>6. CASE m.screenRepair
    <3>1. GatewayFates(ClearPending(m)) = {"context-changed"}
      BY <1>1, <2>6, Cleared DEF GatewayFates
    <3>2. \A i \in DOMAIN q : fates[i] \in {"timeout", "context-changed"}
      BY <2>1, <3>1
    <3>3. \A i \in DOMAIN F : F[i].fate \notin Written
      BY <2>4, <3>2 DEF Written
    <3> QED  BY <1>1, <2>4, <2>5, <3>3, NoneWrittenOf
  <2>7. CASE ~m.screenRepair
    <3>1. CASE c = d
      <4>1. meta'[c] = ClearPending(m)
        BY <1>1, <1>5, <3>1 DEF TypeOK
      <4>2. meta'[c].replayPending = NoPending /\ ~meta'[c].screenRepair
        BY <1>1, <2>7, <4>1, Cleared
      <4>3. m.tokens = t
        BY <1>1, <1>5 DEF Acknowledged, Pending, FenceFits
      <4>4. 1 \in DOMAIN channel[d] /\ channel[d][1] = Head(channel[d])
        BY <1>1
      <4>5. t \notin m.snapshots
        BY <1>1, <4>4 DEF FenceFits
      <4>6. meta[c].tokens \notin meta'[c].snapshots
        BY <1>1, <3>1, <4>1, <4>3, <4>5, Cleared
      <4> QED  BY <4>2, <4>6 DEF Seen
    <3>2. CASE c # d
      <4>1. log'[c] = log[c]
        BY <1>1, <2>5, <3>2 DEF Settle, TypeOK
      <4> QED  BY <1>1, <4>1, LogStays
    <3> QED  BY <3>1, <3>2
  <2> QED  BY <2>6, <2>7
<1>6. \/ UNCHANGED log
      \/ Settle(d, All(q, "dropped"))
      \/ /\ Acknowledged(d, t) /\ meta' = [meta EXCEPT ![d] = ClearPending(m)]
         /\ \E fates \in FlushFates(ClearPending(m), q) :
               Settle(d, [i \in DOMAIN fates |-> [op |-> q[i], fate |-> fates[i]]])
  BY <1>1 DEF HandleSnapshotReady
<1> QED  BY <1>3, <1>4, <1>5, <1>6

\* The other steps of the server reject what waited, or settle nothing.
LEMMA OthersSeen ==
    ASSUME IInv, NEW d \in Clients, NEW c \in Clients,
           \/ UNCHANGED log
           \/ \E fate \in {"timeout", "context-changed"} :
                 \/ Settle(d, All(Queue(d), fate))
                 \/ Settle(d, All(Displaced([meta[d] EXCEPT !.screenRepair = FALSE]), fate))
    PROVE  Seen(c)
<1> DEFINE m == [meta[d] EXCEPT !.screenRepair = FALSE]
<1>1. /\ TypeOK /\ meta[d] \in Meta /\ Queue(d) = QueueOf(meta[d])
  BY AtHand DEF IInv
<1>2. Queue(d) \in Seq(Operations)
  BY <1>1, MetaFacts
<1>3. Displaced(m) \in Seq(Operations)
  <2>1. m \in Meta
    BY <1>1 DEF Meta
  <2> HIDE DEF m
  <2>2. QueueOf(m) \in Seq(Operations)
    BY <2>1, MetaFacts
  <2>3. <<>> \in Seq(Operations)
    OBVIOUS
  <2> QED  BY <2>2, <2>3 DEF Displaced, QueueOf
<1> HIDE DEF m
<1>4. CASE UNCHANGED log
  BY <1>1, <1>4, LogStays
<1>5. ASSUME NEW fate \in {"timeout", "context-changed"}, Settle(d, All(Queue(d), fate))
      PROVE  Seen(c)
  <2>1. fate \in Fates \ Written
    BY Rejections
  <2> QED  BY <1>2, <1>5, <2>1, RejectedOf
<1>6. ASSUME NEW fate \in {"timeout", "context-changed"}, Settle(d, All(Displaced(m), fate))
      PROVE  Seen(c)
  <2>1. fate \in Fates \ Written
    BY Rejections
  <2> QED  BY <1>3, <1>6, <2>1, RejectedOf
<1> QED  BY <1>4, <1>5, <1>6 DEF m

LEMMA HandleDisconnectSeen ==
    ASSUME IInv, NEW d \in Clients, HandleDisconnect(d), NEW c \in Clients
    PROVE  Seen(c)
<1>1. /\ TypeOK /\ meta[d] \in Meta /\ Queue(d) = QueueOf(meta[d])
  BY AtHand DEF IInv
<1>2. Queue(d) \in Seq(Operations)
  BY <1>1, MetaFacts
<1>3. CASE Settle(d, All(Queue(d), "transport-closed"))
  <2>1. "transport-closed" \in Fates \ Written
    BY Rejections
  <2> QED  BY <1>2, <1>3, <2>1, RejectedOf
<1>4. CASE Settle(d, <<>>)
  <2>1. <<>> \in Seq(Settled) /\ \A k \in DOMAIN <<>> : FALSE
    OBVIOUS
  <2>2. \A k \in DOMAIN <<>> : <<>>[k].fate \notin Written
    BY <2>1
  <2> QED  BY <1>1, <1>4, <2>1, <2>2, NoneWrittenOf
<1> QED  BY <1>3, <1>4 DEF HandleDisconnect

LEMMA EndSessionSeen ==
    ASSUME IInv, NEW announced, EndSession(announced), NEW c \in Clients
    PROVE  Seen(c)
<1>1. /\ TypeOK /\ meta[c] \in Meta /\ Queue(c) = QueueOf(meta[c])
  BY AtHand DEF IInv
<1>2. Queue(c) \in Seq(Operations)
  BY <1>1, MetaFacts
<1>3. "session-missing" \in Fates /\ "session-missing" \notin Written
  BY Rejections
<1> DEFINE F == All(Queue(c), "session-missing")
<1>4. F \in Seq(Settled) /\ \A k \in DOMAIN F : F[k].fate = "session-missing"
  BY <1>2, <1>3, AllFacts
<1>5. log'[c] = log[c] \o F \/ log'[c] = log[c]
  BY DEF EndSession
<1> HIDE DEF F
<1>6. \A k \in DOMAIN F : F[k].fate \notin Written
  BY <1>3, <1>4
<1>7. CASE log'[c] = log[c] \o F
  BY <1>1, <1>4, <1>6, <1>7, NoneWritten
<1>8. CASE log'[c] = log[c]
  BY <1>1, <1>8, LogStays
<1> QED  BY <1>5, <1>7, <1>8

LEMMA NextSeen ==
    ASSUME IInv, [Next]_vars, NEW c \in Clients
    PROVE  Seen(c)
<1>1. ASSUME NEW d \in Clients, ClientNext(d)
      PROVE  Seen(c)
  <2>1. UNCHANGED log
    BY <1>1 DEF ClientNext, Connect, SendInput, SendSnapshotReady, SendRepairReplay, SendControl
  <2> QED  BY <2>1, OthersSeen
<1>2. ASSUME NEW d \in Clients, ServerNext(d)
      PROVE  Seen(c)
  <2>1. CASE HandleSubscribe(d) \/ HandleScreenRepair(d) \/ BeginClose(d)
    <3>1. UNCHANGED log
      BY <2>1 DEF HandleSubscribe, HandleScreenRepair, BeginClose
    <3> QED  BY <3>1, OthersSeen
  <2>2. CASE HandleUnsubscribe(d) \/ ReplayAckTimeout(d)
    <3>1. \E fate \in {"timeout", "context-changed"} : Settle(d, All(Queue(d), fate))
      BY <2>2 DEF HandleUnsubscribe, ReplayAckTimeout
    <3> QED  BY <3>1, OthersSeen
  <2>3. CASE HandleRepairReplay(d)
    <3>1. UNCHANGED log \/ Settle(d, All(Queue(d), "context-changed"))
      BY <2>3 DEF HandleRepairReplay
    <3> QED  BY <3>1, OthersSeen
  <2>4. CASE ScreenRepairEnds(d)
    <3>1. \/ UNCHANGED log
          \/ Settle(d, All(Displaced([meta[d] EXCEPT !.screenRepair = FALSE]), "context-changed"))
      BY <2>4 DEF ScreenRepairEnds
    <3> QED  BY <3>1, OthersSeen
  <2>5. CASE AuthorityRetry(d)
    <3>1. UNCHANGED log \/ Settle(d, All(Queue(d), "timeout"))
      BY <2>5 DEF AuthorityRetry
    <3> QED  BY <3>1, OthersSeen
  <2>6. CASE RefreshReplaySnapshot(d)
    <3>1. UNCHANGED log \/ Settle(d, All(Queue(d), "context-changed"))
      BY <2>6 DEF RefreshReplaySnapshot
    <3> QED  BY <3>1, OthersSeen
  <2> QED  BY <1>2, <2>1, <2>2, <2>3, <2>4, <2>5, <2>6, HandleInputSeen,
              HandleSnapshotReadySeen, HandleDisconnectSeen DEF ServerNext
<1>3. CASE PtyExit \/ DeleteSession
  BY <1>3, EndSessionSeen DEF PtyExit, DeleteSession
<1>4. CASE UNCHANGED vars
  <2>1. UNCHANGED log /\ TypeOK
    BY <1>4 DEF vars, IInv
  <2> QED  BY <2>1, LogStays
<1> QED  BY <1>1, <1>2, <1>3, <1>4 DEF Next

\* Nothing is written onto a screen known to be stale, and what waited is released by the
\* acknowledgement of the newest snapshot (ActsOnSeenScreen, for handleInput,
\* flushQueuedReplayInputs and consumeReplayPendingForPair).
THEOREM ActsOnSeenScreenHolds == Spec => ActsOnSeenScreen
<1>1. IInv /\ [Next]_vars =>
        [\A c \in Clients :
            NewFates(c) \cap Written # {}
            => meta'[c].replayPending = NoPending /\ ~meta'[c].screenRepair]_vars
  BY NextSeen DEF Seen
<1>2. IInv /\ [Next]_vars =>
        [\A c \in Clients :
            "flushed" \in NewFates(c) => meta[c].tokens \notin meta'[c].snapshots]_vars
  BY NextSeen DEF Seen
<1>3. Spec => WrittenOnCurrentScreen
  BY <1>1, InvHolds, PTL DEF Spec, WrittenOnCurrentScreen
<1>4. Spec => FlushedOnNewestSnapshot
  BY <1>2, InvHolds, PTL DEF Spec, FlushedOnNewestSnapshot
<1> QED  BY <1>3, <1>4 DEF ActsOnSeenScreen
=============================================================================
