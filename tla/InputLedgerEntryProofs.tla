----------------------- MODULE InputLedgerEntryProofs -----------------------
(***************************************************************************)
(* What the computations on one entry of the input ledger keep true, for   *)
(* every value of the constants: lemmas for the proofs about the ledger    *)
(* and about the terminal input that goes through it.                      *)
(*                                                                         *)
(* Why an operation that was let through is not let through again depends  *)
(* on where the entry still knows it from.  EntryInv says where: it is a   *)
(* live record, a tombstone, or at most the watermark of its epoch; and a  *)
(* watermark is the start of an operation that was let through.            *)
(***************************************************************************)
EXTENDS InputLedgerEntry, TLAPS, WellFoundedInduction, FiniteSetTheorems

Known(e) == e.operations \cup e.expiredOperations

\* Entry e knows the operations that were let through as often as w says.
EntryInv(e, w) ==
    /\ e \in Entry
    /\ e.operations \cap e.expiredOperations = {}
    /\ e.operationSequences = Known(e) \cap Sequenced
    /\ \A o \in Known(e) : w[o] >= 1
    /\ \A o \in Sequenced : w[o] >= 1 =>
          o \in Known(e) \/ Sequence[o].start <= e.forgottenWatermark[Sequence[o].epoch]
    /\ \A p \in Epochs : e.forgottenWatermark[p] = 0 \/
          \E o \in Sequenced : /\ w[o] >= 1
                               /\ Sequence[o].epoch = p
                               /\ Sequence[o].start = e.forgottenWatermark[p]

-----------------------------------------------------------------------------
\* What an ordering is made of.
LEMMA OrderingType ==
    ASSUME NEW o \in Sequenced
    PROVE  /\ o \in Operations
           /\ Sequence[o].epoch \in Epochs
           /\ Sequence[o].start \in 1 .. MaxStart
BY EntryAssumption DEF Sequenced, Starts

\* A nonempty set of naturals has a least element.
LEMMA LeastExists ==
    ASSUME NEW T, T \subseteq Nat, T # {}
    PROVE  \E x \in T : \A y \in T : x <= y
<1>1. PICK x \in T : \A y \in T : ~(<<y, x>> \in OpToRel(<, Nat))
  BY NatLessThanWellFounded, WFMin
<1>2. ASSUME NEW y \in T PROVE x <= y
  <2>1. y \in Nat /\ x \in Nat
    OBVIOUS
  <2>2. <<y, x>> \in Nat \X Nat /\ <<y, x>>[1] = y /\ <<y, x>>[2] = x
    BY <2>1
  <2>3. ~(y < x)
    <3> SUFFICES ASSUME y < x PROVE FALSE
      OBVIOUS
    <3>1. <<y, x>> \in OpToRel(<, Nat)
      BY <2>2 DEF OpToRel
    <3> QED  BY <1>1, <3>1
  <2> QED  BY <2>1, <2>3
<1> QED  BY <1>2

\* A nonempty set of starts has a highest element.
LEMMA HighestExists ==
    ASSUME NEW S \in SUBSET (0 .. MaxStart), S # {}
    PROVE  Highest(S) \in S /\ \A m \in S : m <= Highest(S)
<1> DEFINE T == {MaxStart - m : m \in S}
<1>1. MaxStart \in Nat /\ \A m \in S : m \in Int /\ 0 <= m /\ m <= MaxStart
  BY EntryAssumption
<1>2. T \subseteq Nat /\ T # {}
  <2>1. \A m \in S : MaxStart - m \in Nat
    BY <1>1
  <2> QED  BY <2>1
<1>3. PICK x \in T : \A y \in T : x <= y
  <2> HIDE DEF T
  <2> QED  BY <1>2, LeastExists
<1>4. PICK n \in S : x = MaxStart - n
  BY <1>3
<1>5. ASSUME NEW m \in S PROVE m <= n
  <2>1. MaxStart - n <= MaxStart - m
    BY <1>3, <1>4
  <2>2. m \in Int /\ n \in Int /\ MaxStart \in Int
    BY <1>1
  <2> QED  BY <2>1, <2>2
<1> QED  BY <1>5 DEF Highest

\* Oldest picks one of the operations it is given.
LEMMA OldestExists ==
    ASSUME NEW e \in Entry, NEW S \in SUBSET Operations, S # {}
    PROVE  Oldest(e, S) \in S
<1> DEFINE T == {e.order[o] : o \in S}
<1>1. \A o \in S : e.order[o] \in Nat
  BY DEF Entry
<1>2. T \subseteq Nat /\ T # {}
  BY <1>1
<1>3. PICK x \in T : \A y \in T : x <= y
  <2> HIDE DEF T
  <2> QED  BY <1>2, LeastExists
<1>4. PICK o \in S : x = e.order[o]
  BY <1>3
<1>5. \A p \in S : e.order[o] <= e.order[p]
  BY <1>3, <1>4
<1> QED  BY <1>5 DEF Oldest

-----------------------------------------------------------------------------
\* What Forget does: it drops the orderings of `gone' and raises the watermark of each
\* epoch to cover them, and to nothing that was not one of them.
LEMMA ForgetFacts ==
    ASSUME NEW e \in Entry, NEW gone \in SUBSET Operations,
           e.operationSequences \subseteq Sequenced,
           NEW f, f = Forget(e, gone)
    PROVE  /\ f \in Entry
           /\ f.operations = e.operations
           /\ f.expiredOperations = e.expiredOperations
           /\ f.operationSequences = e.operationSequences \ gone
           /\ f.operationDigests = e.operationDigests
           /\ f.operationAdmittedAt = e.operationAdmittedAt
           /\ f.order = e.order
           /\ f.admitted = e.admitted
           /\ \A p \in Epochs : e.forgottenWatermark[p] <= f.forgottenWatermark[p]
           /\ \A o \in gone \cap e.operationSequences :
                 Sequence[o].start <= f.forgottenWatermark[Sequence[o].epoch]
           /\ \A p \in Epochs :
                 \/ f.forgottenWatermark[p] = e.forgottenWatermark[p]
                 \/ \E o \in gone \cap e.operationSequences :
                       /\ Sequence[o].epoch = p
                       /\ Sequence[o].start = f.forgottenWatermark[p]
<1> DEFINE seq == gone \cap e.operationSequences
           Raised(p) == {e.forgottenWatermark[p]}
                        \cup {Sequence[o].start : o \in {q \in seq : Sequence[q].epoch = p}}
           wm == [p \in Epochs |-> Highest(Raised(p))]
<1>1. f = [e EXCEPT !.operationSequences = @ \ gone, !.forgottenWatermark = wm]
  BY DEF Forget
<1>2. ASSUME NEW p \in Epochs
      PROVE  /\ Raised(p) \in SUBSET (0 .. MaxStart)
             /\ Raised(p) # {}
  <2>1. e.forgottenWatermark[p] \in 0 .. MaxStart
    BY DEF Entry
  <2>2. \A o \in seq : Sequence[o].start \in 0 .. MaxStart
    BY OrderingType, EntryAssumption
  <2> QED  BY <2>1, <2>2
<1>3. ASSUME NEW p \in Epochs
      PROVE  Highest(Raised(p)) \in Raised(p) /\ \A m \in Raised(p) : m <= Highest(Raised(p))
  <2> HIDE DEF Raised
  <2> QED  BY <1>2, HighestExists
<1>4. wm \in [Epochs -> 0 .. MaxStart]
  <2>1. \A p \in Epochs : Highest(Raised(p)) \in 0 .. MaxStart
    <3> HIDE DEF Raised
    <3> QED  BY <1>2, <1>3
  <2> HIDE DEF Raised
  <2> QED  BY <2>1
<1> HIDE DEF wm
<1>5. /\ f.operations = e.operations
      /\ f.expiredOperations = e.expiredOperations
      /\ f.operationSequences = e.operationSequences \ gone
      /\ f.operationDigests = e.operationDigests
      /\ f.operationAdmittedAt = e.operationAdmittedAt
      /\ f.order = e.order
      /\ f.admitted = e.admitted
      /\ f.forgottenWatermark = wm
      /\ f \in Entry
  BY <1>1, <1>4 DEF Entry
<1>6. \A p \in Epochs : wm[p] = Highest(Raised(p))
  BY DEF wm
<1>7. \A p \in Epochs : e.forgottenWatermark[p] <= wm[p]
  BY <1>3, <1>6
<1>8. ASSUME NEW o \in seq PROVE Sequence[o].start <= wm[Sequence[o].epoch]
  <2>1. Sequence[o].epoch \in Epochs
    BY OrderingType
  <2>2. Sequence[o].start \in Raised(Sequence[o].epoch)
    OBVIOUS
  <2> QED  BY <1>3, <1>6, <2>1, <2>2
<1>9. ASSUME NEW p \in Epochs
      PROVE  \/ wm[p] = e.forgottenWatermark[p]
             \/ \E o \in seq : Sequence[o].epoch = p /\ Sequence[o].start = wm[p]
  <2>1. wm[p] \in Raised(p)
    BY <1>3, <1>6
  <2> QED  BY <2>1
<1> QED  BY <1>5, <1>7, <1>8, <1>9

\* An entry that forgets operations it knew still accounts for all that was let through.
LEMMA ForgetKeeps ==
    ASSUME NEW e, NEW w \in [Operations -> Nat], EntryInv(e, w),
           NEW gone \in SUBSET Known(e),
           NEW g \in Entry,
           g.operations \cap g.expiredOperations = {},
           Known(g) = Known(e) \ gone,
           g.operationSequences = Forget(e, gone).operationSequences,
           g.forgottenWatermark = Forget(e, gone).forgottenWatermark
    PROVE  EntryInv(g, w)
<1>1. e \in Entry /\ gone \in SUBSET Operations /\ e.operationSequences \subseteq Sequenced
  BY DEF EntryInv, Entry, Known
<1> DEFINE f == Forget(e, gone)
<1>2. /\ f.operationSequences = e.operationSequences \ gone
      /\ \A p \in Epochs : e.forgottenWatermark[p] <= f.forgottenWatermark[p]
      /\ \A o \in gone \cap e.operationSequences :
            Sequence[o].start <= f.forgottenWatermark[Sequence[o].epoch]
      /\ \A p \in Epochs :
            \/ f.forgottenWatermark[p] = e.forgottenWatermark[p]
            \/ \E o \in gone \cap e.operationSequences :
                  /\ Sequence[o].epoch = p
                  /\ Sequence[o].start = f.forgottenWatermark[p]
  BY <1>1, ForgetFacts
<1> HIDE DEF f
<1>3. g.operationSequences = f.operationSequences /\ g.forgottenWatermark = f.forgottenWatermark
  BY DEF f
<1>4. g.operationSequences = Known(g) \cap Sequenced
  BY <1>2, <1>3 DEF EntryInv
<1>5. \A o \in Known(g) : w[o] >= 1
  BY DEF EntryInv
<1>6. ASSUME NEW o \in Sequenced, w[o] >= 1, o \notin Known(g)
      PROVE  Sequence[o].start <= g.forgottenWatermark[Sequence[o].epoch]
  <2>1. Sequence[o].epoch \in Epochs /\ Sequence[o].start \in Int
    BY OrderingType
  <2>2. /\ e.forgottenWatermark[Sequence[o].epoch] \in Int
        /\ g.forgottenWatermark[Sequence[o].epoch] \in Int
    BY <1>1, <2>1 DEF Entry
  <2>3. CASE o \in Known(e)
    <3>1. o \in gone \cap e.operationSequences
      BY <1>6, <2>3 DEF EntryInv
    <3> QED  BY <1>2, <1>3, <3>1
  <2>4. CASE o \notin Known(e)
    <3>1. Sequence[o].start <= e.forgottenWatermark[Sequence[o].epoch]
      BY <1>6, <2>4 DEF EntryInv
    <3>2. e.forgottenWatermark[Sequence[o].epoch] <= g.forgottenWatermark[Sequence[o].epoch]
      BY <1>2, <1>3, <2>1
    <3> QED  BY <2>1, <2>2, <3>1, <3>2
  <2> QED  BY <2>3, <2>4
<1>7. ASSUME NEW p \in Epochs, g.forgottenWatermark[p] # 0
      PROVE  \E o \in Sequenced : /\ w[o] >= 1
                                  /\ Sequence[o].epoch = p
                                  /\ Sequence[o].start = g.forgottenWatermark[p]
  <2>1. CASE g.forgottenWatermark[p] = e.forgottenWatermark[p]
    BY <1>7, <2>1 DEF EntryInv
  <2>2. CASE \E o \in gone \cap e.operationSequences :
                 Sequence[o].epoch = p /\ Sequence[o].start = g.forgottenWatermark[p]
    <3>1. PICK o \in gone \cap e.operationSequences :
                 Sequence[o].epoch = p /\ Sequence[o].start = g.forgottenWatermark[p]
      BY <2>2
    <3>2. o \in Sequenced /\ w[o] >= 1
      BY DEF EntryInv
    <3> QED  BY <3>1, <3>2
  <2> QED  BY <1>2, <1>3, <2>1, <2>2
<1> QED  BY <1>4, <1>5, <1>6, <1>7 DEF EntryInv

-----------------------------------------------------------------------------
\* The time-to-live sweep.
LEMMA SweepKeeps ==
    ASSUME NEW e, NEW w \in [Operations -> Nat], EntryInv(e, w), NEW t
    PROVE  /\ EntryInv(Sweep(e, t), w)
           /\ Sweep(e, t).expiredOperations = e.expiredOperations
           /\ Sweep(e, t).operations \subseteq e.operations
           /\ Sweep(e, t).admitted = e.admitted
<1> DEFINE gone == {o \in e.operations : e.operationAdmittedAt[o] <= t - TTL}
           f == Forget(e, gone)
           g == Sweep(e, t)
<1>1. e \in Entry /\ gone \in SUBSET Operations /\ e.operationSequences \subseteq Sequenced
  BY DEF EntryInv, Entry, Known
<1>2. /\ f \in Entry
      /\ f.operations = e.operations
      /\ f.expiredOperations = e.expiredOperations
      /\ f.admitted = e.admitted
  BY <1>1, ForgetFacts
<1>3. g = [f EXCEPT
            !.operations = @ \ gone,
            !.operationDigests = [o \in Operations |-> IF o \in gone THEN NoPayload ELSE @[o]],
            !.operationAdmittedAt = [o \in Operations |-> IF o \in gone THEN 0 ELSE @[o]]]
  BY DEF Sweep
<1>4. gone \subseteq e.operations
  OBVIOUS
<1> HIDE DEF f, gone, g
<1>5. /\ g \in Entry
      /\ g.operations = e.operations \ gone
      /\ g.expiredOperations = e.expiredOperations
      /\ g.operationSequences = f.operationSequences
      /\ g.forgottenWatermark = f.forgottenWatermark
      /\ g.admitted = e.admitted
  BY <1>2, <1>3 DEF Entry
<1>6. /\ gone \in SUBSET Known(e)
      /\ g.operations \cap g.expiredOperations = {}
      /\ Known(g) = Known(e) \ gone
  BY <1>4, <1>5 DEF Known, EntryInv
<1>7. EntryInv(g, w)
  BY <1>5, <1>6, ForgetKeeps DEF f
<1> QED  BY <1>5, <1>7 DEF g

\* An admitted operation is remembered and counted.
LEMMA RememberKeeps ==
    ASSUME NEW e, NEW w \in [Operations -> Nat], EntryInv(e, w),
           NEW o \in Operations, o \notin Known(e),
           NEW payload \in Payloads \cup {NoPayload}, NEW t \in Nat
    PROVE  EntryInv(Remember(e, o, payload, t), [w EXCEPT ![o] = @ + 1])
<1> DEFINE g == Remember(e, o, payload, t)
           v == [w EXCEPT ![o] = @ + 1]
<1>1. e \in Entry
  BY DEF EntryInv
<1>2. /\ g \in Entry
      /\ g.operations = e.operations \cup {o}
      /\ g.expiredOperations = e.expiredOperations
      /\ g.operationSequences = e.operationSequences \cup ({o} \cap Sequenced)
      /\ g.forgottenWatermark = e.forgottenWatermark
  <2> DEFINE digests == [e.operationDigests EXCEPT ![o] = payload]
             times == [e.operationAdmittedAt EXCEPT ![o] = t]
             ordinals == [e.order EXCEPT ![o] = e.admitted + 1]
  <2>1. digests \in [Operations -> Payloads \cup {NoPayload}]
    BY <1>1 DEF Entry
  <2>2. times \in [Operations -> Nat]
    BY <1>1 DEF Entry
  <2>3. ordinals \in [Operations -> Nat]
    BY <1>1 DEF Entry
  <2>4. g = [e EXCEPT !.operations = @ \cup {o},
                      !.operationAdmittedAt = times,
                      !.order = ordinals,
                      !.operationSequences = @ \cup ({o} \cap Sequenced),
                      !.operationDigests = digests,
                      !.admitted = @ + 1]
    BY <1>1 DEF Entry, Remember
  <2> HIDE DEF digests, times, ordinals, g
  <2>5. e.operations \cup {o} \in SUBSET Operations
    BY <1>1 DEF Entry
  <2>6. e.operationSequences \cup ({o} \cap Sequenced) \in SUBSET Operations
    BY <1>1 DEF Entry
  <2>7. e.admitted + 1 \in Nat
    BY <1>1 DEF Entry
  <2>8. g = [operations          |-> e.operations \cup {o},
             expiredOperations   |-> e.expiredOperations,
             operationSequences  |-> e.operationSequences \cup ({o} \cap Sequenced),
             operationDigests    |-> digests,
             operationAdmittedAt |-> times,
             order               |-> ordinals,
             forgottenWatermark  |-> e.forgottenWatermark,
             admitted            |-> e.admitted + 1]
    BY <1>1, <2>4 DEF Entry
  <2> QED  BY <1>1, <2>1, <2>2, <2>3, <2>5, <2>6, <2>7, <2>8 DEF Entry
<1>3. Known(g) = Known(e) \cup {o}
  BY <1>2 DEF Known
<1>4. /\ v \in [Operations -> Nat]
      /\ v[o] >= 1
      /\ \A p \in Operations \ {o} : v[p] = w[p]
      /\ \A p \in Operations : w[p] >= 1 => v[p] >= 1
  OBVIOUS
<1> HIDE DEF g, v
<1>5. g.operations \cap g.expiredOperations = {}
  BY <1>2 DEF EntryInv, Known
<1>6. g.operationSequences = Known(g) \cap Sequenced
  BY <1>2, <1>3 DEF EntryInv
<1>7. \A p \in Known(g) : v[p] >= 1
  <2>1. Known(e) \subseteq Operations
    BY <1>1 DEF Known, Entry
  <2> QED  BY <1>3, <1>4, <2>1 DEF EntryInv
<1>8. \A p \in Sequenced : v[p] >= 1 =>
         p \in Known(g) \/ Sequence[p].start <= g.forgottenWatermark[Sequence[p].epoch]
  BY <1>2, <1>3, <1>4, OrderingType DEF EntryInv
<1>9. \A p \in Epochs : g.forgottenWatermark[p] = 0 \/
         \E q \in Sequenced : /\ v[q] >= 1
                              /\ Sequence[q].epoch = p
                              /\ Sequence[q].start = g.forgottenWatermark[p]
  BY <1>2, <1>4, OrderingType DEF EntryInv
<1>10. EntryInv(g, v)
  BY <1>2, <1>5, <1>6, <1>7, <1>8, <1>9 DEF EntryInv
<1> QED  BY <1>10 DEF g, v

\* A set of more than MaxOperations operations is not empty.
LEMMA OverfullNonempty ==
    ASSUME NEW S, Cardinality(S) > MaxOperations
    PROVE  S # {}
BY EntryAssumption, FS_EmptySet

\* The oldest tombstone may be forgotten altogether.
LEMMA DropTombstoneKeeps ==
    ASSUME NEW e, NEW w \in [Operations -> Nat], EntryInv(e, w)
    PROVE  EntryInv(DropTombstone(e), w)
<1>1. CASE ~(Cardinality(e.expiredOperations) > MaxOperations)
  BY <1>1 DEF DropTombstone
<1>2. CASE Cardinality(e.expiredOperations) > MaxOperations
  <2> DEFINE old == Oldest(e, e.expiredOperations)
             f == Forget(e, {old})
             g == DropTombstone(e)
  <2>1. e \in Entry /\ e.expiredOperations \subseteq Operations
        /\ e.operationSequences \subseteq Sequenced
    BY DEF EntryInv, Entry, Known
  <2>2. old \in e.expiredOperations
    BY <1>2, <2>1, OverfullNonempty, OldestExists
  <2>3. g = [f EXCEPT !.expiredOperations = @ \ {old}]
    BY <1>2 DEF DropTombstone
  <2> HIDE DEF old, g
  <2>4. /\ f \in Entry
        /\ f.operations = e.operations
        /\ f.expiredOperations = e.expiredOperations
    BY <2>1, <2>2, ForgetFacts
  <2> HIDE DEF f
  <2>5. /\ g \in Entry
        /\ g.operations = e.operations
        /\ g.expiredOperations = e.expiredOperations \ {old}
        /\ g.operationSequences = f.operationSequences
        /\ g.forgottenWatermark = f.forgottenWatermark
    BY <2>3, <2>4 DEF Entry
  <2>6. /\ {old} \in SUBSET Known(e)
        /\ g.operations \cap g.expiredOperations = {}
        /\ Known(g) = Known(e) \ {old}
    BY <2>2, <2>5 DEF EntryInv, Known
  <2>7. EntryInv(g, w)
    BY <2>5, <2>6, ForgetKeeps DEF f
  <2> QED  BY <2>7 DEF g
<1> QED  BY <1>1, <1>2

\* The oldest live record may become a tombstone.
LEMMA EvictKeeps ==
    ASSUME NEW e, NEW w \in [Operations -> Nat], EntryInv(e, w)
    PROVE  EntryInv(Evict(e), w)
<1>1. CASE ~(Cardinality(e.operations) > MaxOperations)
  BY <1>1 DEF Evict
<1>2. CASE Cardinality(e.operations) > MaxOperations
  <2> DEFINE old == Oldest(e, e.operations)
             g == [e EXCEPT !.operations = @ \ {old},
                            !.operationDigests[old] = NoPayload,
                            !.operationAdmittedAt[old] = 0,
                            !.expiredOperations = @ \cup {old}]
  <2>1. e \in Entry /\ e.operations \subseteq Operations
    BY DEF EntryInv, Entry
  <2>2. old \in e.operations
    BY <1>2, <2>1, OverfullNonempty, OldestExists
  <2>3. Evict(e) = DropTombstone(g)
    BY <1>2 DEF Evict
  <2> HIDE DEF old
  <2>4. /\ g \in Entry
        /\ g.operations = e.operations \ {old}
        /\ g.expiredOperations = e.expiredOperations \cup {old}
        /\ g.operationSequences = e.operationSequences
        /\ g.forgottenWatermark = e.forgottenWatermark
    <3> DEFINE digests == [e.operationDigests EXCEPT ![old] = NoPayload]
               times == [e.operationAdmittedAt EXCEPT ![old] = 0]
    <3>1. digests \in [Operations -> Payloads \cup {NoPayload}]
      BY <2>1 DEF Entry
    <3>2. times \in [Operations -> Nat]
      BY <2>1 DEF Entry
    <3>3. g = [e EXCEPT !.operations = @ \ {old},
                        !.operationDigests = digests,
                        !.operationAdmittedAt = times,
                        !.expiredOperations = @ \cup {old}]
      BY <2>1 DEF Entry
    <3> HIDE DEF digests, times, g
    <3>4. e.expiredOperations \cup {old} \in SUBSET Operations
      BY <2>1, <2>2 DEF Entry
    <3> QED  BY <2>1, <3>1, <3>2, <3>3, <3>4 DEF Entry
  <2> HIDE DEF g
  <2>5. g.operations \cap g.expiredOperations = {} /\ Known(g) = Known(e)
    BY <2>2, <2>4 DEF Known, EntryInv
  <2>6. EntryInv(g, w)
    BY <2>4, <2>5 DEF EntryInv
  <2> QED  BY <2>3, <2>6, DropTombstoneKeeps
<1> QED  BY <1>1, <1>2

-----------------------------------------------------------------------------
\* An admitted operation is not known, and one with an ordering was never let through.
LEMMA AdmittedIsNew ==
    ASSUME NEW e, NEW w \in [Operations -> Nat], EntryInv(e, w),
           NEW o \in Operations, NEW payload, Outcome(e, o, payload) = "admitted"
    PROVE  o \notin Known(e) /\ (o \in Sequenced => w[o] = 0)
<1>1. /\ o \notin e.operations
      /\ o \notin e.expiredOperations
      /\ ~(o \in Sequenced /\ Sequence[o].start <= e.forgottenWatermark[Sequence[o].epoch])
  BY DEF Outcome
<1>2. o \notin Known(e)
  BY <1>1 DEF Known
<1>3. o \in Sequenced => ~(w[o] >= 1)
  BY <1>1, <1>2 DEF EntryInv
<1> QED  BY <1>2, <1>3

\* A refused operation is known, or one at or above it in its epoch was let through.
LEMMA RefusedIsKnown ==
    ASSUME NEW e, NEW w \in [Operations -> Nat], EntryInv(e, w),
           NEW o \in Operations, NEW payload, Outcome(e, o, payload) # "admitted"
    PROVE  \/ /\ Outcome(e, o, payload) \in {"duplicate", "expired", "payload-mismatch"}
              /\ o \in Known(e)
           \/ /\ Outcome(e, o, payload) = "unknown"
              /\ o \in Sequenced
              /\ \E q \in Sequenced : /\ w[q] >= 1
                                      /\ Sequence[q].epoch = Sequence[o].epoch
                                      /\ Sequence[o].start <= Sequence[q].start
<1>1. CASE o \in Known(e)
  BY <1>1 DEF Outcome, Known
<1>2. CASE o \notin Known(e)
  <2>1. /\ o \notin e.operations
        /\ o \notin e.expiredOperations
    BY <1>2 DEF Known
  <2>2. /\ Outcome(e, o, payload) = "unknown"
        /\ o \in Sequenced
        /\ Sequence[o].start <= e.forgottenWatermark[Sequence[o].epoch]
    BY <2>1 DEF Outcome
  <2>3. e.forgottenWatermark[Sequence[o].epoch] # 0
    BY <2>2, OrderingType
  <2>4. PICK q \in Sequenced : /\ w[q] >= 1
                               /\ Sequence[q].epoch = Sequence[o].epoch
                               /\ Sequence[q].start = e.forgottenWatermark[Sequence[o].epoch]
    BY <2>2, <2>3, OrderingType DEF EntryInv
  <2> QED  BY <2>2, <2>4
<1> QED  BY <1>1, <1>2

\* An entry that remembers nothing accounts for nothing.
LEMMA NewEntryInv == EntryInv(NewEntry, [o \in Operations |-> 0])
<1> DEFINE w == [o \in Operations |-> 0]
<1>1. NewEntry \in Entry
  <2>1. 0 \in 0 .. MaxStart
    BY EntryAssumption
  <2>2. [p \in Epochs |-> 0] \in [Epochs -> 0 .. MaxStart]
    BY <2>1
  <2> QED  BY <2>2 DEF NewEntry, Entry
<1>2. /\ NewEntry.operations = {}
      /\ NewEntry.expiredOperations = {}
      /\ NewEntry.operationSequences = {}
      /\ \A p \in Epochs : NewEntry.forgottenWatermark[p] = 0
  BY DEF NewEntry
<1>3. \A o \in Sequenced : ~(w[o] >= 1)
  BY OrderingType
<1> QED  BY <1>1, <1>2, <1>3 DEF EntryInv, Known
=============================================================================
