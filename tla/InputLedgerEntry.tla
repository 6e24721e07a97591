-------------------------- MODULE InputLedgerEntry --------------------------
(***************************************************************************)
(* One entry of the server's input ledger and the computations on it       *)
(* (server/src/ws/terminalInputLedger.ts): what the ledger remembers of    *)
(* the input one logical client sent to one session.                       *)
(*                                                                         *)
(* The memory is bounded three times over: at most MaxOperations live      *)
(* records, at most MaxOperations tombstones of evicted ones, and a        *)
(* time-to-live.  What is forgotten completely leaves only a watermark per *)
(* sequencer epoch, below which the ledger refuses.                        *)
(*                                                                         *)
(* JavaScript's Set iterates in insertion order and both Sets of an entry  *)
(* evict their first element; `order' keeps the ordinal of the admission,  *)
(* and operations reach the tombstones in the order they were admitted, so *)
(* one ordinal serves both.                                                *)
(***************************************************************************)
EXTENDS Integers, FiniteSets

CONSTANTS
    Operations,     \* operation ids the clients may send
    Epochs,         \* sequencer epochs
    MaxStart,       \* largest inputSeqStart (Number.MAX_SAFE_INTEGER)
    Sequence,       \* the ordering an operation id carries, or NoSequence
    NoSequence,
    Payloads,       \* input bytes, one value for each digest
    NoPayload,      \* an admission request without payload
    MaxOperations,  \* maxOperationsPerSession
    TTL             \* ttlMs

Starts == 1 .. MaxStart

ASSUME EntryAssumption ==
    /\ MaxStart \in Nat
    /\ MaxOperations \in Nat \ {0}
    /\ TTL \in Nat \ {0}
    /\ NoSequence \notin [epoch : Epochs, start : Starts]
    /\ Sequence \in [Operations -> [epoch : Epochs, start : Starts] \cup {NoSequence}]
    /\ NoPayload \notin Payloads

Sequenced == {o \in Operations : Sequence[o] # NoSequence}

Entry ==
    [operations          : SUBSET Operations,
     expiredOperations   : SUBSET Operations,
     operationSequences  : SUBSET Operations,
     operationDigests    : [Operations -> Payloads \cup {NoPayload}],
     operationAdmittedAt : [Operations -> Nat],
     order               : [Operations -> Nat],
     forgottenWatermark  : [Epochs -> 0 .. MaxStart],
     admitted            : Nat]

NewEntry ==
    [operations          |-> {},
     expiredOperations   |-> {},
     operationSequences  |-> {},
     operationDigests    |-> [o \in Operations |-> NoPayload],
     operationAdmittedAt |-> [o \in Operations |-> 0],
     order               |-> [o \in Operations |-> 0],
     forgottenWatermark  |-> [p \in Epochs |-> 0],
     admitted            |-> 0]

Highest(S) == CHOOSE n \in S : \A m \in S : m <= n
Oldest(e, S) == CHOOSE o \in S : \A p \in S : e.order[o] <= e.order[p]

\* Mutant of Forget: the watermark stays.
ForgetSilently(e, gone) == [e EXCEPT !.operationSequences = @ \ gone]

\* The operations of `gone' leave the entry without a trace but for the watermark.
Forget(e, gone) ==
    LET seq == gone \cap e.operationSequences
        Raised(p) == {e.forgottenWatermark[p]}
                     \cup {Sequence[o].start : o \in {q \in seq : Sequence[q].epoch = p}}
    IN  [e EXCEPT !.operationSequences = @ \ gone,
                  !.forgottenWatermark = [p \in Epochs |-> Highest(Raised(p))]]

\* Live records older than the time-to-live are dropped before a request is answered.
Sweep(e, t) ==
    LET gone == {o \in e.operations : e.operationAdmittedAt[o] <= t - TTL}
    IN  [Forget(e, gone) EXCEPT
            !.operations = @ \ gone,
            !.operationDigests = [o \in Operations |-> IF o \in gone THEN NoPayload ELSE @[o]],
            !.operationAdmittedAt = [o \in Operations |-> IF o \in gone THEN 0 ELSE @[o]]]

\* Mutants of Outcome: no watermark is consulted, or one for all epochs.
OutcomeNoWatermark(e, o, payload) ==
    CASE o \in e.operations        -> "duplicate"
      [] o \in e.expiredOperations \ e.operations -> "expired"
      [] OTHER                     -> "admitted"
OutcomeAnyEpoch(e, o, payload) ==
    CASE o \in e.operations        -> "duplicate"
      [] o \in e.expiredOperations \ e.operations -> "expired"
      [] /\ o \in Sequenced \ (e.operations \cup e.expiredOperations)
         /\ \E p \in Epochs : Sequence[o].start <= e.forgottenWatermark[p] -> "unknown"
      [] OTHER                     -> "admitted"

Outcome(e, o, payload) ==
    CASE /\ o \in e.operations
         /\ NoPayload \notin {payload, e.operationDigests[o]}
         /\ payload # e.operationDigests[o]      -> "payload-mismatch"
      [] /\ o \in e.operations
         /\ \/ NoPayload \in {payload, e.operationDigests[o]}
            \/ payload = e.operationDigests[o]   -> "duplicate"
      [] /\ o \notin e.operations
         /\ o \in e.expiredOperations            -> "expired"
      [] /\ o \notin e.operations \cup e.expiredOperations
         /\ o \in Sequenced
         /\ Sequence[o].start <= e.forgottenWatermark[Sequence[o].epoch] -> "unknown"
      [] OTHER                                   -> "admitted"

\* Too many tombstones: the oldest is forgotten altogether.
DropTombstone(e) ==
    IF Cardinality(e.expiredOperations) > MaxOperations
    THEN LET old == Oldest(e, e.expiredOperations)
         IN  [Forget(e, {old}) EXCEPT !.expiredOperations = @ \ {old}]
    ELSE e

\* Mutants of Evict: the evicted record leaves no tombstone, or is one too many.
EvictWithoutTombstone(e) ==
    IF Cardinality(e.operations) > MaxOperations
    THEN LET old == Oldest(e, e.operations)
         IN  Forget([e EXCEPT !.operations = @ \ {old},
                              !.operationDigests[old] = NoPayload,
                              !.operationAdmittedAt[old] = 0], {old})
    ELSE e
EvictLate(e) ==
    IF Cardinality(e.operations) > MaxOperations + 1
    THEN LET old == Oldest(e, e.operations)
         IN  DropTombstone([e EXCEPT !.operations = @ \ {old},
                                     !.operationDigests[old] = NoPayload,
                                     !.expiredOperations = @ \cup {old}])
    ELSE e

\* Too many live records: the oldest becomes a tombstone.
Evict(e) ==
    IF Cardinality(e.operations) > MaxOperations
    THEN LET old == Oldest(e, e.operations)
         IN  DropTombstone([e EXCEPT !.operations = @ \ {old},
                                     !.operationDigests[old] = NoPayload,
                                     !.operationAdmittedAt[old] = 0,
                                     !.expiredOperations = @ \cup {old}])
    ELSE e

Remember(e, o, payload, t) ==
    [e EXCEPT !.operations = @ \cup {o},
              !.operationAdmittedAt[o] = t,
              !.order[o] = e.admitted + 1,
              !.operationSequences = @ \cup ({o} \cap Sequenced),
              !.operationDigests[o] = payload,
              !.admitted = @ + 1]
=============================================================================
