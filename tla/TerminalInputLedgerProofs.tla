---------------------- MODULE TerminalInputLedgerProofs ----------------------
(***************************************************************************)
(* Proofs about TerminalInputLedger, for every value of the constants:     *)
(* what is written at most once, that its answers are those of             *)
(* InputAdmission, a ledger that never forgets, and that its memory is     *)
(* bounded.                                                                *)
(*                                                                         *)
(* AtMostOnce is not inductive: IInv adds that each entry accounts for     *)
(* what was written, EntryInv of InputLedgerEntryProofs.  WindowInv adds,  *)
(* for what has no ordering, that an entry forgets in the order of         *)
(* arrival, so that nothing is forgotten before its window has passed.     *)
(***************************************************************************)
EXTENDS TerminalInputLedger, InputLedgerEntryProofs

IInv ==
    /\ TypeOK
    /\ AtMostOnce
    /\ \A k \in Keys : EntryInv(entries[k], written[k])

LEMMA OutcomeType ==
    ASSUME NEW e, NEW o, NEW payload
    PROVE  Outcome(e, o, payload) \in Outcomes \ {"unidentified"}
BY DEF Outcome, Outcomes

-----------------------------------------------------------------------------
LEMMA InitInv == Init => IInv
<1> SUFFICES ASSUME Init PROVE IInv
  OBVIOUS
<1>1. TypeOK
  BY NewEntryInv, LedgerAssumption DEF Init, TypeOK, EntryInv
<1>2. AtMostOnce
  BY OrderingType DEF Init, AtMostOnce
<1>3. \A k \in Keys : EntryInv(entries[k], written[k])
  BY NewEntryInv DEF Init
<1> QED  BY <1>1, <1>2, <1>3 DEF IInv

\* An admission request keeps the invariant, whatever the answer.
LEMMA AdmitInv ==
    ASSUME IInv, NEW k \in Keys, NEW o \in Operations,
           NEW payload \in Payloads \cup {NoPayload}, Admit(k, o, payload)
    PROVE  IInv'
<1> DEFINE e == Sweep(entries[k], now)
           out == Outcome(e, o, payload)
           g == Evict(Remember(e, o, payload, now))
<1>1. /\ entries \in [Keys -> Entry]
      /\ now \in 0 .. MaxTime /\ now \in Nat
      /\ written \in [Keys -> [Operations -> Nat]]
      /\ writtenAt \in [Keys -> [Operations -> Nat]]
  BY LedgerAssumption DEF IInv, TypeOK
<1>2. EntryInv(entries[k], written[k]) /\ written[k] \in [Operations -> Nat]
  BY <1>1 DEF IInv
<1>3. EntryInv(e, written[k])
  BY <1>2, SweepKeeps
<1>4. /\ answer' = [key |-> k, op |-> o, outcome |-> out]
      /\ now' = now
      /\ \/ /\ out = "admitted"
            /\ entries' = [entries EXCEPT ![k] = g]
            /\ written' = [written EXCEPT ![k][o] = @ + 1]
            /\ writtenAt' = [writtenAt EXCEPT ![k][o] = now]
         \/ /\ out # "admitted"
            /\ entries' = [entries EXCEPT ![k] = e]
            /\ written' = written
            /\ writtenAt' = writtenAt
  BY DEF Admit
<1>5. out \in Outcomes \ {"unidentified"}
  BY OutcomeType
<1>6. out = "admitted" => o \notin Known(e) /\ (o \in Sequenced => written[k][o] = 0)
  BY <1>2, <1>3, AdmittedIsNew
<1>7. out = "admitted" => EntryInv(g, [written[k] EXCEPT ![o] = @ + 1])
  <2> SUFFICES ASSUME out = "admitted" PROVE EntryInv(g, [written[k] EXCEPT ![o] = @ + 1])
    OBVIOUS
  <2>1. EntryInv(Remember(e, o, payload, now), [written[k] EXCEPT ![o] = @ + 1])
    BY <1>1, <1>2, <1>3, <1>6, RememberKeeps
  <2>2. [written[k] EXCEPT ![o] = @ + 1] \in [Operations -> Nat]
    BY <1>2
  <2> QED  BY <2>1, <2>2, EvictKeeps
<1> HIDE DEF e, out, g
<1>8. answer' \in Answers \cup {NoAnswer}
  BY <1>4, <1>5 DEF Answers
<1>9. CASE out = "admitted"
  <2>1. /\ entries' = [entries EXCEPT ![k] = g]
        /\ written' = [written EXCEPT ![k] = [written[k] EXCEPT ![o] = @ + 1]]
        /\ writtenAt' = [writtenAt EXCEPT ![k] = [writtenAt[k] EXCEPT ![o] = now]]
    BY <1>4, <1>9
  <2>2. g \in Entry
    BY <1>7, <1>9 DEF EntryInv
  <2>3. [written[k] EXCEPT ![o] = @ + 1] \in [Operations -> Nat]
    BY <1>2
  <2>4. [writtenAt[k] EXCEPT ![o] = now] \in [Operations -> Nat]
    BY <1>1
  <2>5. TypeOK'
    BY <1>1, <1>4, <1>8, <2>1, <2>2, <2>3, <2>4 DEF TypeOK
  <2>6. \A j \in Keys : EntryInv(entries'[j], written'[j])
    BY <1>1, <1>7, <1>9, <2>1 DEF IInv
  <2>7. AtMostOnce'
    <3> SUFFICES ASSUME NEW j \in Keys, NEW q \in Sequenced PROVE written'[j][q] <= 1
      BY DEF AtMostOnce
    <3>1. q \in Operations /\ written[j][q] <= 1 /\ written[j][q] \in Nat
      BY <1>1, OrderingType DEF IInv, AtMostOnce
    <3>2. CASE j = k /\ q = o
      <4>1. written'[k][o] = written[k][o] + 1 /\ written[k][o] = 0
        BY <1>1, <1>6, <1>9, <2>1, <3>2
      <4> QED  BY <3>2, <4>1
    <3>3. CASE ~(j = k /\ q = o)
      BY <1>1, <2>1, <3>1, <3>3
    <3> QED  BY <3>2, <3>3
  <2> QED  BY <2>5, <2>6, <2>7 DEF IInv
<1>10. CASE out # "admitted"
  <2>1. entries' = [entries EXCEPT ![k] = e] /\ written' = written /\ writtenAt' = writtenAt
    BY <1>4, <1>10
  <2>2. e \in Entry
    BY <1>3 DEF EntryInv
  <2>3. TypeOK'
    BY <1>1, <1>4, <1>8, <2>1, <2>2 DEF TypeOK
  <2>4. \A j \in Keys : EntryInv(entries'[j], written'[j])
    BY <1>1, <1>3, <2>1 DEF IInv
  <2>5. AtMostOnce'
    BY <2>1 DEF IInv, AtMostOnce
  <2> QED  BY <2>3, <2>4, <2>5 DEF IInv
<1> QED  BY <1>9, <1>10

\* A request without an operation id only sweeps.
LEMMA AdmitUnidentifiedInv ==
    ASSUME IInv, NEW k \in Keys, AdmitUnidentified(k)
    PROVE  IInv'
<1> DEFINE e == Sweep(entries[k], now)
<1>1. /\ entries \in [Keys -> Entry]
      /\ now \in 0 .. MaxTime
      /\ written \in [Keys -> [Operations -> Nat]]
      /\ writtenAt \in [Keys -> [Operations -> Nat]]
  BY DEF IInv, TypeOK
<1>2. EntryInv(e, written[k])
  BY <1>1, SweepKeeps DEF IInv
<1>3. /\ entries' = [entries EXCEPT ![k] = e]
      /\ answer' = [key |-> k, outcome |-> "unidentified"]
      /\ now' = now /\ written' = written /\ writtenAt' = writtenAt
  BY DEF AdmitUnidentified
<1> HIDE DEF e
<1>4. TypeOK'
  BY <1>1, <1>2, <1>3 DEF TypeOK, EntryInv, Answers
<1>5. \A j \in Keys : EntryInv(entries'[j], written'[j])
  BY <1>1, <1>2, <1>3 DEF IInv
<1>6. AtMostOnce'
  BY <1>3 DEF IInv, AtMostOnce
<1> QED  BY <1>4, <1>5, <1>6 DEF IInv

\* A release starts its entries afresh.
LEMMA ReleaseInv ==
    ASSUME IInv, NEW ks, ReleaseKeys(ks)
    PROVE  IInv'
<1>1. /\ entries' = [k \in Keys |-> IF k \in ks THEN NewEntry ELSE entries[k]]
      /\ written' = [k \in Keys |-> IF k \in ks THEN [o \in Operations |-> 0] ELSE written[k]]
      /\ writtenAt' = [k \in Keys |->
                         IF k \in ks THEN [o \in Operations |-> 0] ELSE writtenAt[k]]
      /\ answer' = NoAnswer
      /\ now' = now
  BY DEF ReleaseKeys
<1>2. NewEntry \in Entry
  BY NewEntryInv DEF EntryInv
<1>3. TypeOK'
  BY <1>1, <1>2 DEF IInv, TypeOK
<1>4. \A j \in Keys : EntryInv(entries'[j], written'[j])
  BY <1>1, NewEntryInv DEF IInv
<1>5. AtMostOnce'
  BY <1>1, OrderingType DEF IInv, AtMostOnce
<1> QED  BY <1>3, <1>4, <1>5 DEF IInv

LEMMA NextInv == IInv /\ [Next]_vars => IInv'
<1> SUFFICES ASSUME IInv, [Next]_vars PROVE IInv'
  OBVIOUS
<1>1. ASSUME NEW k \in Keys, NEW o \in Operations,
             NEW payload \in Payloads \cup {NoPayload}, Admit(k, o, payload)
      PROVE  IInv'
  BY <1>1, AdmitInv
<1>2. ASSUME NEW k \in Keys, AdmitUnidentified(k)
      PROVE  IInv'
  BY <1>2, AdmitUnidentifiedInv
<1>3. ASSUME NEW k \in Keys, Release(k)
      PROVE  IInv'
  BY <1>3, ReleaseInv DEF Release
<1>4. ASSUME NEW c \in Clients, ReleaseLogicalClient(c)
      PROVE  IInv'
  BY <1>4, ReleaseInv DEF ReleaseLogicalClient
<1>5. CASE Tick
  BY <1>5, LedgerAssumption DEF Tick, IInv, TypeOK, AtMostOnce
<1>6. CASE UNCHANGED vars
  BY <1>6 DEF vars, IInv, TypeOK, AtMostOnce
<1> QED  BY <1>1, <1>2, <1>3, <1>4, <1>5, <1>6 DEF Next

\* Every variable keeps its type, and the entries account for what was written.
THEOREM Invariance == Spec => []IInv
BY InitInv, NextInv, PTL DEF Spec

\* Every variable keeps its type.
THEOREM TypeCorrect == Spec => []TypeOK
<1>1. IInv => TypeOK
  BY DEF IInv
<1> QED  BY Invariance, <1>1, PTL

\* An operation that carries an ordering is written at most once before a release.
THEOREM WrittenAtMostOnce == Spec => []AtMostOnce
<1>1. IInv => AtMostOnce
  BY DEF IInv
<1> QED  BY Invariance, <1>1, PTL

\* No operation that is new to its epoch is ever refused, whatever was forgotten.
THEOREM NewIsAdmitted == Spec => []FreshIsAdmitted
<1>1. ASSUME IInv PROVE FreshIsAdmitted
  <2> SUFFICES ASSUME NEW k \in Keys, NEW o \in Sequenced, NEW payload \in Payloads,
                      written[k][o] = 0,
                      \A p \in Sequenced :
                          written[k][p] > 0 /\ Sequence[p].epoch = Sequence[o].epoch
                              => Sequence[p].start < Sequence[o].start,
                      Outcome(Sweep(entries[k], now), o, payload) # "admitted"
               PROVE  FALSE
    BY DEF FreshIsAdmitted
  <2>1. EntryInv(entries[k], written[k]) /\ written[k] \in [Operations -> Nat]
    BY <1>1 DEF IInv, TypeOK
  <2>2. EntryInv(Sweep(entries[k], now), written[k])
    BY <2>1, SweepKeeps
  <2>3. \/ o \in Known(Sweep(entries[k], now))
        \/ \E q \in Sequenced : /\ written[k][q] >= 1
                                /\ Sequence[q].epoch = Sequence[o].epoch
                                /\ Sequence[o].start <= Sequence[q].start
    BY <2>1, <2>2, OrderingType, RefusedIsKnown
  <2>4. CASE o \in Known(Sweep(entries[k], now))
    BY <2>2, <2>4 DEF EntryInv
  <2>5. CASE \E q \in Sequenced : /\ written[k][q] >= 1
                                  /\ Sequence[q].epoch = Sequence[o].epoch
                                  /\ Sequence[o].start <= Sequence[q].start
    <3>1. PICK q \in Sequenced : /\ written[k][q] >= 1
                                 /\ Sequence[q].epoch = Sequence[o].epoch
                                 /\ Sequence[o].start <= Sequence[q].start
      BY <2>5
    <3>2. written[k][q] > 0
      BY <2>1, <3>1, OrderingType
    <3>3. Sequence[q].start < Sequence[o].start
      BY <3>1, <3>2
    <3> QED  BY <3>1, <3>3, OrderingType
  <2> QED  BY <2>3, <2>4, <2>5
<1> QED  BY Invariance, <1>1, PTL

-----------------------------------------------------------------------------
\* The operations granted for an entry, read off the number of times they were written.
LEMMA GrantedMembers ==
    ASSUME NEW k \in Keys, NEW o \in Operations
    PROVE  o \in Granted[k] <=> written[k][o] > 0
BY DEF Granted

LEMMA InitRefines == Init => Admission!Init
<1> SUFFICES ASSUME Init PROVE Admission!Init
  OBVIOUS
<1>1. \A k \in Keys : Granted[k] = {}
  BY DEF Granted, Init
<1>2. Granted = [k \in Keys |-> {}]
  BY <1>1 DEF Granted
<1> QED  BY <1>2 DEF Init, Admission!Init, NoAnswer, Admission!NoAnswer

\* An admission grants the operation, or refuses it for a reason that is true.
LEMMA AdmitRefines ==
    ASSUME IInv, NEW k \in Keys, NEW o \in Operations,
           NEW payload \in Payloads \cup {NoPayload}, Admit(k, o, payload)
    PROVE  Admission!Next
<1> DEFINE e == Sweep(entries[k], now)
           out == Outcome(e, o, payload)
<1>1. written \in [Keys -> [Operations -> Nat]] /\ written[k] \in [Operations -> Nat]
  BY DEF IInv, TypeOK
<1>2. EntryInv(e, written[k])
  BY <1>1, SweepKeeps DEF IInv
<1>3. answer' = [key |-> k, op |-> o, outcome |-> out]
  BY DEF Admit
<1>4. CASE out = "admitted"
  <2>1. written' = [written EXCEPT ![k][o] = @ + 1]
    BY <1>4 DEF Admit
  <2>2. o \in Sequenced => o \notin Granted[k]
    BY <1>1, <1>2, <1>4, AdmittedIsNew, GrantedMembers
  <2>3. Granted' = [Granted EXCEPT ![k] = @ \cup {o}]
    <3>1. ASSUME NEW j \in Keys
          PROVE  Granted'[j] = IF j = k THEN Granted[j] \cup {o} ELSE Granted[j]
      <4>1. ASSUME NEW q \in Operations
            PROVE  written'[j][q] > 0 <=> written[j][q] > 0 \/ (j = k /\ q = o)
        BY <1>1, <2>1
      <4>2. Granted'[j] = {q \in Operations : written'[j][q] > 0}
        BY DEF Granted
      <4>3. Granted[j] = {q \in Operations : written[j][q] > 0}
        BY DEF Granted
      <4> QED  BY <4>1, <4>2, <4>3
    <3>2. Granted' = [j \in Keys |-> Granted'[j]]
      BY DEF Granted
    <3>3. DOMAIN Granted = Keys
      BY DEF Granted
    <3> HIDE DEF e, out
    <3> QED  BY <3>1, <3>2, <3>3
  <2>4. Admission!Grant(k, o)
    BY <1>3, <1>4, <2>2, <2>3 DEF Admission!Grant, Admission!Sequenced, Sequenced
  <2> QED  BY <2>4 DEF Admission!Next
<1>5. CASE out # "admitted"
  <2>1. written' = written
    BY <1>5 DEF Admit
  <2>2. UNCHANGED Granted
    BY <2>1 DEF Granted
  <2>3. CASE out \in {"duplicate", "expired", "payload-mismatch"} /\ o \in Known(e)
    <3>1. written[k][o] > 0
      BY <1>1, <1>2, <2>3 DEF EntryInv
    <3>2. o \in Granted[k]
      BY <3>1, GrantedMembers
    <3>3. Admission!RefuseKnown(k, o)
      BY <1>3, <2>2, <2>3, <3>2 DEF Admission!RefuseKnown
    <3> QED  BY <3>3 DEF Admission!Next
  <2>4. CASE /\ out = "unknown"
             /\ o \in Sequenced
             /\ \E q \in Sequenced : /\ written[k][q] >= 1
                                     /\ Sequence[q].epoch = Sequence[o].epoch
                                     /\ Sequence[o].start <= Sequence[q].start
    <3>1. PICK q \in Sequenced : /\ written[k][q] >= 1
                                 /\ Sequence[q].epoch = Sequence[o].epoch
                                 /\ Sequence[o].start <= Sequence[q].start
      BY <2>4
    <3>2. q \in Granted[k]
      BY <1>1, <3>1, OrderingType, GrantedMembers
    <3>3. Admission!RefuseUnknown(k, o)
      BY <1>3, <2>2, <2>4, <3>1, <3>2
         DEF Admission!RefuseUnknown, Admission!Sequenced, Sequenced
    <3> QED  BY <3>3 DEF Admission!Next
  <2> QED  BY <1>1, <1>2, <1>5, <2>3, <2>4, RefusedIsKnown
<1> QED  BY <1>4, <1>5

LEMMA ReleaseRefines ==
    ASSUME NEW ks \in SUBSET Keys, ReleaseKeys(ks)
    PROVE  Admission!Next
<1>1. ASSUME NEW k \in Keys
      PROVE  Granted'[k] = IF k \in ks THEN {} ELSE Granted[k]
  BY DEF ReleaseKeys, Granted
<1>2. Granted' = [k \in Keys |-> IF k \in ks THEN {} ELSE Granted[k]]
  BY <1>1 DEF Granted
<1>3. Admission!Release(ks)
  BY <1>2 DEF ReleaseKeys, Admission!Release, NoAnswer, Admission!NoAnswer
<1> QED  BY <1>3 DEF Admission!Next

LEMMA NextRefines == IInv /\ [Next]_vars => [Admission!Next]_<<Granted, answer>>
<1> SUFFICES ASSUME IInv, [Next]_vars PROVE [Admission!Next]_<<Granted, answer>>
  OBVIOUS
<1>1. ASSUME NEW k \in Keys, NEW o \in Operations,
             NEW payload \in Payloads \cup {NoPayload}, Admit(k, o, payload)
      PROVE  Admission!Next
  BY <1>1, AdmitRefines
<1>2. ASSUME NEW k \in Keys, AdmitUnidentified(k)
      PROVE  Admission!Next
  <2>1. Admission!GrantUnidentified(k)
    BY <1>2 DEF AdmitUnidentified, Admission!GrantUnidentified, Granted
  <2> QED  BY <2>1 DEF Admission!Next
<1>3. ASSUME NEW k \in Keys, Release(k)
      PROVE  Admission!Next
  BY <1>3, ReleaseRefines DEF Release
<1>4. ASSUME NEW c \in Clients, ReleaseLogicalClient(c)
      PROVE  Admission!Next
  <2>1. {c} \X Sessions \in SUBSET Keys
    BY DEF Keys
  <2> QED  BY <1>4, <2>1, ReleaseRefines DEF ReleaseLogicalClient
<1>5. ASSUME Tick \/ UNCHANGED vars
      PROVE  UNCHANGED <<Granted, answer>>
  BY <1>5 DEF Tick, vars, Granted
<1> QED  BY <1>1, <1>2, <1>3, <1>4, <1>5 DEF Next

\* The ledger forgets records, tombstones and time, and still answers like one that
\* never forgets: it implements InputAdmission.
THEOREM Implements == Spec => AnswersAreTrue
<1>1. Spec => Admission!Init /\ [][Admission!Next]_<<Granted, answer>>
  BY InitRefines, NextRefines, Invariance, PTL DEF Spec
<1> QED  BY <1>1 DEF AnswersAreTrue, Admission!Spec

-----------------------------------------------------------------------------
\* Sets of at most n operations.
Small(S, n) == IsFiniteSet(S) /\ Cardinality(S) <= n

\* Digests are kept only for live records.
DigestsOfLive(e) ==
    \A o \in Operations : e.operationDigests[o] # NoPayload => o \in e.operations

EntryBounded(e) ==
    /\ Small(e.operations, MaxOperations)
    /\ Small(e.expiredOperations, MaxOperations)
    /\ DigestsOfLive(e)

BoundedInv == IInv /\ \A k \in Keys : EntryBounded(entries[k])

LEMMA SmallSubset ==
    ASSUME NEW S, NEW T \in SUBSET S, NEW n \in Nat, Small(S, n)
    PROVE  Small(T, n)
<1>1. IsFiniteSet(T) /\ Cardinality(T) <= Cardinality(S)
  BY FS_Subset DEF Small
<1>2. Cardinality(T) \in Nat /\ Cardinality(S) \in Nat
  BY <1>1, FS_CardinalityType DEF Small
<1> QED  BY <1>1, <1>2 DEF Small

LEMMA SmallAdd ==
    ASSUME NEW S, NEW x, NEW n \in Nat, Small(S, n)
    PROVE  Small(S \cup {x}, n + 1)
<1>1. Cardinality(S) \in Nat
  BY FS_CardinalityType DEF Small
<1> QED  BY <1>1, FS_AddElement DEF Small

LEMMA SmallRemove ==
    ASSUME NEW S, NEW x \in S, NEW n \in Nat, Small(S, n + 1)
    PROVE  Small(S \ {x}, n)
<1>1. Cardinality(S) \in Nat
  BY FS_CardinalityType DEF Small
<1> QED  BY <1>1, FS_RemoveElement DEF Small

LEMMA SmallEmpty == Small({}, MaxOperations)
BY FS_EmptySet, EntryAssumption DEF Small

LEMMA SweepBounded ==
    ASSUME NEW e \in Entry, EntryBounded(e), e.operationSequences \subseteq Sequenced, NEW t
    PROVE  EntryBounded(Sweep(e, t))
<1> DEFINE gone == {o \in e.operations : e.operationAdmittedAt[o] <= t - TTL}
           f == Forget(e, gone)
           g == Sweep(e, t)
<1>1. gone \in SUBSET Operations
  BY DEF Entry
<1>2. /\ f \in Entry
      /\ f.operations = e.operations
      /\ f.expiredOperations = e.expiredOperations
      /\ f.operationDigests = e.operationDigests
  BY <1>1, ForgetFacts
<1>3. g = [f EXCEPT
            !.operations = @ \ gone,
            !.operationDigests = [o \in Operations |-> IF o \in gone THEN NoPayload ELSE @[o]],
            !.operationAdmittedAt = [o \in Operations |-> IF o \in gone THEN 0 ELSE @[o]]]
  BY DEF Sweep
<1> HIDE DEF f, gone, g
<1>4. /\ g.operations = e.operations \ gone
      /\ g.expiredOperations = e.expiredOperations
      /\ \A o \in Operations :
            g.operationDigests[o] = IF o \in gone THEN NoPayload ELSE e.operationDigests[o]
  BY <1>2, <1>3 DEF Entry
<1>5. Small(g.operations, MaxOperations)
  BY <1>4, SmallSubset, EntryAssumption DEF EntryBounded
<1>6. DigestsOfLive(g)
  BY <1>4 DEF DigestsOfLive, EntryBounded
<1> QED  BY <1>4, <1>5, <1>6 DEF EntryBounded, g

\* An admission adds one record, evicts one when that is too many, and forgets a
\* tombstone when that makes too many of those.
LEMMA EvictRememberBounded ==
    ASSUME NEW e, NEW w \in [Operations -> Nat], EntryInv(e, w), EntryBounded(e),
           NEW o \in Operations, o \notin Known(e),
           NEW payload \in Payloads \cup {NoPayload}, NEW t \in Nat
    PROVE  EntryBounded(Evict(Remember(e, o, payload, t)))
<1> DEFINE r == Remember(e, o, payload, t)
           v == [w EXCEPT ![o] = @ + 1]
<1>1. EntryInv(r, v)
  BY RememberKeeps
<1>2. e \in Entry /\ r \in Entry /\ MaxOperations \in Nat
  BY <1>1, EntryAssumption DEF EntryInv
<1>3. /\ r.operations = e.operations \cup {o}
      /\ r.expiredOperations = e.expiredOperations
      /\ r.operationDigests = [e.operationDigests EXCEPT ![o] = payload]
  BY <1>2 DEF Remember, Entry
<1> HIDE DEF r, v
<1>4. Small(r.operations, MaxOperations + 1) /\ Small(r.expiredOperations, MaxOperations)
  <2>1. Small(e.operations, MaxOperations) /\ Small(e.expiredOperations, MaxOperations)
    BY DEF EntryBounded
  <2>2. Small(e.operations \cup {o}, MaxOperations + 1)
    BY <1>2, <2>1, SmallAdd
  <2> QED  BY <1>3, <2>1, <2>2
<1>5. DigestsOfLive(r)
  BY <1>2, <1>3 DEF DigestsOfLive, EntryBounded, Entry
<1>6. CASE ~(Cardinality(r.operations) > MaxOperations)
  <2>1. Cardinality(r.operations) \in Nat
    BY <1>4, FS_CardinalityType DEF Small
  <2>2. Evict(r) = r
    BY <1>6 DEF Evict
  <2> QED  BY <1>2, <1>4, <1>5, <1>6, <2>1, <2>2 DEF EntryBounded, Small, r
<1>7. CASE Cardinality(r.operations) > MaxOperations
  <2> DEFINE old == Oldest(r, r.operations)
             g == [r EXCEPT !.operations = @ \ {old},
                            !.operationDigests[old] = NoPayload,
                            !.operationAdmittedAt[old] = 0,
                            !.expiredOperations = @ \cup {old}]
  <2>1. r.operations \subseteq Operations
    BY <1>2 DEF Entry
  <2>2. old \in r.operations
    BY <1>2, <1>7, <2>1, OverfullNonempty, OldestExists
  <2>3. Evict(r) = DropTombstone(g)
    BY <1>7 DEF Evict
  <2> HIDE DEF old
  <2>4. /\ g.operations = r.operations \ {old}
        /\ g.expiredOperations = r.expiredOperations \cup {old}
        /\ g.operationDigests = [r.operationDigests EXCEPT ![old] = NoPayload]
        /\ g.operationSequences = r.operationSequences
    BY <1>2 DEF Entry
  <2>5. g \in Entry
    <3> DEFINE digests == [r.operationDigests EXCEPT ![old] = NoPayload]
               times == [r.operationAdmittedAt EXCEPT ![old] = 0]
    <3>1. digests \in [Operations -> Payloads \cup {NoPayload}]
      BY <1>2 DEF Entry
    <3>2. times \in [Operations -> Nat]
      BY <1>2 DEF Entry
    <3>3. g = [r EXCEPT !.operations = @ \ {old},
                        !.operationDigests = digests,
                        !.operationAdmittedAt = times,
                        !.expiredOperations = @ \cup {old}]
      BY <1>2 DEF Entry
    <3> HIDE DEF digests, times, g
    <3>4. r.expiredOperations \cup {old} \in SUBSET Operations
      BY <1>2, <2>1, <2>2 DEF Entry
    <3> QED  BY <1>2, <3>1, <3>2, <3>3, <3>4 DEF Entry
  <2> HIDE DEF g
  <2>6. Small(g.operations, MaxOperations)
    BY <1>2, <1>4, <2>2, <2>4, SmallRemove
  <2>7. Small(g.expiredOperations, MaxOperations + 1)
    <3>1. Small(r.expiredOperations \cup {old}, MaxOperations + 1)
      BY <1>2, <1>4, SmallAdd
    <3> QED  BY <2>4, <3>1
  <2>8. DigestsOfLive(g)
    BY <1>2, <1>5, <2>4 DEF DigestsOfLive, Entry
  <2>9. CASE ~(Cardinality(g.expiredOperations) > MaxOperations)
    <3>1. Cardinality(g.expiredOperations) \in Nat
      BY <2>7, FS_CardinalityType DEF Small
    <3>2. Evict(r) = g
      BY <2>3, <2>9 DEF DropTombstone
    <3> QED  BY <1>2, <2>6, <2>7, <2>8, <2>9, <3>1, <3>2 DEF EntryBounded, Small, r
  <2>10. CASE Cardinality(g.expiredOperations) > MaxOperations
    <3> DEFINE ancient == Oldest(g, g.expiredOperations)
               f == Forget(g, {ancient})
               d == DropTombstone(g)
    <3>1. g.expiredOperations \subseteq Operations /\ g.operationSequences \subseteq Sequenced
      BY <1>1, <2>4, <2>5 DEF Entry, EntryInv
    <3>2. ancient \in g.expiredOperations
      BY <2>5, <2>10, <3>1, OverfullNonempty, OldestExists
    <3>3. d = [f EXCEPT !.expiredOperations = @ \ {ancient}]
      BY <2>10 DEF DropTombstone
    <3> HIDE DEF ancient, d
    <3>4. /\ f \in Entry
          /\ f.operations = g.operations
          /\ f.expiredOperations = g.expiredOperations
          /\ f.operationDigests = g.operationDigests
      BY <2>5, <3>1, <3>2, ForgetFacts
    <3> HIDE DEF f
    <3>5. /\ d.operations = g.operations
          /\ d.expiredOperations = g.expiredOperations \ {ancient}
          /\ d.operationDigests = g.operationDigests
      BY <3>3, <3>4 DEF Entry
    <3>6. Small(d.expiredOperations, MaxOperations)
      BY <1>2, <2>7, <3>2, <3>5, SmallRemove
    <3>7. EntryBounded(d)
      BY <2>6, <2>8, <3>5, <3>6 DEF EntryBounded, DigestsOfLive
    <3> QED  BY <2>3, <3>7 DEF d, r
  <2> QED  BY <2>9, <2>10
<1> QED  BY <1>6, <1>7

LEMMA NewEntryBounded == EntryBounded(NewEntry)
BY SmallEmpty DEF EntryBounded, NewEntry, DigestsOfLive

LEMMA InitBounded == Init => BoundedInv
BY InitInv, NewEntryBounded DEF Init, BoundedInv

LEMMA NextBounded == BoundedInv /\ [Next]_vars => BoundedInv'
<1> SUFFICES ASSUME BoundedInv, [Next]_vars PROVE BoundedInv'
  OBVIOUS
<1>1. IInv /\ IInv'
  BY NextInv DEF BoundedInv
<1>2. /\ entries \in [Keys -> Entry]
      /\ written \in [Keys -> [Operations -> Nat]]
      /\ now \in Nat
  BY <1>1, LedgerAssumption DEF IInv, TypeOK
<1>3. \A k \in Keys : EntryInv(entries[k], written[k]) /\ EntryBounded(entries[k])
  BY <1>1 DEF IInv, BoundedInv
<1>4. ASSUME NEW k \in Keys
      PROVE  /\ EntryInv(Sweep(entries[k], now), written[k])
             /\ EntryBounded(Sweep(entries[k], now))
  <2>1. entries[k] \in Entry /\ entries[k].operationSequences \subseteq Sequenced
    BY <1>3 DEF EntryInv
  <2> QED  BY <1>2, <1>3, <2>1, SweepKeeps, SweepBounded
<1> SUFFICES \A j \in Keys : EntryBounded(entries'[j])
  BY <1>1 DEF BoundedInv
<1>5. ASSUME NEW k \in Keys, NEW o \in Operations,
             NEW payload \in Payloads \cup {NoPayload}, Admit(k, o, payload)
      PROVE  \A j \in Keys : EntryBounded(entries'[j])
  <2> DEFINE e == Sweep(entries[k], now)
             g == Evict(Remember(e, o, payload, now))
  <2>1. CASE Outcome(e, o, payload) = "admitted"
    <3>1. entries' = [entries EXCEPT ![k] = g]
      BY <1>5, <2>1 DEF Admit
    <3>2. o \notin Known(e)
      BY <1>2, <1>4, <2>1, AdmittedIsNew
    <3>3. EntryBounded(g)
      BY <1>2, <1>4, <3>2, EvictRememberBounded
    <3> HIDE DEF e, g
    <3> QED  BY <1>2, <1>3, <3>1, <3>3
  <2>2. CASE Outcome(e, o, payload) # "admitted"
    <3>1. entries' = [entries EXCEPT ![k] = e]
      BY <1>5, <2>2 DEF Admit
    <3>2. EntryBounded(e)
      BY <1>4
    <3> HIDE DEF e
    <3> QED  BY <1>2, <1>3, <3>1, <3>2
  <2> QED  BY <2>1, <2>2
<1>6. ASSUME NEW k \in Keys, AdmitUnidentified(k)
      PROVE  \A j \in Keys : EntryBounded(entries'[j])
  BY <1>2, <1>3, <1>4, <1>6 DEF AdmitUnidentified
<1>7. ASSUME NEW ks, ReleaseKeys(ks)
      PROVE  \A j \in Keys : EntryBounded(entries'[j])
  BY <1>3, <1>7, NewEntryBounded DEF ReleaseKeys
<1>8. ASSUME Tick \/ UNCHANGED vars
      PROVE  \A j \in Keys : EntryBounded(entries'[j])
  BY <1>3, <1>8 DEF Tick, vars
<1> QED  BY <1>5, <1>6, <1>7, <1>8 DEF Next, Release, ReleaseLogicalClient

\* However long a session lives, its entries hold at most MaxOperations live records, as
\* many tombstones, and digests and orderings for no other operation.
THEOREM MemoryIsBounded == Spec => []Bounded
<1>1. Spec => []BoundedInv
  BY InitBounded, NextBounded, PTL DEF Spec
<1>2. BoundedInv => Bounded
  <2> SUFFICES ASSUME BoundedInv, NEW k \in Keys
               PROVE  LET e == entries[k]
                      IN  /\ Cardinality(e.operations) <= MaxOperations
                          /\ Cardinality(e.expiredOperations) <= MaxOperations
                          /\ e.operationSequences \subseteq e.operations \cup e.expiredOperations
                          /\ {o \in Operations : e.operationDigests[o] # NoPayload}
                                \subseteq e.operations
    BY DEF Bounded
  <2>1. EntryInv(entries[k], written[k]) /\ EntryBounded(entries[k])
    BY DEF BoundedInv, IInv
  <2> QED  BY <2>1 DEF EntryInv, EntryBounded, Small, DigestsOfLive, Known
<1> QED  BY <1>1, <1>2, PTL

\* What the ledger remembers keeps its type and its bound: MemoryFits, for admit and release
\* of terminalInputLedger.ts.
THEOREM MemoryStaysFit == Spec => []MemoryFits
<1> QED  BY TypeCorrect, MemoryIsBounded, PTL DEF MemoryFits

-----------------------------------------------------------------------------
(***************************************************************************)
(* Why an operation is executed again only outside its window: the         *)
(* ordinals of the operations an entry knows are distinct and those of the *)
(* tombstones are the lowest, so a tombstone that is forgotten has the     *)
(* ordinals of MaxOperations tombstones and MaxOperations live records     *)
(* between its own and the last.                                           *)
(***************************************************************************)
InOrder(e) ==
    /\ \A o \in Known(e) : e.order[o] \in 1 .. e.admitted
    /\ \A o, p \in Known(e) : e.order[o] = e.order[p] => o = p
    /\ \A o \in e.expiredOperations, p \in e.operations : e.order[o] < e.order[p]

OutOfWindow(e, at, t, o) ==
    \/ e.admitted - e.order[o] >= 2 * MaxOperations
    \/ t - at[o] >= TTL

\* What was let through as often as w says, and last at the time `at', is still known at
\* time t or out of its window.
Remembered(e, w, at, t) ==
    /\ \A o \in e.operations : e.operationAdmittedAt[o] = at[o]
    /\ \A o \in Operations : w[o] >= 1 => o \in Known(e) \/ OutOfWindow(e, at, t, o)

WindowInv ==
    /\ BoundedInv
    /\ \A k \in Keys :
          InOrder(entries[k]) /\ Remembered(entries[k], written[k], writtenAt[k], now)

LEMMA OldestIsLeast ==
    ASSUME NEW e \in Entry, NEW S \in SUBSET Operations, S # {}
    PROVE  /\ Oldest(e, S) \in S
           /\ \A p \in S : e.order[Oldest(e, S)] <= e.order[p]
<1> DEFINE T == {e.order[o] : o \in S}
<1>1. T \subseteq Nat /\ T # {}
  BY DEF Entry
<1>2. PICK x \in T : \A y \in T : x <= y
  BY <1>1, LeastExists
<1>3. PICK o \in S : e.order[o] = x
  OBVIOUS
<1>4. \A p \in S : e.order[o] <= e.order[p]
  BY <1>2, <1>3
<1> QED  BY <1>4 DEF Oldest

\* Distinct ordinals above n and up to m leave room for as many operations as they are.
LEMMA OrdinalsCount ==
    ASSUME NEW S, NEW order, NEW n \in Nat, NEW m \in Nat, n <= m,
           \A o \in S : order[o] \in n + 1 .. m,
           \A o, p \in S : order[o] = order[p] => o = p
    PROVE  IsFiniteSet(S) /\ Cardinality(S) <= m - n
<1> DEFINE f == [o \in S |-> order[o]]
<1>1. f \in Injection(S, n + 1 .. m)
  BY DEF Injection, IsInjective
<1>2. IsFiniteSet(n + 1 .. m) /\ Cardinality(n + 1 .. m) = IF n + 1 > m THEN 0 ELSE m - (n + 1) + 1
  BY FS_Interval
<1>3. IsFiniteSet(S) /\ Cardinality(S) <= Cardinality(n + 1 .. m)
  BY <1>1, <1>2, FS_Injection
<1> QED  BY <1>2, <1>3

LEMMA OverfullByOne ==
    ASSUME NEW S, NEW x \in S, NEW n \in Nat, Small(S, n + 1), Cardinality(S) > n
    PROVE  Small(S \ {x}, n) /\ Cardinality(S \ {x}) = n
<1>1. IsFiniteSet(S) /\ Cardinality(S) \in Nat /\ Cardinality(S) = n + 1
  BY FS_CardinalityType DEF Small
<1>2. IsFiniteSet(S \ {x}) /\ Cardinality(S \ {x}) = Cardinality(S) - 1
  BY <1>1, FS_RemoveElement
<1> QED  BY <1>1, <1>2 DEF Small

LEMMA SweepRemembers ==
    ASSUME NEW e, NEW w \in [Operations -> Nat], EntryInv(e, w), NEW t \in Nat,
           NEW at \in [Operations -> Nat], InOrder(e), Remembered(e, w, at, t)
    PROVE  /\ InOrder(Sweep(e, t))
           /\ Remembered(Sweep(e, t), w, at, t)
           /\ Sweep(e, t).admitted = e.admitted
           /\ Sweep(e, t).order = e.order
<1> DEFINE gone == {o \in e.operations : e.operationAdmittedAt[o] <= t - TTL}
           f == Forget(e, gone)
           g == Sweep(e, t)
<1>1. e \in Entry /\ gone \in SUBSET Operations /\ e.operationSequences \subseteq Sequenced
  BY DEF EntryInv, Entry, Known
<1>2. /\ f \in Entry
      /\ f.operations = e.operations
      /\ f.expiredOperations = e.expiredOperations
      /\ f.operationAdmittedAt = e.operationAdmittedAt
      /\ f.order = e.order
      /\ f.admitted = e.admitted
  BY <1>1, ForgetFacts
<1>3. g = [f EXCEPT
            !.operations = @ \ gone,
            !.operationDigests = [o \in Operations |-> IF o \in gone THEN NoPayload ELSE @[o]],
            !.operationAdmittedAt = [o \in Operations |-> IF o \in gone THEN 0 ELSE @[o]]]
  BY DEF Sweep
<1>4. \A o \in gone : o \in e.operations /\ e.operationAdmittedAt[o] <= t - TTL
  OBVIOUS
<1> HIDE DEF f, gone, g
<1>5. /\ g.operations = e.operations \ gone
      /\ g.expiredOperations = e.expiredOperations
      /\ \A o \in Operations :
            g.operationAdmittedAt[o] = IF o \in gone THEN 0 ELSE e.operationAdmittedAt[o]
      /\ g.order = e.order
      /\ g.admitted = e.admitted
  BY <1>2, <1>3 DEF Entry
<1>6. InOrder(g)
  BY <1>5 DEF InOrder, Known
<1>7. \A o \in g.operations : g.operationAdmittedAt[o] = at[o]
  BY <1>1, <1>5 DEF Remembered, Entry
<1>8. ASSUME NEW o \in Operations, w[o] >= 1, o \notin Known(g)
      PROVE  OutOfWindow(g, at, t, o)
  <2>1. CASE o \in gone
    <3>1. at[o] <= t - TTL
      BY <1>4, <2>1 DEF Remembered
    <3> QED  BY <3>1, EntryAssumption DEF OutOfWindow
  <2>2. CASE o \notin gone
    BY <1>5, <1>8, <2>2 DEF Remembered, OutOfWindow, Known
  <2> QED  BY <2>1, <2>2
<1> QED  BY <1>5, <1>6, <1>7, <1>8 DEF Remembered, g

\* An admitted operation gets the highest ordinal.
LEMMA RememberRemembers ==
    ASSUME NEW e \in Entry, NEW w \in [Operations -> Nat], NEW at \in [Operations -> Nat],
           NEW t \in Nat, InOrder(e), Remembered(e, w, at, t),
           NEW o \in Operations, o \notin Known(e), NEW payload
    PROVE  /\ InOrder(Remember(e, o, payload, t))
           /\ Remembered(Remember(e, o, payload, t),
                         [w EXCEPT ![o] = @ + 1], [at EXCEPT ![o] = t], t)
<1> DEFINE r == Remember(e, o, payload, t)
           v == [w EXCEPT ![o] = @ + 1]
           bt == [at EXCEPT ![o] = t]
<1>1. /\ r.operations = e.operations \cup {o}
      /\ r.expiredOperations = e.expiredOperations
      /\ r.operationAdmittedAt = [e.operationAdmittedAt EXCEPT ![o] = t]
      /\ r.order = [e.order EXCEPT ![o] = e.admitted + 1]
      /\ r.admitted = e.admitted + 1
  BY DEF Remember, Entry
<1>2. /\ e.operations \in SUBSET Operations /\ e.expiredOperations \in SUBSET Operations
      /\ e.operationAdmittedAt \in [Operations -> Nat]
      /\ e.order \in [Operations -> Nat]
      /\ e.admitted \in Nat
  BY DEF Entry
<1>3. \A q \in Operations :
         /\ r.order[q] = IF q = o THEN e.admitted + 1 ELSE e.order[q]
         /\ r.operationAdmittedAt[q] = IF q = o THEN t ELSE e.operationAdmittedAt[q]
         /\ v[q] = IF q = o THEN w[q] + 1 ELSE w[q]
         /\ bt[q] = IF q = o THEN t ELSE at[q]
  BY <1>1, <1>2
<1>4. Known(r) = Known(e) \cup {o} /\ Known(e) \subseteq Operations
  BY <1>1, <1>2 DEF Known
<1> HIDE DEF r, v, bt
<1>5. InOrder(r)
  <2>1. \A q \in Known(r) : r.order[q] \in 1 .. r.admitted
    BY <1>1, <1>2, <1>3, <1>4 DEF InOrder
  <2>2. \A q, p \in Known(r) : r.order[q] = r.order[p] => q = p
    BY <1>2, <1>3, <1>4 DEF InOrder
  <2>3. \A q \in r.expiredOperations, p \in r.operations : r.order[q] < r.order[p]
    <3> SUFFICES ASSUME NEW q \in r.expiredOperations, NEW p \in r.operations
                 PROVE  r.order[q] < r.order[p]
      OBVIOUS
    <3>1. q \in e.expiredOperations /\ q \in Operations /\ q # o /\ e.order[q] \in 1 .. e.admitted
      BY <1>1, <1>2 DEF InOrder, Known
    <3>2. r.order[q] = e.order[q]
      BY <1>3, <3>1
    <3>3. CASE p = o
      BY <1>2, <1>3, <3>1, <3>2, <3>3
    <3>4. CASE p # o
      <4>1. p \in e.operations /\ p \in Operations
        BY <1>1, <1>2, <3>4
      <4> QED  BY <1>3, <3>1, <3>2, <3>4, <4>1 DEF InOrder
    <3> QED  BY <3>3, <3>4
  <2> QED  BY <2>1, <2>2, <2>3 DEF InOrder
<1>6. Remembered(r, v, bt, t)
  <2>1. \A q \in r.operations : r.operationAdmittedAt[q] = bt[q]
    BY <1>1, <1>2, <1>3 DEF Remembered
  <2>2. ASSUME NEW q \in Operations, v[q] >= 1, q \notin Known(r)
        PROVE  OutOfWindow(r, bt, t, q)
    <3>1. q # o /\ q \notin Known(e) /\ w[q] >= 1
      BY <1>3, <1>4, <2>2
    <3>2. OutOfWindow(e, at, t, q)
      BY <3>1 DEF Remembered
    <3>3. r.order[q] = e.order[q] /\ bt[q] = at[q] /\ e.order[q] \in Nat
      BY <1>2, <1>3, <3>1
    <3> QED  BY <1>1, <1>2, <3>2, <3>3, EntryAssumption DEF OutOfWindow
  <2> QED  BY <2>1, <2>2 DEF Remembered
<1> QED  BY <1>5, <1>6 DEF r, v, bt

\* A tombstone is forgotten only when 2 * MaxOperations further operations were admitted.
LEMMA DropTombstoneRemembers ==
    ASSUME NEW g \in Entry, NEW w \in [Operations -> Nat], NEW at \in [Operations -> Nat],
           NEW t \in Nat, InOrder(g), Remembered(g, w, at, t),
           g.operationSequences \subseteq Sequenced,
           g.operations \cap g.expiredOperations = {},
           Small(g.operations, MaxOperations), Cardinality(g.operations) = MaxOperations,
           Small(g.expiredOperations, MaxOperations + 1)
    PROVE  /\ InOrder(DropTombstone(g))
           /\ Remembered(DropTombstone(g), w, at, t)
<1>1. CASE ~(Cardinality(g.expiredOperations) > MaxOperations)
  BY <1>1 DEF DropTombstone
<1>2. CASE Cardinality(g.expiredOperations) > MaxOperations
  <2> DEFINE old == Oldest(g, g.expiredOperations)
             f == Forget(g, {old})
             d == DropTombstone(g)
             S == (g.expiredOperations \ {old}) \cup g.operations
  <2>1. /\ g.operations \in SUBSET Operations /\ g.expiredOperations \in SUBSET Operations
        /\ g.order \in [Operations -> Nat]
        /\ g.admitted \in Nat
        /\ MaxOperations \in Nat
    BY EntryAssumption DEF Entry
  <2>2. /\ old \in g.expiredOperations
        /\ \A p \in g.expiredOperations : g.order[old] <= g.order[p]
    BY <1>2, <2>1, OverfullNonempty, OldestIsLeast
  <2>3. d = [f EXCEPT !.expiredOperations = @ \ {old}]
    BY <1>2 DEF DropTombstone
  <2> HIDE DEF old, d
  <2>4. /\ f \in Entry
        /\ f.operations = g.operations
        /\ f.expiredOperations = g.expiredOperations
        /\ f.operationAdmittedAt = g.operationAdmittedAt
        /\ f.order = g.order
        /\ f.admitted = g.admitted
    BY <2>1, <2>2, ForgetFacts
  <2> HIDE DEF f
  <2>5. /\ d.operations = g.operations
        /\ d.expiredOperations = g.expiredOperations \ {old}
        /\ d.operationAdmittedAt = g.operationAdmittedAt
        /\ d.order = g.order
        /\ d.admitted = g.admitted
    BY <2>3, <2>4 DEF Entry
  <2>6. InOrder(d)
    BY <2>5 DEF InOrder, Known
  <2>7. S \subseteq Known(g) /\ old \in Known(g) /\ old \notin S
    BY <2>2 DEF Known
  <2>8. \A p \in S : g.order[p] \in g.order[old] + 1 .. g.admitted
    <3> SUFFICES ASSUME NEW p \in S PROVE g.order[p] \in g.order[old] + 1 .. g.admitted
      OBVIOUS
    <3>1. /\ g.order[old] \in 1 .. g.admitted
          /\ g.order[p] \in 1 .. g.admitted
          /\ g.order[p] # g.order[old]
      BY <2>7 DEF InOrder
    <3>2. g.order[old] <= g.order[p]
      <4>1. CASE p \in g.expiredOperations
        BY <2>2, <4>1
      <4>2. CASE p \in g.operations
        BY <2>2, <3>1, <4>2 DEF InOrder
      <4> QED  BY <4>1, <4>2
    <3> QED  BY <2>1, <3>1, <3>2
  <2>9. g.order[old] \in Nat /\ g.order[old] <= g.admitted
    BY <2>1, <2>7 DEF InOrder
  <2>10. Cardinality(S) <= g.admitted - g.order[old]
    <3>1. \A o, p \in S : g.order[o] = g.order[p] => o = p
      BY <2>7 DEF InOrder
    <3> HIDE DEF S
    <3> QED  BY <2>1, <2>8, <2>9, <3>1, OrdinalsCount
  <2>11. Cardinality(S) = 2 * MaxOperations
    <3>1. /\ IsFiniteSet(g.operations) /\ IsFiniteSet(g.expiredOperations)
          /\ Cardinality(g.expiredOperations) \in Nat
          /\ Cardinality(g.expiredOperations) = MaxOperations + 1
      BY <1>2, <2>1, FS_CardinalityType DEF Small
    <3>2. /\ IsFiniteSet(g.expiredOperations \ {old})
          /\ Cardinality(g.expiredOperations \ {old}) = MaxOperations
      BY <2>1, <2>2, <3>1, FS_RemoveElement
    <3>3. (g.expiredOperations \ {old}) \cap g.operations = {}
      OBVIOUS
    <3>4. Cardinality(S) = MaxOperations + MaxOperations - Cardinality({})
      BY <3>1, <3>2, <3>3, FS_Union
    <3> QED  BY <2>1, <3>4, FS_EmptySet
  <2> HIDE DEF S
  <2>12. OutOfWindow(d, at, t, old)
    BY <2>5, <2>10, <2>11 DEF OutOfWindow
  <2>13. \A o \in d.operations : d.operationAdmittedAt[o] = at[o]
    BY <2>5 DEF Remembered
  <2>14. \A o \in Operations : w[o] >= 1 => o \in Known(d) \/ OutOfWindow(d, at, t, o)
    <3> SUFFICES ASSUME NEW o \in Operations, w[o] >= 1, o # old
                 PROVE  o \in Known(d) \/ OutOfWindow(d, at, t, o)
      BY <2>12
    <3>1. o \in Known(g) \/ OutOfWindow(g, at, t, o)
      BY DEF Remembered
    <3> QED  BY <2>5, <3>1 DEF Known, OutOfWindow
  <2> QED  BY <2>6, <2>13, <2>14 DEF Remembered, d
<1> QED  BY <1>1, <1>2

\* The record that is evicted becomes the youngest tombstone.
LEMMA EvictRemembers ==
    ASSUME NEW r, NEW w \in [Operations -> Nat], EntryInv(r, w),
           NEW at \in [Operations -> Nat], NEW t \in Nat,
           InOrder(r), Remembered(r, w, at, t),
           Small(r.operations, MaxOperations + 1), Small(r.expiredOperations, MaxOperations)
    PROVE  InOrder(Evict(r)) /\ Remembered(Evict(r), w, at, t)
<1>1. CASE ~(Cardinality(r.operations) > MaxOperations)
  BY <1>1 DEF Evict
<1>2. CASE Cardinality(r.operations) > MaxOperations
  <2> DEFINE old == Oldest(r, r.operations)
             g == [r EXCEPT !.operations = @ \ {old},
                            !.operationDigests[old] = NoPayload,
                            !.operationAdmittedAt[old] = 0,
                            !.expiredOperations = @ \cup {old}]
  <2>1. /\ r \in Entry
        /\ r.operations \in SUBSET Operations /\ r.expiredOperations \in SUBSET Operations
        /\ r.operationDigests \in [Operations -> Payloads \cup {NoPayload}]
        /\ r.operationAdmittedAt \in [Operations -> Nat]
        /\ r.order \in [Operations -> Nat]
        /\ r.admitted \in Nat
        /\ r.operationSequences \subseteq Sequenced
        /\ r.operations \cap r.expiredOperations = {}
        /\ MaxOperations \in Nat
    BY EntryAssumption DEF Entry, EntryInv
  <2>2. /\ old \in r.operations
        /\ \A p \in r.operations : r.order[old] <= r.order[p]
    BY <1>2, <2>1, OverfullNonempty, OldestIsLeast
  <2>3. Evict(r) = DropTombstone(g)
    BY <1>2 DEF Evict
  <2> HIDE DEF old
  <2>4. /\ g \in Entry
        /\ g.operations = r.operations \ {old}
        /\ g.expiredOperations = r.expiredOperations \cup {old}
        /\ g.operationSequences = r.operationSequences
        /\ g.order = r.order
        /\ g.admitted = r.admitted
        /\ \A o \in Operations : o # old => g.operationAdmittedAt[o] = r.operationAdmittedAt[o]
    <3> DEFINE digests == [r.operationDigests EXCEPT ![old] = NoPayload]
               times == [r.operationAdmittedAt EXCEPT ![old] = 0]
    <3>1. digests \in [Operations -> Payloads \cup {NoPayload}]
      BY <2>1
    <3>2. /\ times \in [Operations -> Nat]
          /\ \A o \in Operations : o # old => times[o] = r.operationAdmittedAt[o]
      BY <2>1
    <3>3. g = [r EXCEPT !.operations = @ \ {old},
                        !.operationDigests = digests,
                        !.operationAdmittedAt = times,
                        !.expiredOperations = @ \cup {old}]
      BY <2>1 DEF Entry
    <3> HIDE DEF digests, times, g
    <3>4. r.expiredOperations \cup {old} \in SUBSET Operations
      BY <2>1, <2>2
    <3> QED  BY <2>1, <3>1, <3>2, <3>3, <3>4 DEF Entry
  <2> HIDE DEF g
  <2>5. g.operations \cap g.expiredOperations = {} /\ Known(g) = Known(r)
    BY <2>1, <2>2, <2>4 DEF Known
  <2>6. InOrder(g)
    <3>1. \A o \in Known(g) : g.order[o] \in 1 .. g.admitted
      BY <2>4, <2>5 DEF InOrder
    <3>2. \A o, p \in Known(g) : g.order[o] = g.order[p] => o = p
      BY <2>4, <2>5 DEF InOrder
    <3>3. \A o \in g.expiredOperations, p \in g.operations : g.order[o] < g.order[p]
      <4> SUFFICES ASSUME NEW o \in g.expiredOperations, NEW p \in g.operations
                   PROVE  r.order[o] < r.order[p]
        BY <2>4
      <4>1. p \in r.operations /\ p # old
        BY <2>4
      <4>2. CASE o = old
        <5>1. r.order[old] <= r.order[p] /\ r.order[old] # r.order[p]
          BY <2>2, <4>1 DEF InOrder, Known
        <5> QED  BY <2>1, <2>2, <4>1, <4>2, <5>1
      <4>3. CASE o \in r.expiredOperations
        BY <4>1, <4>3 DEF InOrder
      <4> QED  BY <2>4, <4>2, <4>3
    <3> QED  BY <3>1, <3>2, <3>3 DEF InOrder
  <2>7. Remembered(g, w, at, t)
    <3>1. \A o \in g.operations : g.operationAdmittedAt[o] = at[o]
      BY <2>1, <2>4 DEF Remembered
    <3>2. \A o \in Operations : w[o] >= 1 => o \in Known(g) \/ OutOfWindow(g, at, t, o)
      BY <2>4, <2>5 DEF Remembered, OutOfWindow
    <3> QED  BY <3>1, <3>2 DEF Remembered
  <2>8. Small(r.operations, MaxOperations + 1) /\ Small(r.expiredOperations, MaxOperations)
    OBVIOUS
  <2>9. Small(g.operations, MaxOperations) /\ Cardinality(g.operations) = MaxOperations
    <3>1. /\ Small(r.operations \ {old}, MaxOperations)
          /\ Cardinality(r.operations \ {old}) = MaxOperations
      BY <1>2, <2>1, <2>2, <2>8, OverfullByOne
    <3> QED  BY <2>4, <3>1
  <2>10. Small(g.expiredOperations, MaxOperations + 1)
    <3>1. Small(r.expiredOperations \cup {old}, MaxOperations + 1)
      BY <2>1, <2>8, SmallAdd
    <3> QED  BY <2>4, <3>1
  <2>11. g.operationSequences \subseteq Sequenced
    BY <2>1, <2>4
  <2>12. g \in Entry /\ g.operations \cap g.expiredOperations = {}
    BY <2>4, <2>5
  <2>13. InOrder(DropTombstone(g)) /\ Remembered(DropTombstone(g), w, at, t)
    BY <2>6, <2>7, <2>9, <2>10, <2>11, <2>12, DropTombstoneRemembers
  <2> QED  BY <2>3, <2>13
<1> QED  BY <1>1, <1>2

LEMMA NewEntryRemembers ==
    ASSUME NEW at, NEW t
    PROVE  InOrder(NewEntry) /\ Remembered(NewEntry, [o \in Operations |-> 0], at, t)
<1> DEFINE w == [o \in Operations |-> 0]
<1>1. NewEntry.operations = {} /\ NewEntry.expiredOperations = {} /\ Known(NewEntry) = {}
  BY DEF NewEntry, Known
<1>2. InOrder(NewEntry)
  BY <1>1 DEF InOrder
<1>3. \A o \in Operations : ~(w[o] >= 1)
  OBVIOUS
<1> HIDE DEF w
<1>4. Remembered(NewEntry, w, at, t)
  BY <1>1, <1>3 DEF Remembered
<1> QED  BY <1>2, <1>4 DEF w

\* Time only adds to the age of what was let through.
LEMMA RemembersLater ==
    ASSUME NEW e, NEW w, NEW at \in [Operations -> Nat], NEW t \in Nat,
           Remembered(e, w, at, t)
    PROVE  Remembered(e, w, at, t + 1)
BY EntryAssumption DEF Remembered, OutOfWindow

LEMMA InitWindow == Init => WindowInv
<1> SUFFICES ASSUME Init PROVE WindowInv
  OBVIOUS
<1>1. BoundedInv
  BY InitBounded
<1>2. \A k \in Keys :
         InOrder(entries[k]) /\ Remembered(entries[k], written[k], writtenAt[k], now)
  BY NewEntryRemembers DEF Init
<1> QED  BY <1>1, <1>2 DEF WindowInv

\* What is known of an entry when a request is answered: the entry as it was swept.
LEMMA SweptEntry ==
    ASSUME WindowInv, NEW k \in Keys
    PROVE  LET e == Sweep(entries[k], now)
           IN  /\ EntryInv(e, written[k]) /\ EntryBounded(e) /\ e \in Entry
               /\ InOrder(e) /\ Remembered(e, written[k], writtenAt[k], now)
               /\ e.admitted = entries[k].admitted
               /\ e.order = entries[k].order
<1>1. /\ EntryInv(entries[k], written[k]) /\ EntryBounded(entries[k])
      /\ entries[k] \in Entry
      /\ written[k] \in [Operations -> Nat]
      /\ writtenAt[k] \in [Operations -> Nat]
      /\ now \in Nat
      /\ InOrder(entries[k]) /\ Remembered(entries[k], written[k], writtenAt[k], now)
      /\ entries[k].operationSequences \subseteq Sequenced
  BY LedgerAssumption DEF WindowInv, BoundedInv, IInv, TypeOK, EntryInv
<1> DEFINE e == Sweep(entries[k], now)
<1>2. EntryInv(e, written[k])
  BY <1>1, SweepKeeps
<1>3. EntryBounded(e)
  BY <1>1, SweepBounded
<1>4. /\ InOrder(e) /\ Remembered(e, written[k], writtenAt[k], now)
      /\ e.admitted = entries[k].admitted
      /\ e.order = entries[k].order
  BY <1>1, SweepRemembers
<1>5. e \in Entry
  BY <1>2 DEF EntryInv
<1> QED  BY <1>2, <1>3, <1>4, <1>5

LEMMA AdmitWindow ==
    ASSUME WindowInv, NEW k \in Keys, NEW o \in Operations,
           NEW payload \in Payloads \cup {NoPayload}, Admit(k, o, payload)
    PROVE  \A j \in Keys :
              InOrder(entries'[j]) /\ Remembered(entries'[j], written'[j], writtenAt'[j], now')
<1> DEFINE e == Sweep(entries[k], now)
           r == Remember(e, o, payload, now)
           g == Evict(r)
           v == [written[k] EXCEPT ![o] = @ + 1]
           bt == [writtenAt[k] EXCEPT ![o] = now]
<1>1. /\ entries \in [Keys -> Entry]
      /\ written \in [Keys -> [Operations -> Nat]]
      /\ writtenAt \in [Keys -> [Operations -> Nat]]
      /\ written[k] \in [Operations -> Nat]
      /\ writtenAt[k] \in [Operations -> Nat]
      /\ now \in Nat
      /\ now' = now
  BY LedgerAssumption DEF WindowInv, BoundedInv, IInv, TypeOK, Admit
<1>2. \A j \in Keys : InOrder(entries[j]) /\ Remembered(entries[j], written[j], writtenAt[j], now)
  BY DEF WindowInv
<1>3. /\ EntryInv(e, written[k]) /\ EntryBounded(e) /\ e \in Entry
      /\ InOrder(e) /\ Remembered(e, written[k], writtenAt[k], now)
  BY SweptEntry
<1>4. CASE Outcome(e, o, payload) = "admitted"
  <2>1. /\ entries' = [entries EXCEPT ![k] = g]
        /\ written' = [written EXCEPT ![k] = v]
        /\ writtenAt' = [writtenAt EXCEPT ![k] = bt]
    BY <1>1, <1>4 DEF Admit
  <2>2. o \notin Known(e)
    BY <1>1, <1>3, <1>4, AdmittedIsNew
  <2>3. InOrder(r) /\ Remembered(r, v, bt, now)
    BY <1>1, <1>3, <2>2, RememberRemembers
  <2>4. EntryInv(r, v)
    BY <1>1, <1>3, <2>2, RememberKeeps
  <2>5. Small(r.operations, MaxOperations + 1) /\ Small(r.expiredOperations, MaxOperations)
    <3>1. r.operations = e.operations \cup {o} /\ r.expiredOperations = e.expiredOperations
      BY <1>3 DEF Remember, Entry
    <3>2. /\ Small(e.operations, MaxOperations) /\ Small(e.expiredOperations, MaxOperations)
          /\ MaxOperations \in Nat
      BY <1>3, EntryAssumption DEF EntryBounded
    <3>3. Small(e.operations \cup {o}, MaxOperations + 1)
      BY <3>2, SmallAdd
    <3> QED  BY <3>1, <3>2, <3>3
  <2>6. v \in [Operations -> Nat] /\ bt \in [Operations -> Nat]
    BY <1>1
  <2> HIDE DEF r, v, bt
  <2>7. InOrder(g) /\ Remembered(g, v, bt, now)
    BY <1>1, <2>3, <2>4, <2>5, <2>6, EvictRemembers
  <2> HIDE DEF g
  <2> QED  BY <1>1, <1>2, <2>1, <2>7
<1>5. CASE Outcome(e, o, payload) # "admitted"
  <2>1. entries' = [entries EXCEPT ![k] = e] /\ written' = written /\ writtenAt' = writtenAt
    BY <1>5 DEF Admit
  <2> HIDE DEF e
  <2> QED  BY <1>1, <1>2, <1>3, <2>1
<1> QED  BY <1>4, <1>5

LEMMA NextWindow == WindowInv /\ [Next]_vars => WindowInv'
<1> SUFFICES ASSUME WindowInv, [Next]_vars PROVE WindowInv'
  OBVIOUS
<1>1. BoundedInv'
  BY NextBounded DEF WindowInv
<1> DEFINE Fits == \A j \in Keys :
              InOrder(entries'[j]) /\ Remembered(entries'[j], written'[j], writtenAt'[j], now')
<1> SUFFICES Fits
  BY <1>1 DEF WindowInv
<1>2. /\ entries \in [Keys -> Entry]
      /\ writtenAt \in [Keys -> [Operations -> Nat]]
      /\ now \in Nat
  BY LedgerAssumption DEF WindowInv, BoundedInv, IInv, TypeOK
<1>3. \A j \in Keys : InOrder(entries[j]) /\ Remembered(entries[j], written[j], writtenAt[j], now)
  BY DEF WindowInv
<1>4. ASSUME NEW k \in Keys, NEW o \in Operations,
             NEW payload \in Payloads \cup {NoPayload}, Admit(k, o, payload)
      PROVE  Fits
  BY <1>4, AdmitWindow
<1>5. ASSUME NEW k \in Keys, AdmitUnidentified(k)
      PROVE  Fits
  <2> DEFINE e == Sweep(entries[k], now)
  <2>1. InOrder(e) /\ Remembered(e, written[k], writtenAt[k], now)
    BY SweptEntry
  <2>2. /\ entries' = [entries EXCEPT ![k] = e]
        /\ now' = now /\ written' = written /\ writtenAt' = writtenAt
    BY <1>5 DEF AdmitUnidentified
  <2> HIDE DEF e
  <2> QED  BY <1>2, <1>3, <2>1, <2>2
<1>6. ASSUME NEW ks, ReleaseKeys(ks)
      PROVE  Fits
  <2> SUFFICES ASSUME NEW j \in Keys
               PROVE  /\ InOrder(entries'[j])
                      /\ Remembered(entries'[j], written'[j], writtenAt'[j], now')
    OBVIOUS
  <2>1. now' = now
    BY <1>6 DEF ReleaseKeys
  <2>2. CASE j \in ks
    <3>1. entries'[j] = NewEntry /\ written'[j] = [o \in Operations |-> 0]
      BY <1>6, <2>2 DEF ReleaseKeys
    <3> QED  BY <3>1, NewEntryRemembers
  <2>3. CASE j \notin ks
    <3>1. entries'[j] = entries[j] /\ written'[j] = written[j] /\ writtenAt'[j] = writtenAt[j]
      BY <1>6, <2>3 DEF ReleaseKeys
    <3> QED  BY <1>3, <2>1, <3>1
  <2> QED  BY <2>2, <2>3
<1>7. CASE Tick
  <2>1. /\ now' = now + 1
        /\ entries' = entries /\ written' = written /\ writtenAt' = writtenAt
    BY <1>7 DEF Tick
  <2>2. \A j \in Keys : Remembered(entries[j], written[j], writtenAt[j], now + 1)
    BY <1>2, <1>3, RemembersLater
  <2> QED  BY <1>3, <2>1, <2>2
<1>8. CASE UNCHANGED vars
  BY <1>3, <1>8 DEF vars
<1> QED  BY <1>4, <1>5, <1>6, <1>7, <1>8 DEF Next, Release, ReleaseLogicalClient

LEMMA WindowStep ==
    ASSUME WindowInv, [Next]_vars, NEW k \in Keys, NEW o \in Operations,
           written[k][o] >= 1, written'[k][o] > written[k][o]
    PROVE  \/ entries[k].admitted - entries[k].order[o] >= 2 * MaxOperations
           \/ now - writtenAt[k][o] >= TTL
<1>1. written \in [Keys -> [Operations -> Nat]]
  BY DEF WindowInv, BoundedInv, IInv, TypeOK
<1>2. ~ UNCHANGED written
  BY <1>1
<1>3. ASSUME NEW ks, ReleaseKeys(ks) PROVE FALSE
  <2>1. written'[k] = IF k \in ks THEN [q \in Operations |-> 0] ELSE written[k]
    BY <1>3 DEF ReleaseKeys
  <2> QED  BY <1>1, <2>1
<1>4. PICK j \in Keys, q \in Operations, payload \in Payloads \cup {NoPayload} :
         Admit(j, q, payload)
  BY <1>2, <1>3 DEF Next, vars, AdmitUnidentified, Tick, Release, ReleaseLogicalClient
<1> DEFINE e == Sweep(entries[j], now)
<1>5. /\ Outcome(e, q, payload) = "admitted"
      /\ written' = [written EXCEPT ![j][q] = @ + 1]
  BY <1>2, <1>4 DEF Admit
<1>6. j = k /\ q = o
  BY <1>1, <1>5
<1>7. /\ EntryInv(e, written[j]) /\ Remembered(e, written[j], writtenAt[j], now)
      /\ e.admitted = entries[j].admitted
      /\ e.order = entries[j].order
  BY SweptEntry
<1>8. o \notin Known(e)
  BY <1>1, <1>5, <1>6, <1>7, AdmittedIsNew
<1>9. OutOfWindow(e, writtenAt[j], now, o)
  BY <1>6, <1>7, <1>8 DEF Remembered
<1> QED  BY <1>6, <1>7, <1>9 DEF OutOfWindow

\* An operation, ordered or not, is written again only when 2 * MaxOperations further
\* operations were admitted since or its record outlived the time-to-live: the window of the
\* comment at terminalInputLedger.ts:300-303, for every bound and time-to-live.
THEOREM RepeatsOnlyOutOfWindow == Spec => WindowBeforeRepeat
<1>1. Spec => []WindowInv
  BY InitWindow, NextWindow, PTL DEF Spec
<1>2. WindowInv /\ [Next]_vars =>
         [\A k \in Keys, o \in Operations :
             (written[k][o] >= 1 /\ written'[k][o] > written[k][o])
             => \/ entries[k].admitted - entries[k].order[o] >= 2 * MaxOperations
                \/ now - writtenAt[k][o] >= TTL]_vars
  BY WindowStep
<1> QED  BY <1>1, <1>2, PTL DEF Spec, WindowBeforeRepeat
=============================================================================
