------------------------- MODULE TerminalInputLedger -------------------------
(***************************************************************************)
(* The input ledger of the server (createTerminalInputLedger in            *)
(* server/src/ws/terminalInputLedger.ts): for every pair of a logical      *)
(* client and a session it decides whether an input operation may be       *)
(* written to the PTY, so that one sent again after a reconnect is not     *)
(* written a second time.                                                  *)
(***************************************************************************)
EXTENDS InputLedgerEntry

CONSTANTS
    Clients,        \* logical client ids
    Sessions,       \* session ids
    MaxTime,        \* bound of the model: the clock stops here
    MaxAdmissions   \* bound of the model: admissions per entry

ASSUME LedgerAssumption == MaxTime \in Nat /\ MaxAdmissions \in Nat

VARIABLES
    entries,    \* clients -> sessions -> LedgerEntry; an absent entry is NewEntry
    now,        \* the injected clock
    answer,     \* what the last admit returned, and for which request
    written,    \* history: how often an operation was let through since the release
    writtenAt   \* history: when it was last let through

vars == <<entries, now, answer, written, writtenAt>>

Keys == Clients \X Sessions

Outcomes ==
    {"admitted", "duplicate", "expired", "payload-mismatch", "unknown", "unidentified"}
NoAnswer == [outcome |-> "none"]
Answers == [key : Keys, op : Operations, outcome : Outcomes \ {"unidentified"}]
           \cup [key : Keys, outcome : {"unidentified"}]

-----------------------------------------------------------------------------
Init ==
    /\ entries = [k \in Keys |-> NewEntry]
    /\ now = 0
    /\ answer = NoAnswer
    /\ written = [k \in Keys |-> [o \in Operations |-> 0]]
    /\ writtenAt = [k \in Keys |-> [o \in Operations |-> 0]]

\* admit, for a request that carries an operation id.
Admit(k, o, payload) ==
    LET e   == Sweep(entries[k], now)
        out == Outcome(e, o, payload)
    IN  /\ e.admitted < MaxAdmissions
        /\ answer' = [key |-> k, op |-> o, outcome |-> out]
        /\ IF out = "admitted"
           THEN /\ entries' = [entries EXCEPT ![k] = Evict(Remember(e, o, payload, now))]
                /\ written' = [written EXCEPT ![k][o] = @ + 1]
                /\ writtenAt' = [writtenAt EXCEPT ![k][o] = now]
           ELSE /\ entries' = [entries EXCEPT ![k] = e]
                /\ UNCHANGED <<written, writtenAt>>
        /\ UNCHANGED now

\* admit, for a request without an operation id: swept, written, not remembered.
AdmitUnidentified(k) ==
    /\ entries' = [entries EXCEPT ![k] = Sweep(@, now)]
    /\ answer' = [key |-> k, outcome |-> "unidentified"]
    /\ UNCHANGED <<now, written, writtenAt>>

ReleaseKeys(ks) ==
    /\ entries' = [k \in Keys |-> IF k \in ks THEN NewEntry ELSE entries[k]]
    /\ written' = [k \in Keys |-> IF k \in ks THEN [o \in Operations |-> 0] ELSE written[k]]
    /\ writtenAt' = [k \in Keys |-> IF k \in ks THEN [o \in Operations |-> 0] ELSE writtenAt[k]]
    /\ answer' = NoAnswer
    /\ UNCHANGED now

Release(k) == ReleaseKeys({k})
ReleaseLogicalClient(c) == ReleaseKeys({c} \X Sessions)

Tick ==
    /\ now < MaxTime
    /\ now' = now + 1
    /\ UNCHANGED <<entries, answer, written, writtenAt>>

Next ==
    \/ \E k \in Keys, o \in Operations, payload \in Payloads \cup {NoPayload} :
          Admit(k, o, payload)
    \/ \E k \in Keys : AdmitUnidentified(k) \/ Release(k)
    \/ \E c \in Clients : ReleaseLogicalClient(c)
    \/ Tick

Spec == Init /\ [][Next]_vars

-----------------------------------------------------------------------------
\* Every variable keeps its type: the entries of terminalInputLedger.ts:143-181.
TypeOK ==
    /\ entries \in [Keys -> Entry]
    /\ now \in 0 .. MaxTime
    /\ answer \in Answers \cup {NoAnswer}
    /\ written \in [Keys -> [Operations -> Nat]]
    /\ writtenAt \in [Keys -> [Operations -> Nat]]

\* However its records were evicted, aged or forgotten, an operation that carries an
\* ordering is let through to the PTY at most once until its entry is released.
AtMostOnce ==
    \A k \in Keys, o \in Sequenced : written[k][o] <= 1

\* An entry never holds more than MaxOperations live records and as many tombstones,
\* and keeps digests and orderings only for operations it still holds: it does not
\* grow with the lifetime of the session.
Bounded ==
    \A k \in Keys :
        LET e == entries[k]
        IN  /\ Cardinality(e.operations) <= MaxOperations
            /\ Cardinality(e.expiredOperations) <= MaxOperations
            /\ e.operationSequences \subseteq e.operations \cup e.expiredOperations
            /\ {o \in Operations : e.operationDigests[o] # NoPayload} \subseteq e.operations

\* What is remembered has its type and its bound.
MemoryFits == TypeOK /\ Bounded

\* A sequencer numbers operations upwards within an epoch: an operation above all those
\* that were let through is new, and it is admitted whatever was forgotten before.
FreshIsAdmitted ==
    \A k \in Keys, o \in Sequenced, payload \in Payloads :
        (/\ written[k][o] = 0
         /\ \A p \in Sequenced :
                written[k][p] > 0 /\ Sequence[p].epoch = Sequence[o].epoch
                    => Sequence[p].start < Sequence[o].start)
        => Outcome(Sweep(entries[k], now), o, payload) = "admitted"

\* The comment at terminalInputLedger.ts:300-303: an operation, with an ordering or
\* without one, is executed again only when 2 * MaxOperations further operations were
\* admitted since or its record outlived the time-to-live.
WindowBeforeRepeat ==
    [][\A k \in Keys, o \in Operations :
          (written[k][o] >= 1 /\ written'[k][o] > written[k][o])
          => \/ entries[k].admitted - entries[k].order[o] >= 2 * MaxOperations
             \/ now - writtenAt[k][o] >= TTL]_vars

Granted == [k \in Keys |-> {o \in Operations : written[k][o] > 0}]
Admission == INSTANCE InputAdmission WITH granted <- Granted

\* Bounded as it is, the ledger answers like one that never forgets: every refusal
\* tells the truth about what was written, and no ordered operation is granted twice.
AnswersAreTrue == Admission!Spec
=============================================================================
