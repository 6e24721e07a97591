--------------------------- MODULE InputAdmission ---------------------------
(***************************************************************************)
(* What the input ledger promises a client about the answers it gives      *)
(* (the outcomes of TerminalInputAdmission, terminalInputLedger.ts:60-90), *)
(* with a memory that never forgets: `granted' is the set of operations    *)
(* written for an entry since it was released.                             *)
(*   - "admitted": an operation with an ordering was not written before;   *)
(*   - "duplicate", "expired", "payload-mismatch": it was;                 *)
(*   - "unknown": it was, or one at or above it in its epoch was.          *)
(***************************************************************************)
EXTENDS Integers

CONSTANTS Keys, Operations, Sequence, NoSequence

VARIABLES granted, answer

Sequenced == {o \in Operations : Sequence[o] # NoSequence}
NoAnswer == [outcome |-> "none"]

Init == granted = [k \in Keys |-> {}] /\ answer = NoAnswer

Grant(k, o) ==
    /\ o \in Sequenced => o \notin granted[k]
    /\ granted' = [granted EXCEPT ![k] = @ \cup {o}]
    /\ answer' = [key |-> k, op |-> o, outcome |-> "admitted"]

RefuseKnown(k, o) ==
    /\ o \in granted[k]
    /\ \E out \in {"duplicate", "expired", "payload-mismatch"} :
          answer' = [key |-> k, op |-> o, outcome |-> out]
    /\ UNCHANGED granted

RefuseUnknown(k, o) ==
    /\ o \in Sequenced
    /\ \E p \in granted[k] \cap Sequenced :
          Sequence[p].epoch = Sequence[o].epoch /\ Sequence[o].start <= Sequence[p].start
    /\ answer' = [key |-> k, op |-> o, outcome |-> "unknown"]
    /\ UNCHANGED granted

GrantUnidentified(k) ==
    /\ answer' = [key |-> k, outcome |-> "unidentified"]
    /\ UNCHANGED granted

Release(ks) ==
    /\ granted' = [k \in Keys |-> IF k \in ks THEN {} ELSE granted[k]]
    /\ answer' = NoAnswer

Next ==
    \/ \E k \in Keys, o \in Operations :
          Grant(k, o) \/ RefuseKnown(k, o) \/ RefuseUnknown(k, o)
    \/ \E k \in Keys : GrantUnidentified(k)
    \/ \E ks \in SUBSET Keys : Release(ks)

Spec == Init /\ [][Next]_<<granted, answer>>
=============================================================================
