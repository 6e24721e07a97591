------------------------ MODULE MCTerminalInputLedger ------------------------
(* Small instances of TerminalInputLedger for TLC: an epoch with three       *)
(* operations, and one operation without an ordering.                        *)
EXTENDS TerminalInputLedger, TLC

CONSTANTS a1, a2, a3, b1, plain, noSequence

MCSequence ==
    a1 :> [epoch |-> 1, start |-> 1] @@ a2 :> [epoch |-> 1, start |-> 2]
    @@ a3 :> [epoch |-> 1, start |-> 3] @@ b1 :> [epoch |-> 2, start |-> 1]
    @@ plain :> noSequence

MCOperations == DOMAIN MCSequence
=============================================================================
