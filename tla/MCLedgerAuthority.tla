-------------------------- MODULE MCLedgerAuthority --------------------------
(* Small instances for TLC of two parts that share no state: the ledger of     *)
(* terminal inputs, and the authority of one terminal.  A behavior is one of   *)
(* one part; the other stays in its initial state.                             *)
EXTENDS MCTerminalInputLedger, TerminalAuthority

VARIABLE part   \* the one this behavior is of

PartInit == part \in {"ledger", "authority"} /\ Init /\ AuthorityInit

PartNext ==
    \/ part = "ledger" /\ Next /\ UNCHANGED <<part, authorityVars>>
    \/ part = "authority" /\ AuthorityNext /\ UNCHANGED <<part, vars>>

\* In its initial state no step that the authority's fairness is about can be taken, so
\* that fairness asks nothing of the ledger's behaviors.
PartSpec ==
    PartInit /\ [][PartNext]_<<part, vars, authorityVars>> /\ AuthorityFairness
=============================================================================
