--------------------------- MODULE MCTerminalInput ---------------------------
(* Small instances of TerminalInput for TLC: clients that type a few inputs in  *)
(* one sequencer epoch.                                                         *)
EXTENDS TerminalInput

MCOperations == 1 .. MaxStart
MCSequence == [o \in MCOperations |-> [epoch |-> 1, start |-> o]]

\* Bound of the run: three inputs, two of them under way at once, on one connection; a
\* client that connects again has typed two, and has one under way at a time.
OneConnectionOrTwoInputs ==
    \A c \in Clients :
        client[c].connections > 1 => client[c].next <= 3 /\ Len(channel[c]) <= 1 /\ meta[c].tokens <= 1
=============================================================================
