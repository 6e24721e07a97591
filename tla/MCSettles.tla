------------------------------ MODULE MCSettles ------------------------------
(* Small instances for TLC of four parts that share no state and where         *)
(* something waits: inputs behind the replay fence, Git commands for a slot,    *)
(* runs of the loops for each other, what the browser holds back for the        *)
(* socket.  A behavior is one of one part; the others stay in their initial     *)
(* state.                                                                       *)
EXTENDS MCTerminalInput, GitRunner, LoopRuns, BrowserInput

VARIABLE part   \* the one this behavior is of

MCRepo == [r \in GitRequests |-> CASE r \in {1, 2, 3} -> "x" [] r \in {4, 5} -> "y" [] r = 6 -> "z"]
MCKey == [r \in GitRequests |-> IF r \in {1, 2} THEN "k" ELSE NoKey]

PartInit ==
    /\ part \in {"input", "git", "loops", "browser"}
    /\ Init /\ GitInit /\ LoopInit /\ BrowserInit

\* The step of one part leaves the state of the others alone.
Only(name, step, others) == part = name /\ step /\ UNCHANGED <<part, others>>

PartNext ==
    \/ Only("input", Next, <<gitVars, loopVars, browserVars>>)
    \/ Only("git", GitNext, <<vars, loopVars, browserVars>>)
    \/ Only("loops", LoopNext, <<vars, gitVars, browserVars>>)
    \/ Only("browser", BrowserNext, <<vars, gitVars, loopVars>>)

\* In its initial state no step that a part's fairness is about can be taken, so the
\* fairness of the parts that are not chosen asks for nothing.
PartSpec ==
    /\ PartInit /\ [][PartNext]_<<part, vars, gitVars, loopVars, browserVars>>
    /\ Fairness /\ GitFairness /\ LoopFairness /\ BrowserFairness
=============================================================================
