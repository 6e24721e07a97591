----------------------------- MODULE MCServices -----------------------------
(* Small instances for TLC of parts that share no state: the tabs of the      *)
(* workspaces, a store that two processes write, the screens of one shell,    *)
(* the Git summaries, the loops and the input of one terminal in the browser. *)
(* A behavior is one of one part; the others stay in their initial state.     *)
EXTENDS WorkspaceTabs, StorePublish, ScreenReplay, GitSummary, LoopRuns, BrowserInput

VARIABLE service   \* the one this behavior is of

Services == {"workspaces", "store", "screen", "summary", "loops", "browser"}

MCFirstTabs == {{"s"}, {}}
MCFolder == [c \in GitSessions |-> c]

ServicesInit ==
    /\ service \in Services
    /\ WsInit /\ StoreInit /\ ScreenInit /\ SummaryInit /\ LoopInit /\ BrowserInit
    /\ service # "workspaces" => listed = {}
    /\ service # "store" => files[Store].whole

\* The step of one service leaves the state of the others alone.
Only(name, step, others) == service = name /\ step /\ UNCHANGED <<service, others>>

ServicesNext ==
    \/ Only("workspaces", WsNext, <<storeVars, srVars, summaryVars, loopVars, browserVars>>)
    \/ Only("store", StoreNext, <<wsVars, srVars, summaryVars, loopVars, browserVars>>)
    \/ Only("screen", ScreenNext, <<wsVars, storeVars, summaryVars, loopVars, browserVars>>)
    \/ Only("summary", SummaryNext, <<wsVars, storeVars, srVars, loopVars, browserVars>>)
    \/ Only("loops", LoopNext, <<wsVars, storeVars, srVars, summaryVars, browserVars>>)
    \/ Only("browser", BrowserNext, <<wsVars, storeVars, srVars, summaryVars, loopVars>>)

ServicesSpec ==
    ServicesInit
    /\ [][ServicesNext]_<<service, wsVars, storeVars, srVars, summaryVars, loopVars, browserVars>>

\* Bounds of the run: at most one of a moved tab, a failing write and a crash; two inputs
\* when the terminal becomes unready, three when the socket refuses one; two runs of loops
\* when a user or a failure upsets them; a temp file that is left or a kill; three of
\* resizes, breaks, repairs, replays and departures of a screen.
OneTrouble ==
    /\ spent.moves + spent.failures + spent.crashes <= 1
    /\ spentOn.disturbances = 0 \/ Len(typed) <= 2
    /\ used.resizes + used.breaks + used.repairs + used.replays + used.leaves <= 3
    /\ upsets = 0 \/ Len(runs) <= 2
    /\ faults.left + faults.kills <= 1
=============================================================================
