------------------------------ MODULE LoopRuns ------------------------------
(***************************************************************************)
(* The loop scheduler (src/server/src/services/loop/LoopService.ts).       *)
(*                                                                         *)
(* A loop is a list of steps the server sends to a new tab when its time   *)
(* comes or a user asks.  Tabs are opened in the @schedule-n workspaces,   *)
(* one run at a time.  A run waits for the file system, for its turn, for  *)
(* the tab, for each step and for each save of the loops, and users turn   *)
(* loops off and on, delete them, and close tabs and workspaces meanwhile. *)
(*                                                                         *)
(* A workspace or a tab is named by the run that opened it; the runs of a  *)
(* loop follow one another, so its oldest tab is the one of the lowest     *)
(* number, and the tabs it keeps are a set.  Left out: the                 *)
(* times of a schedule (a loop may be due whenever it is on), the length   *)
(* of the history, changes to a loop's steps, and the restart of the       *)
(* server.                                                                 *)
(***************************************************************************)
EXTENDS Integers, FiniteSets, SequencesExt

CONSTANTS Loops,
          Steps,         \* steps of a loop
          Ends,          \* the loops whose last step closes the tab
          KeepTabs,      \* tabs a loop leaves open
          TabCap,        \* tabs in all the @schedule workspaces
          SpaceCap,      \* tabs in one workspace
          MaxRuns, MaxUpsets

ASSUME LoopRunsAssumption ==
    /\ Ends \subseteq Loops /\ Steps \in Nat \ {0} /\ KeepTabs \in Nat
    /\ TabCap \in Nat \ {0} /\ SpaceCap \in Nat \ {0}
    /\ IsFiniteSet(Loops) /\ {MaxRuns, MaxUpsets} \subseteq Nat

VARIABLES
    switch,    \* each loop is "on", "off" or "gone"
    due,       \* the ticks whose save is under way, the oldest first: the loops each will run
    runs,      \* the runs so far, the oldest first
    running,   \* loops with a run
    cancelled, \* loops turned off or deleted during their run
    shown,     \* the runs in each loop's history
    kept,      \* the tabs each loop keeps
    chain,     \* runs that open a tab, one at a time
    scheduled,    \* the @schedule workspaces: [id, n]
    alive,     \* workspaces that exist
    open,      \* tabs that exist
    upsets     \* what users did, and calls that failed

loopVars == <<switch, due, runs, running, cancelled, shown, kept, chain,
              scheduled, alive, open, upsets>>

NoSpace == [id |-> 0, n |-> -1]

LoopInit ==
    /\ switch = [l \in Loops |-> "on"] /\ due = <<>> /\ runs = <<>>
    /\ running = {} /\ cancelled = {}
    /\ shown = [l \in Loops |-> {}] /\ kept = [l \in Loops |-> {}]
    /\ chain = <<>> /\ scheduled = {} /\ alive = {} /\ open = {}
    /\ upsets = 0

Upset == upsets < MaxUpsets /\ upsets' = upsets + 1

Exists(l) == switch[l] # "gone"
Busy(l) == l \in running
Active(i) == runs[i].at \notin {"ended", "unsaved"}

\* addRun: a deleted loop has no history.
Added(i, l) == IF Exists(l) THEN [shown EXCEPT ![l] = @ \cup {i}] ELSE shown

-----------------------------------------------------------------------------
(***************************************************************************)
(* Starting a run.                                                         *)
(***************************************************************************)
NewRun(l, trigger) ==
    [loop |-> l, trigger |-> trigger, sent |-> 0, space |-> NoSpace,
     at     |-> IF Busy(l) THEN "ended" ELSE "looking",
     result |-> IF Busy(l) THEN "skipped" ELSE "running",
     again  |-> FALSE, keep |-> {}, lost |-> FALSE]

\* begin, for the loops of a tick or the one of a user, in one step.
Begin(ls, trigger) ==
    LET first == Len(runs)
    IN  /\ first + Len(ls) <= MaxRuns
        /\ runs' = runs \o [k \in DOMAIN ls |-> NewRun(ls[k], trigger)]
        /\ running' = running \cup {ls[k] : k \in DOMAIN ls}
        /\ shown' = [l \in Loops |->
                       shown[l] \cup {first + k : k \in
                           {j \in DOMAIN ls : ls[j] = l /\ Exists(l)}}]

RunNow(l) ==
    /\ Exists(l) /\ Begin(<<l>>, "manual")
    /\ UNCHANGED <<switch, due, cancelled, kept, chain, scheduled, alive, open, upsets>>

\* tick: the loops that are due move on to their next time, then it saves.  Its timer was armed
\* again at once, so the next tick may come before that save is done.
LoopTick ==
    /\ \E ls \in (SUBSET {l \in Loops : switch[l] = "on"}) \ {{}} : due' = Append(due, ls)
    /\ Len(runs) + FoldSeq(LAMBDA ls, n : n + Cardinality(ls), 0, due') <= MaxRuns
    /\ UNCHANGED <<switch, runs, running, cancelled, shown, kept, chain, scheduled,
                   alive, open, upsets>>

\* The save of a tick is done, in the order of the saves: the runs begin.  A save that fails
\* begins none.
LoopTickSaved ==
    /\ due # <<>>
    /\ due' = Tail(due)
    /\ \/ Begin(SetToSeq(Head(due)), "schedule") /\ UNCHANGED upsets
       \/ Upset /\ UNCHANGED <<runs, running, shown>>
    /\ UNCHANGED <<switch, cancelled, kept, chain, scheduled, alive, open>>

-----------------------------------------------------------------------------
(***************************************************************************)
(* execute: the steps of a run.  A run changes its own record; the others  *)
(* are what each step says.                                                *)
(***************************************************************************)
DeletedInRun(l) == l \in cancelled /\ ~Exists(l)
StoppedInRun(l) == l \in cancelled

Becomes(i, run) == runs' = [runs EXCEPT ![i] = run]

\* finish, of execute ("again": a save that fails ends in finish once more).
Finish(i, run, result, again) ==
    /\ Becomes(i, [run EXCEPT !.at = "finishing", !.result = result, !.again = again])
    /\ shown' = Added(i, run.loop)

\* execute between two waits: look whether the run goes on.
NextStep(i, run) ==
    IF run.sent = Steps THEN Finish(i, run, "success", TRUE)
    ELSE IF StoppedInRun(run.loop) \/ i \notin open
    THEN Finish(i, run, "aborted", TRUE)
    ELSE Becomes(i, [run EXCEPT !.at = "sending"]) /\ UNCHANGED shown

LookUp(i) ==
    /\ runs[i].at = "looking"
    /\ \/ /\ Becomes(i, [runs[i] EXCEPT !.at = "queued"])
          /\ chain' = Append(chain, i) /\ UNCHANGED <<shown, upsets>>
       \/ Finish(i, runs[i], "failed", TRUE) /\ Upset /\ UNCHANGED chain
    /\ UNCHANGED <<switch, due, running, cancelled, kept, scheduled, alive, open>>

TabsIn(s) == {j \in open : runs[j].space.id = s.id}
HasRoom(s) == Cardinality(TabsIn(s)) < SpaceCap

NextNumber(known) ==
    IF known = {} THEN 0
    ELSE 1 + (CHOOSE n \in {s.n : s \in known} : \A s \in known : s.n <= n)

\* Mutant of MyTurn: placements are not serialized.
AnyTurn(i) == TRUE

MyTurn(i) == chain # <<>> /\ Head(chain) = i

\* serializePlacement: the next run opens its tab, whether this one could or not.
StaysInChain == chain
LeftChain == Tail(chain)

\* openRunTab up to its first wait.
PlaceTab(i) ==
    /\ runs[i].at = "queued" /\ MyTurn(i)
    /\ LET known == {s \in scheduled : s.id \in alive}
           roomy == {s \in known : HasRoom(s)}
       IN  /\ scheduled' = known
           /\ IF Cardinality(UNION {TabsIn(s) : s \in known}) >= TabCap
              THEN Finish(i, runs[i], "skipped", TRUE) /\ chain' = LeftChain
              ELSE /\ UNCHANGED <<shown, chain>>
                   /\ Becomes(i,
                        IF roomy = {}
                        THEN [runs[i] EXCEPT !.at = "creating",
                                 !.space = [id |-> i, n |-> NextNumber(known)]]
                        ELSE [runs[i] EXCEPT !.at = "opening",
                                 !.space = CHOOSE s \in roomy :
                                               \A t \in roomy : s.n <= t.n])
    /\ UNCHANGED <<switch, due, running, cancelled, kept, alive, open, upsets>>

CreateSpace(i) ==
    /\ runs[i].at = "creating"
    /\ \/ /\ Becomes(i, [runs[i] EXCEPT !.at = "opening"])
          /\ scheduled' = scheduled \cup {runs[i].space} /\ alive' = alive \cup {i}
          /\ UNCHANGED <<shown, chain, upsets>>
       \/ /\ Finish(i, [runs[i] EXCEPT !.space = NoSpace], "failed", FALSE)
          /\ chain' = LeftChain /\ Upset /\ UNCHANGED <<scheduled, alive>>
    /\ UNCHANGED <<switch, due, running, cancelled, kept, open>>

\* The shell may not start, and the workspace may be gone.
OpenTab(i) ==
    /\ runs[i].at = "opening" /\ chain' = LeftChain
    /\ \/ /\ runs[i].space.id \in alive /\ open' = open \cup {i}
          /\ Becomes(i, [runs[i] EXCEPT !.at = "saving"]) /\ UNCHANGED <<shown, upsets>>
       \/ /\ Finish(i, [runs[i] EXCEPT !.space = NoSpace], "failed", FALSE)
          /\ (Upset \/ (runs[i].space.id \notin alive /\ UNCHANGED upsets))
          /\ UNCHANGED open
    /\ UNCHANGED <<switch, due, running, cancelled, kept, scheduled, alive>>

SavedOpen(i) ==
    /\ runs[i].at = "saving"
    /\ \/ NextStep(i, runs[i]) /\ UNCHANGED upsets
       \/ Finish(i, runs[i], "failed", FALSE) /\ Upset
    /\ UNCHANGED <<switch, due, running, cancelled, kept, chain, scheduled, alive, open>>

\* A step is sent, or refused.  The last step of some loops closes the tab.
SentStep(i) ==
    /\ runs[i].at = "sending"
    /\ LET run == [runs[i] EXCEPT !.sent = @ + 1]
           closes == run.sent = Steps /\ run.loop \in Ends
       IN  \/ /\ closes => i \in open
              /\ NextStep(i, run)
              /\ open' = IF closes THEN open \ {i} ELSE open
              /\ UNCHANGED upsets
           \/ /\ Finish(i, runs[i], "failed", FALSE)
              /\ (Upset \/ (i \notin open /\ UNCHANGED upsets))
              /\ UNCHANGED open
    /\ UNCHANGED <<switch, due, running, cancelled, kept, chain, scheduled, alive>>

-----------------------------------------------------------------------------
(***************************************************************************)
(* The end of a run.                                                       *)
(***************************************************************************)
Freed(at, l) == IF at = "ended" THEN running \ {l} ELSE running

\* keepTab at its start and after each tab it closed; then the last save.
KeepOrSave(i, keep, records) ==
    IF Cardinality(keep) > KeepTabs
    THEN /\ runs' = [records EXCEPT ![i].at = "keeping", ![i].keep = keep]
         /\ running' = Freed("keeping", runs[i].loop) /\ UNCHANGED kept
    ELSE /\ runs' = [records EXCEPT ![i].at = "lastSave", ![i].keep = {}]
         /\ kept' = [kept EXCEPT ![runs[i].loop] = keep]
         /\ UNCHANGED running

\* The tabs in keptTabs that still exist, and the one of this run.
KeptTabs(i) == (kept[runs[i].loop] \cap open) \cup {i}

\* "finally": the loop may run again.
EndRun(i, how) ==
    /\ Becomes(i, [runs[i] EXCEPT !.at = how])
    /\ running' = Freed("ended", runs[i].loop)
    /\ cancelled' = cancelled \ {runs[i].loop}

Finished(i) ==
    /\ runs[i].at = "finishing"
    /\ \/ /\ IF i \in open /\ Exists(runs[i].loop)
             THEN KeepOrSave(i, KeptTabs(i), runs)
             ELSE Becomes(i, [runs[i] EXCEPT !.at = "lastSave"])
                  /\ UNCHANGED <<running, kept>>
          /\ UNCHANGED <<cancelled, shown, upsets>>
       \/ /\ Upset /\ UNCHANGED kept
          /\ IF runs[i].again
             THEN Finish(i, runs[i], "failed", FALSE) /\ UNCHANGED <<running, cancelled>>
             ELSE EndRun(i, "unsaved") /\ UNCHANGED shown
    /\ UNCHANGED <<switch, due, chain, scheduled, alive, open>>

\* The oldest tab is closed; one that cannot be closed is let go.
CloseOldest(i) ==
    LET oldest == Min(runs[i].keep)
        rest == runs[i].keep \ {oldest}
    IN  /\ runs[i].at = "keeping"
        /\ \/ /\ open' = open \ {oldest} /\ KeepOrSave(i, rest, runs)
              /\ UNCHANGED upsets
           \/ /\ oldest \in open /\ Upset /\ UNCHANGED open
              /\ KeepOrSave(i, rest, [runs EXCEPT ![oldest].lost = TRUE])
        /\ UNCHANGED <<switch, due, cancelled, shown, chain, scheduled, alive>>

LastSave(i) ==
    /\ runs[i].at = "lastSave" /\ EndRun(i, "ended")
    /\ UNCHANGED <<switch, due, shown, kept, chain, scheduled, alive, open, upsets>>

RunStep(i) == \/ LookUp(i) \/ PlaceTab(i) \/ CreateSpace(i) \/ OpenTab(i) \/ SavedOpen(i)
              \/ SentStep(i) \/ Finished(i) \/ CloseOldest(i) \/ LastSave(i)

-----------------------------------------------------------------------------
(***************************************************************************)
(* Users.                                                                  *)
(***************************************************************************)
\* update: only turning it off stops a run.
Turn(l) ==
    /\ Exists(l) /\ Upset
    /\ switch' = [switch EXCEPT ![l] = IF @ = "on" THEN "off" ELSE "on"]
    /\ cancelled' = IF switch[l] = "on" /\ Busy(l) THEN cancelled \cup {l} ELSE cancelled
    /\ UNCHANGED <<due, runs, running, shown, kept, chain, scheduled, alive, open>>

RemoveLoop(l) ==
    /\ Exists(l) /\ Upset
    /\ switch' = [switch EXCEPT ![l] = "gone"]
    /\ cancelled' = IF Busy(l) THEN cancelled \cup {l} ELSE cancelled
    /\ shown' = [shown EXCEPT ![l] = {}] /\ kept' = [kept EXCEPT ![l] = {}]
    /\ UNCHANGED <<due, runs, running, chain, scheduled, alive, open>>

CloseTab(i) ==
    /\ i \in open /\ Upset /\ open' = open \ {i}
    /\ UNCHANGED <<switch, due, runs, running, cancelled, shown, kept, chain,
                   scheduled, alive>>

DeleteSpace(s) ==
    /\ s.id \in alive /\ Upset
    /\ alive' = alive \ {s.id} /\ open' = open \ TabsIn(s)
    /\ UNCHANGED <<switch, due, runs, running, cancelled, shown, kept, chain, scheduled>>

LoopNext ==
    \/ LoopTick \/ LoopTickSaved
    \/ \E i \in DOMAIN runs : RunStep(i) \/ CloseTab(i)
    \/ \E l \in Loops : RunNow(l) \/ Turn(l) \/ RemoveLoop(l)
    \/ \E s \in scheduled : DeleteSpace(s)

LoopSpec == LoopInit /\ [][LoopNext]_loopVars

\* The calls a run waits for return.
LoopFairness ==
    \A i \in 1..MaxRuns : WF_loopVars(i \in DOMAIN runs /\ RunStep(i))

-----------------------------------------------------------------------------
\* SCHEDULE_TAB_CAP holds over all the @schedule workspaces, although a run
\* counts the tabs, waits, and only then opens its own.
WithinTabCap ==
    Cardinality(UNION {TabsIn(s) : s \in {s \in scheduled : s.id \in alive}}) <= TabCap

\* No two @schedule workspaces have one number, whichever a user deleted.
NumbersApart == \A s, t \in {s \in scheduled : s.id \in alive} : s.n = t.n => s = t

\* The tabs that the ended runs of a loop left open are at most those it keeps,
\* however the runs ended.  A tab that could not be closed is let go, and a run
\* whose end could not be saved skips keepTab: neither is counted.
KeepsAtMost ==
    \A l \in Loops : Exists(l) /\ ~Busy(l) =>
        Cardinality({i \in open : runs[i].loop = l /\ runs[i].at = "ended"
                               /\ ~runs[i].lost}) <= KeepTabs

\* The history of a loop says "running" of the run that goes on and of no other,
\* and a deleted loop has none.
HistoryIsTrue ==
    \A l \in Loops :
        /\ ~Exists(l) => shown[l] = {}
        /\ \A i \in shown[l] : ~Active(i) => runs[i].result # "running"
        /\ Exists(l) => \A i \in DOMAIN runs : runs[i].loop = l => i \in shown[l]

\* Runs that overlap leave the tabs, their workspaces and the history as one after the other
\* would: all of the above.
TabsAndHistory == WithinTabCap /\ NumbersApart /\ KeepsAtMost /\ HistoryIsTrue

\* A loop that was turned off or deleted during a run starts no further step.
CancelledSendsNoMore ==
    [][\A i \in DOMAIN runs :
          /\ runs'[i].at = "sending"
          /\ runs[i].at # "sending" \/ runs'[i].sent # runs[i].sent
          => runs[i].loop \notin cancelled]_loopVars

\* Every run ends, whatever fails on its way, so its loop may run again.
RunsEnd ==
    \A i \in 1..MaxRuns :
        (i \in DOMAIN runs /\ Active(i)) ~> (i \in DOMAIN runs /\ ~Active(i))

=============================================================================
