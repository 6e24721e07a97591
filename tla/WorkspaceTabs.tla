---------------------------- MODULE WorkspaceTabs ----------------------------
(***************************************************************************)
(* Workspaces, their tabs and the PTY sessions of the tabs                 *)
(* (server/src/services/WorkspaceService.ts), with the store they are      *)
(* saved to.  One write of the store runs at a time; what it writes is the *)
(* state at its start.  An operation changes the state, waits for its      *)
(* write and then goes on or takes its change back.                        *)
(***************************************************************************)
EXTENDS Naturals, Sequences, FiniteSets

CONSTANTS
    Workspaces,
    Tabs,
    FirstTabs,          \* sets of tabs that there may be at first, all in one workspace
    MaxTabOps,          \* bound of the model: operations that wait for a write
    MaxMoves,           \* bound of the model
    MaxFailures,        \* bound of the model: writes that fail
    MaxCrashes,         \* bound of the model
    maxTabsPerWorkspace

ASSUME WorkspaceAssumption ==
    /\ Workspaces # {} /\ Tabs # {} /\ FirstTabs \subseteq SUBSET Tabs
    /\ MaxTabOps \in Nat

TabOps == 1 .. MaxTabOps

VARIABLES
    phase,      \* of the server: "up", "booting" or "down"
    spaces,     \* state.workspaces
    listed,     \* state.tabs
    tab,        \* the tab objects, those that operations still hold included
    made,       \* tab -> sessions it has had so far
    sessions,   \* sessions that run: pairs of a tab and a number
    ops,        \* the operations
    writes,     \* flushChain: operations whose write runs (the first) or waits; 0 is the timer
    doc,        \* what the write that runs puts in the store
    disk,       \* the store
    flushTimer, \* a debounced save is due
    spent       \* what the bounds of the model count

wsVars == <<phase, spaces, listed, tab, made, sessions, ops, writes, doc, disk, flushTimer, spent>>

CurrentSession(t) == <<t, tab[t].session>>
TabsOf(w) == {t \in listed : tab[t].ws = w}

Idle == [kind |-> "none", at |-> "idle", tab |-> CHOOSE t \in Tabs : TRUE,
         ws |-> CHOOSE w \in Workspaces : TRUE, before |-> {}, ends |-> {}]

\* The state as a document; the arguments are its parts after a change.
Document(s, l, objects) == [spaces |-> s, tabs |-> [t \in l |-> objects[t]]]

WsInit ==
    /\ phase = "up"
    /\ spaces = Workspaces
    /\ listed \in FirstTabs
    /\ tab = [t \in Tabs |-> [ws |-> CHOOSE w \in Workspaces : TRUE,
                              session |-> IF t \in listed THEN 1 ELSE 0,
                              stopped |-> FALSE]]
    /\ made = [t \in Tabs |-> IF t \in listed THEN 1 ELSE 0]
    /\ sessions = listed \X {1}
    /\ ops = [i \in TabOps |-> Idle]
    /\ writes = <<>>
    /\ doc = Document(spaces, listed, tab)
    /\ disk = doc
    /\ flushTimer = FALSE
    /\ spent = [moves |-> 0, failures |-> 0, crashes |-> 0]

-----------------------------------------------------------------------------
\* save(true) of operation i, after the changes: the pending debounced save is part of it.
SaveNow(i) ==
    /\ writes' = Append(writes, i)
    /\ doc' = IF writes = <<>> THEN Document(spaces', listed', tab') ELSE doc
    /\ flushTimer' = FALSE
    /\ UNCHANGED disk

\* An operation of the server that is up begins, in the next slot.
Begins(i, op) ==
    /\ phase = "up"
    /\ ops[i] = Idle /\ \A j \in TabOps : j < i => ops[j] # Idle
    /\ ops' = [ops EXCEPT ![i] = op]
    /\ UNCHANGED <<phase, spent>>

NewSession(t) == /\ made' = [made EXCEPT ![t] = @ + 1]
                 /\ sessions' = sessions \cup {<<t, made[t] + 1>>}

AddTab(i, w, t) ==
    /\ w \in spaces
    /\ Cardinality(TabsOf(w)) < maxTabsPerWorkspace
    /\ made[t] = 0
    /\ NewSession(t)
    /\ listed' = listed \cup {t}
    /\ tab' = [tab EXCEPT ![t] = [ws |-> w, session |-> 1, stopped |-> FALSE]]
    /\ Begins(i, [Idle EXCEPT !.kind = "add", !.at = "saving", !.tab = t, !.ws = w,
                              !.before = listed])
    /\ UNCHANGED spaces
    /\ SaveNow(i)

\* Mutant of MarkedStopped: the tab is only marked when it is removed.
MarkLater(objects, ts) == objects

MarkedStopped(objects, ts) == [t \in Tabs |-> [objects[t] EXCEPT !.stopped = @ \/ t \in ts]]

DeleteTab(i, t) ==
    /\ t \in listed
    /\ tab' = MarkedStopped(tab, {t})
    /\ Begins(i, [Idle EXCEPT !.kind = "delete", !.at = "saving", !.tab = t, !.ws = tab[t].ws,
                              !.before = {x \in {t} : tab[x].stopped}])
    /\ UNCHANGED <<spaces, listed, made, sessions>>
    /\ SaveNow(i)

DeleteWorkspace(i, w) ==
    /\ w \in spaces /\ Cardinality(spaces) > 1
    /\ tab' = MarkedStopped(tab, TabsOf(w))
    /\ Begins(i, [Idle EXCEPT !.kind = "drop", !.at = "saving", !.ws = w,
                              !.before = {x \in TabsOf(w) : tab[x].stopped},
                              !.ends = {CurrentSession(t) : t \in TabsOf(w)}])
    /\ UNCHANGED <<spaces, listed, made, sessions>>
    /\ SaveNow(i)

RestartTab(i, t) ==
    /\ t \in listed
    /\ NewSession(t)
    /\ tab' = [tab EXCEPT ![t].session = made[t] + 1, ![t].stopped = FALSE]
    /\ Begins(i, [Idle EXCEPT !.kind = "restart", !.at = "saving", !.tab = t,
                              !.before = {x \in {t} : tab[x].stopped},
                              !.ends = {CurrentSession(t), <<t, made[t] + 1>>}])
    /\ UNCHANGED <<spaces, listed>>
    /\ SaveNow(i)

\* The shell of a session ends by itself, unless somebody is ending it: its tab is stopped.
SessionExits(i, s) ==
    /\ s \in sessions
    /\ \A j \in TabOps : ops[j].at = "ending" => s \notin ops[j].ends
    /\ s[1] \in listed /\ s = CurrentSession(s[1])
    /\ sessions' = sessions \ {s}
    /\ tab' = MarkedStopped(tab, {s[1]})
    /\ Begins(i, [Idle EXCEPT !.kind = "exit", !.at = "saving", !.tab = s[1],
                              !.before = {x \in {s[1]} : tab[x].stopped}])
    /\ UNCHANGED <<spaces, listed, made>>
    /\ SaveNow(i)

\* Mutant of SaveSoon: the write that runs is trusted to take the change along.
SaveIfIdle == flushTimer' = (flushTimer \/ writes = <<>>)

\* save(): the change is saved with the next write, or when the timer fires.
SaveSoon == flushTimer' = TRUE

\* moveTab, of a tab that is active and whose session runs; its save is debounced.
MoveTab(t, w) ==
    /\ phase = "up" /\ spent.moves < MaxMoves
    /\ t \in listed /\ w \in spaces \ {tab[t].ws} /\ tab[t].ws \in spaces
    /\ Cardinality(TabsOf(w)) < maxTabsPerWorkspace
    /\ ~tab[t].stopped /\ CurrentSession(t) \in sessions
    /\ tab' = [tab EXCEPT ![t].ws = w]
    /\ SaveSoon
    /\ spent' = [spent EXCEPT !.moves = @ + 1]
    /\ UNCHANGED <<phase, spaces, listed, made, sessions, ops, writes, doc, disk>>

FlushTimerFires ==
    /\ phase = "up" /\ flushTimer
    /\ UNCHANGED <<phase, spaces, listed, tab, made, sessions, ops, spent>>
    /\ SaveNow(0)

-----------------------------------------------------------------------------
\* After its write: the sessions an operation ends next.
EndsNext(op) == CASE op.kind = "delete"  -> {CurrentSession(op.tab)}
                  [] op.kind = "restart" -> {s \in op.ends : \A r \in op.ends : s[2] <= r[2]}
                  [] OTHER -> op.ends

Written(op) ==
    IF op.at = "saving" /\ op.kind \in {"delete", "drop", "restart"}
    THEN [op EXCEPT !.at = "ending", !.ends = EndsNext(op), !.before = {}]
    ELSE [op EXCEPT !.at = "done", !.ends = {}, !.before = {}]

\* A failed addition takes its own tab back, and nothing else.
RestTabs(op) == listed \ {op.tab}

\* restoreTabLifecycle, or the tab as it was before the restart.
Restored(op) ==
    CASE op.kind \in {"delete", "exit"} -> [tab EXCEPT ![op.tab].stopped = op.before # {}]
      [] op.kind = "drop" ->
            [t \in Tabs |-> IF \E s \in op.ends : s[1] = t
                            THEN [tab[t] EXCEPT !.stopped = t \in op.before] ELSE tab[t]]
      [] op.kind = "restart" ->
            [tab EXCEPT ![op.tab].stopped = op.before # {},
                        ![op.tab].session = CHOOSE n \in {s[2] : s \in op.ends} :
                                               \A r \in op.ends : n <= r[2]]
      [] OTHER -> tab

\* The change is taken back; the session that was made for it is ended.
TakeBack(i, op) ==
    /\ tab' = IF op.at = "saving" THEN Restored(op) ELSE tab
    /\ listed' = IF op.kind = "add" THEN RestTabs(op) ELSE listed
    /\ ops' = [ops EXCEPT ![i] =
                  CASE op.kind = "add" -> [op EXCEPT !.at = "undoing", !.ends = {<<op.tab, 1>>}]
                    [] op.kind = "restart" ->
                          [op EXCEPT !.at = "undoing",
                                     !.ends = {s \in op.ends : \A r \in op.ends : s[2] >= r[2]}]
                    [] OTHER -> [op EXCEPT !.at = "failed", !.ends = {}]]

\* The next write begins before the operation of the one that ended goes on.
NextDocument == Document(spaces, listed, tab)

WriteEnds ==
    /\ phase = "up" /\ writes # <<>>
    /\ writes' = Tail(writes)
    /\ \/ /\ disk' = doc
          /\ ops' = IF writes[1] = 0 THEN ops ELSE [ops EXCEPT ![writes[1]] = Written(@)]
          /\ UNCHANGED <<tab, listed, spent>>
       \/ /\ spent.failures < MaxFailures
          /\ spent' = [spent EXCEPT !.failures = @ + 1]
          /\ IF writes[1] = 0 THEN UNCHANGED <<ops, tab, listed>>
                              ELSE TakeBack(writes[1], ops[writes[1]])
          /\ UNCHANGED disk
    /\ doc' = IF Len(writes) > 1 THEN NextDocument ELSE disk'
    /\ UNCHANGED <<phase, spaces, made, sessions, flushTimer>>

\* terminateSession and terminateMultipleSessions have ended the sessions.  A deletion then
\* removes what it deletes; deleteTab fails when the tab's workspace went meanwhile.
SessionsEnded(i) ==
    LET op == ops[i]
        vanished == op.kind = "delete" /\ op.ws \notin spaces
    IN  /\ phase = "up" /\ op.at \in {"ending", "undoing"}
        /\ sessions' = sessions \ op.ends
        /\ listed' = CASE op.kind = "delete" -> listed \ {op.tab}
                       [] op.kind = "drop"   -> listed \ TabsOf(op.ws)
                       [] OTHER -> listed
        /\ spaces' = IF op.kind = "drop" THEN spaces \ {op.ws} ELSE spaces
        /\ UNCHANGED <<phase, tab, made, spent>>
        /\ IF op.kind \in {"delete", "drop"} /\ ~vanished
           THEN /\ ops' = [ops EXCEPT ![i].at = "removing", ![i].ends = {}]
                /\ SaveNow(i)
           ELSE /\ ops' = [ops EXCEPT ![i].ends = {},
                                      ![i].at = IF op.at = "undoing" \/ vanished
                                                THEN "failed" ELSE "done"]
                /\ UNCHANGED <<writes, doc, disk, flushTimer>>

\* terminateSession throws, with any of the sessions ended: a deletion or a restart stops
\* halfway, with its mark or its new session in place.
EndingFails(i) ==
    /\ phase = "up" /\ ops[i].at \in {"ending", "undoing"}
    /\ \E ended \in SUBSET ops[i].ends : sessions' = sessions \ ended
    /\ ops' = [ops EXCEPT ![i].at = "failed", ![i].ends = {}]
    /\ UNCHANGED <<phase, spaces, listed, tab, made, writes, doc, disk, flushTimer, spent>>

\* The server dies; a write may just have been published.
Crash ==
    /\ phase # "down" /\ spent.crashes < MaxCrashes
    /\ phase' = "down"
    /\ spent' = [spent EXCEPT !.crashes = @ + 1]
    /\ sessions' = {}
    /\ writes' = <<>> /\ flushTimer' = FALSE
    /\ disk' \in {disk} \cup {doc : w \in {v \in {1} : writes # <<>>}}
    /\ ops' = [i \in TabOps |-> IF ops[i].at \in {"ending", "removing"}
                                THEN [ops[i] EXCEPT !.at = "cut", !.ends = {}, !.before = {}]
                                ELSE IF ops[i].at \in {"saving", "undoing"}
                                THEN [ops[i] EXCEPT !.at = "lost", !.ends = {}, !.before = {}] ELSE ops[i]]
    /\ doc' = disk'
    /\ UNCHANGED <<spaces, listed, tab, made>>

\* initialize and checkOrphanTabs: the tabs that are not stopped get a session again, but for
\* those whose createSession fails.
BootReviving(revived) ==
    /\ phase = "down"
    /\ spaces' = disk.spaces
    /\ listed' = DOMAIN disk.tabs
    /\ tab' = [t \in Tabs |-> IF t \in revived THEN [disk.tabs[t] EXCEPT !.session = made[t] + 1]
                              ELSE IF t \in listed' THEN disk.tabs[t] ELSE tab[t]]
    /\ made' = [t \in Tabs |-> made[t] + (IF t \in revived THEN 1 ELSE 0)]
    /\ sessions' = {<<t, made[t] + 1>> : t \in revived}
    /\ UNCHANGED <<ops, spent>>
    /\ IF revived # {}
       THEN phase' = "booting" /\ SaveNow(0)
       ELSE phase' = "up" /\ UNCHANGED <<writes, doc, disk, flushTimer>>

Boot == \E revived \in SUBSET {t \in DOMAIN disk.tabs : ~disk.tabs[t].stopped} : BootReviving(revived)

\* The requests are served when the first write is done.
BootEnds ==
    /\ phase = "booting"
    /\ phase' = "up"
    /\ writes' = Tail(writes)
    /\ disk' = doc
    /\ UNCHANGED <<spaces, listed, tab, made, sessions, ops, doc, flushTimer, spent>>

WsNext ==
    \/ \E i \in TabOps, w \in Workspaces, t \in Tabs : AddTab(i, w, t)
    \/ \E i \in TabOps, t \in Tabs : DeleteTab(i, t) \/ RestartTab(i, t)
    \/ \E i \in TabOps, w \in Workspaces : DeleteWorkspace(i, w)
    \/ \E i \in TabOps, s \in sessions : SessionExits(i, s)
    \/ \E t \in Tabs, w \in Workspaces : MoveTab(t, w)
    \/ \E i \in TabOps : SessionsEnded(i) \/ EndingFails(i)
    \/ FlushTimerFires \/ WriteEnds \/ Crash \/ Boot \/ BootEnds

WsSpec == WsInit /\ [][WsNext]_wsVars

-----------------------------------------------------------------------------
Done(i, kind) == ops[i].kind = kind /\ ops[i].at = "done"

\* The tabs that an operation which got as far as that removes.
Removed(t) == \E i \in TabOps : \/ ops[i].kind = "delete" /\ ops[i].tab = t
                                \/ ops[i].kind = "drop"

\* A tab whose addition was answered is in the store, and listed while the server is up,
\* whatever other operations fail and whenever the server dies, until it is deleted.
AddedStays ==
    \A i \in TabOps : Done(i, "add") /\ ~Removed(ops[i].tab)
        => /\ ops[i].tab \in DOMAIN disk.tabs
           /\ phase = "up" => ops[i].tab \in listed

\* What was deleted does not come back: neither the tab nor the workspace, nor a tab in a
\* workspace that is gone, in memory or in the store.
DeletedGone ==
    \A i \in TabOps :
        /\ Done(i, "delete") => /\ ops[i].tab \notin DOMAIN disk.tabs
                                /\ phase = "up" => ops[i].tab \notin listed
        /\ Done(i, "drop") => /\ ops[i].ws \notin disk.spaces
                              /\ \A t \in DOMAIN disk.tabs : disk.tabs[t].ws # ops[i].ws
                              /\ phase = "up" => TabsOf(ops[i].ws) = {}

\* Once the mark of a deletion is in the store no crash brings the shell of the tab back,
\* unless somebody restarted the tab or a write failed.
MarkedStaysDead ==
    \A i \in TabOps :
        /\ ops[i].kind = "delete" /\ ops[i].at \in {"cut", "done"}
        /\ spent.failures = 0
        /\ \A j \in TabOps : ops[j].kind = "restart" => ops[j].tab # ops[i].tab
        => \A s \in sessions : s[1] # ops[i].tab

\* While no write has failed, what is in memory is in the store or a save is due; the one
\* exception is a deletion that failed after its mark was saved, because the workspace of its
\* tab went meanwhile or its session could not be ended.
SavedOrScheduled ==
    phase = "up" /\ spent.failures = 0
    => disk = Document(spaces, listed, tab) \/ flushTimer \/ writes # <<>>
       \/ \E i \in TabOps : ops[i].kind = "delete" /\ ops[i].at = "failed"

\* What was answered about a tab stands, whatever other operations, failures and crashes
\* follow: all of the above.
AnswersStand == AddedStays /\ DeletedGone /\ MarkedStaysDead /\ SavedOrScheduled
=============================================================================
