---------------------------- MODULE ScreenReplay ----------------------------
(***************************************************************************)
(* How the output of one shell reaches the browsers that show it           *)
(* (src/server/src/ws/WsRouter.ts and services/SessionManager.ts).         *)
(*                                                                         *)
(* The server keeps a terminal of its own, the headless one.  Output is    *)
(* written to it first and, once the write is done, routed to the viewers  *)
(* of the session with the sequence number the write got.  A viewer that   *)
(* joins gets a snapshot of the headless terminal, and until it says the   *)
(* snapshot is on its screen a FENCE holds its output back: what the       *)
(* snapshot has is dropped, what is newer follows the acknowledgement.  A  *)
(* resize sends a new snapshot through an open fence, a REPAIR replaces    *)
(* what a viewer shows by a patch and holds its output in the same way,    *)
(* and a failure of the headless terminal (DEGRADED) makes the server fall *)
(* back on the raw output it kept.  Every queue is bounded; a viewer whose *)
(* queue overflows is told to reconnect.                                   *)
(*                                                                         *)
(* Output is chunks numbered from 1, the screen after chunk n is made of   *)
(* chunks 1..n, and a snapshot or a patch brings a viewer that state.      *)
(* A replay or repair token is only ever compared with the one a fence     *)
(* has, so an acknowledgement is of the current snapshot or it is stale.   *)
(* Left out: sizes in bytes (a queue is bounded in chunks), a snapshot too *)
(* big to send, the delivery that a terminal authority takes over, and the *)
(* inputs a fence holds (module TerminalInput has them).                   *)
(***************************************************************************)
EXTENDS Integers, Sequences, FiniteSets

CONSTANTS Viewers,     \* the connections that may show the session
          Clears,      \* the chunks that leave the screen blank
          MaxOutput,   \* chunks the shell writes
          MaxPending,  \* chunks waiting for the headless terminal
          MaxHeld,     \* chunks a fence or a repair holds
          MaxResizes, MaxBreaks, MaxRepairs, MaxReplays, MaxLeaves,
          FailsInRepair \* may the headless terminal fail while a patch is
                        \* on its way to a viewer

ASSUME ScreenReplayAssumption ==
    /\ MaxOutput \in Nat /\ MaxPending \in Nat \ {0} /\ MaxHeld \in Nat
    /\ Clears \subseteq 1..MaxOutput /\ FailsInRepair \in BOOLEAN

VARIABLES
    produced,   \* chunks the shell has written
    headless,   \* the server's terminal: [healthy, writing, shown, seq]
    resizeDue,  \* a resize waits for its snapshots to be sent
    refreshDue, \* a refresh waits until a snapshot can be taken
    view,       \* what the server keeps for each viewer and what it shows
    used       \* how often each bounded thing happened

srVars == <<produced, headless, resizeDue, refreshDue, view, used>>

NoFence  == [mode |-> "none"]
NoRepair == [stage |-> "none"]
Nothing  == [what |-> "none"]

\* A viewer that does not show the session.
Away == [joined |-> FALSE, told |-> FALSE, fence |-> NoFence,
         repair |-> NoRepair, seen |-> <<>>, applying |-> Nothing,
         acks |-> {}, evidence |-> FALSE]

Fenced(v)    == v.fence.mode # "none"
Repairing(v) == v.repair.stage # "none"

First(n) == [i \in 1..n |-> i]
Ids(chunks) == [i \in DOMAIN chunks |-> chunks[i].id]
All(chunks, seq) == chunks

\* Chunks are held in the order of their sequence numbers, so those above seq are the last.
Newer(chunks, seq) ==
    LET older == {i \in DOMAIN chunks : chunks[i].seq <= seq}
    IN  SubSeq(chunks, Cardinality(older) + 1, Len(chunks))

(***************************************************************************)
(* Snapshots.  None can be taken while a chunk is being written, because   *)
(* the terminal and its sequence number disagree until the write is done.  *)
(***************************************************************************)
Snapshot(h) == [ok |-> ~(h.healthy /\ h.writing), healthy |-> h.healthy,
                seq |-> h.seq, shown |-> h.shown,
                blank |-> h.healthy /\ (h.shown = 0 \/ h.shown \in Clears)]

Mode(snap) == IF snap.healthy THEN "authoritative" ELSE "fallback"

\* Every acknowledgement on its way becomes stale when the token changes.
NewToken(v) == [v EXCEPT !.acks = IF @ = {} THEN {} ELSE {"stale"},
                         !.applying = IF @.what = "snapshot"
                                      THEN [@ EXCEPT !.current = FALSE] ELSE @]

Send(v, chunks) == IF v.told THEN v ELSE [v EXCEPT !.seen = @ \o Ids(chunks)]

SendSnapshot(v, snap) ==
    [NewToken(v) EXCEPT !.applying = [what |-> "snapshot", upto |-> snap.shown,
                                      current |-> TRUE]]

\* screen-repair:reconnect-required, after which the browser reconnects.
TellToReconnect(v) ==
    [Away EXCEPT !.joined = v.joined, !.told = TRUE]

\* A chunk joins the queue of a fence, unless the snapshot already has it.
Hold(v, chunk) ==
    IF chunk.seq <= v.fence.seq THEN [v EXCEPT !.fence.covered = TRUE]
    ELSE IF Len(v.fence.held) + Len(v.fence.kept) + 1 > MaxHeld
    THEN TellToReconnect(v)
    ELSE [v EXCEPT !.fence.held = Append(@, chunk)]

\* sendSnapshotReplay: a new fence in place of any other.  Only what was held
\* while no snapshot could be taken, and what a failed repair held, moves in.
SnapshotReplay(v, snap, chunks, repaired) ==
    LET seeds == (IF Fenced(v) /\ v.fence.unsent
                  THEN v.fence.kept \o v.fence.held ELSE <<>>) \o chunks
    IN  [SendSnapshot(v, snap) EXCEPT
            !.fence = [mode |-> Mode(snap), seq |-> snap.seq,
                       held |-> Newer(seeds, snap.seq), kept |-> <<>>,
                       covered |-> Len(Newer(seeds, snap.seq)) < Len(seeds),
                       unsent |-> FALSE, repaired |-> repaired]]

\* markRestoreAuthorityPending: a fence before there is a snapshot.
FenceAhead(v) ==
    IF Fenced(v) THEN v
    ELSE [NewToken(v) EXCEPT
            !.fence = [mode |-> "fallback", seq |-> -1, held |-> <<>>,
                       kept |-> <<>>, covered |-> FALSE, unsent |-> TRUE,
                       repaired |-> FALSE]]

\* startScreenRepairSnapshotRecovery
Recover(v, snap, chunks) ==
    LET bare == [v EXCEPT !.repair = NoRepair]
    IN  IF /\ snap.ok /\ snap.healthy
           /\ Len(Newer(chunks, snap.seq)) <= MaxHeld
        THEN SnapshotReplay(bare, snap, chunks, TRUE)
        ELSE TellToReconnect(v)

(***************************************************************************)
(* routeSessionOutput: one chunk for one viewer.                           *)
(***************************************************************************)
Routed(v, chunk, snap) ==
    IF ~v.joined THEN v
    ELSE IF Fenced(v) THEN Hold(v, chunk)
    ELSE IF ~Repairing(v) THEN Send(v, <<chunk>>)
    ELSE IF Len(v.repair.held) + 1 > MaxHeld
    THEN Recover(v, snap, Append(v.repair.held, chunk))
    ELSE [v EXCEPT !.repair.held = Append(@, chunk)]

(***************************************************************************)
(* refreshReplaySnapshots: a new snapshot for a viewer whose fence is open *)
(* and, when the refresh may start one, for a viewer that has none.        *)
(***************************************************************************)
MaxSeq(chunks) == chunks[Len(chunks)].seq

CoversHeld(f, snap) ==
    /\ ~snap.blank /\ f.held # <<>>
    /\ Mode(snap) = "authoritative" \/ snap.seq >= MaxSeq(f.held)

StillCovers(f, snap) ==
    /\ f.covered /\ ~snap.blank
    /\ Mode(snap) = "authoritative" \/ f.kept = <<>> \/ snap.seq >= MaxSeq(f.kept)

RefreshedFence(f, snap) ==
    LET g == IF CoversHeld(f, snap)
             THEN [f EXCEPT !.kept = @ \o f.held, !.held = <<>>, !.covered = TRUE]
             ELSE f
    IN  [g EXCEPT !.mode = Mode(snap), !.seq = snap.seq]

Refreshed(v, snap, start) ==
    IF ~v.joined THEN v
    ELSE IF ~Fenced(v)
    THEN IF start /\ ~Repairing(v) THEN SnapshotReplay(v, snap, <<>>, FALSE) ELSE v
    ELSE IF v.fence.covered /\ ~StillCovers(v.fence, snap)
    THEN IF v.fence.repaired THEN TellToReconnect(v)
         ELSE [NewToken(v) EXCEPT !.fence = NoFence]
    ELSE [SendSnapshot(v, snap) EXCEPT !.fence = RefreshedFence(v.fence, snap)]

-----------------------------------------------------------------------------
(***************************************************************************)
(* The headless terminal.                                                  *)
(***************************************************************************)
Pending == produced - headless.shown

RouteAll(chunk, h) ==
    [c \in Viewers |-> Routed(view[c], chunk, Snapshot(h))]

\* A failure: everything that waited counts as shown, because the raw output
\* kept for it is what a snapshot has from now on, and every viewer that is
\* not fenced or in a repair gets that snapshot.
Degraded(h, all, seq) == [h EXCEPT !.healthy = FALSE, !.writing = FALSE,
                                   !.shown = all, !.seq = seq]

FailAndRoute(chunk, h) ==
    /\ FailsInRepair \/ \A c \in Viewers : view[c].repair.stage # "sent"
    /\ headless' = h
    /\ view' = [c \in Viewers |->
                  Refreshed(Routed(view[c], chunk, Snapshot(h)), Snapshot(h), TRUE)]

ScreenInit ==
    /\ produced = 0
    /\ headless = [healthy |-> TRUE, writing |-> FALSE, shown |-> 0, seq |-> 0]
    /\ resizeDue = FALSE /\ refreshDue = FALSE
    /\ view = [c \in Viewers |-> Away]
    /\ used = [resizes |-> 0, breaks |-> 0, repairs |-> 0,
                replays |-> 0, leaves |-> 0]

Spend(what, most) == /\ used[what] < most
                     /\ used' = [used EXCEPT ![what] = @ + 1]

\* queueHeadlessOutput: the chunk waits to be written.
Produce ==
    /\ produced < MaxOutput /\ headless.healthy /\ Pending < MaxPending
    /\ produced' = produced + 1
    /\ UNCHANGED <<headless, resizeDue, refreshDue, view, used>>

\* The queue is full: the terminal is given up, then the chunk is routed.
ProduceTooMuch ==
    /\ produced < MaxOutput /\ headless.healthy /\ Pending = MaxPending
    /\ Spend("breaks", MaxBreaks)
    /\ produced' = produced + 1
    /\ FailAndRoute([id |-> produced + 1, seq |-> headless.seq + 2],
                    Degraded(headless, produced + 1, headless.seq + 2))
    /\ UNCHANGED <<resizeDue, refreshDue>>

\* Without the headless terminal output is kept raw and routed at once.
ProduceRaw ==
    /\ produced < MaxOutput /\ ~headless.healthy
    /\ LET h == [headless EXCEPT !.shown = produced + 1, !.seq = @ + 1]
       IN  /\ headless' = h
           /\ view' = RouteAll([id |-> h.shown, seq |-> h.seq], h)
    /\ produced' = produced + 1
    /\ UNCHANGED <<resizeDue, refreshDue, used>>

StartWrite ==
    /\ headless.healthy /\ ~headless.writing /\ Pending > 0
    /\ headless' = [headless EXCEPT !.writing = TRUE]
    /\ UNCHANGED <<produced, resizeDue, refreshDue, view, used>>

\* applyHeadlessOutput: the write is done, the chunk is routed.
EndWrite ==
    /\ headless.writing
    /\ LET h == [headless EXCEPT !.writing = FALSE, !.shown = @ + 1, !.seq = @ + 1]
       IN  /\ headless' = h
           /\ view' = RouteAll([id |-> h.shown, seq |-> h.seq], h)
    /\ UNCHANGED <<produced, resizeDue, refreshDue, used>>

FailWrite ==
    /\ headless.writing /\ Spend("breaks", MaxBreaks)
    /\ FailAndRoute([id |-> headless.shown + 1, seq |-> headless.seq + 1],
                    Degraded(headless, produced, headless.seq + 1))
    /\ UNCHANGED <<produced, resizeDue, refreshDue>>

\* A resize is applied between two writes; its snapshots wait for a quiet
\* moment.
Resize ==
    /\ ~headless.writing /\ Spend("resizes", MaxResizes)
    /\ headless' = [headless EXCEPT !.seq = @ + 1]
    /\ resizeDue' = TRUE
    /\ UNCHANGED <<produced, refreshDue, view>>

RefreshAll(start) ==
    view' = [c \in Viewers |-> Refreshed(view[c], Snapshot(headless), start)]

RefreshResized ==
    /\ resizeDue /\ (headless.healthy => Pending = 0)
    /\ resizeDue' = FALSE
    /\ RefreshAll(FALSE)
    /\ UNCHANGED <<produced, headless, refreshDue, used>>

\* The timer of a refresh that found no snapshot; it may also give up.
RefreshAgain ==
    /\ refreshDue
    /\ refreshDue' = FALSE
    /\ \/ Snapshot(headless).ok /\ RefreshAll(TRUE)
       \/ ~Snapshot(headless).ok /\ UNCHANGED view
    /\ UNCHANGED <<produced, headless, resizeDue, used>>

-----------------------------------------------------------------------------
(***************************************************************************)
(* One viewer.                                                             *)
(***************************************************************************)
Changes(c, v) ==
    /\ view' = [view EXCEPT ![c] = v]
    /\ UNCHANGED <<produced, headless, resizeDue>>

\* A snapshot if one can be taken, else a fence that waits for it.
RestoredView(v, snap) ==
    IF snap.ok THEN SnapshotReplay(v, snap, <<>>, FALSE) ELSE FenceAhead(v)

\* handleSubscribe
Join(c) ==
    /\ ~view[c].joined
    /\ Changes(c, RestoredView([Away EXCEPT !.joined = TRUE], Snapshot(headless)))
    /\ UNCHANGED <<refreshDue, used>>

\* handleDisconnect
Leave(c) ==
    /\ view[c].joined /\ Spend("leaves", MaxLeaves)
    /\ Changes(c, Away)
    /\ UNCHANGED refreshDue

\* scheduleRestoreAuthorityRetry: its timer; at the last attempt the viewer is
\* told that there is no snapshot.
RestoreAgain(c) ==
    /\ Fenced(view[c]) /\ view[c].fence.unsent
    /\ Changes(c, IF Snapshot(headless).ok
                  THEN SnapshotReplay(view[c], Snapshot(headless), <<>>, FALSE)
                  ELSE TellToReconnect(view[c]))
    /\ UNCHANGED <<refreshDue, used>>

\* The browser has put a snapshot on its screen; output that came meanwhile
\* is gone.
Apply(c) ==
    /\ view[c].applying.what = "snapshot"
    /\ Changes(c, [view[c] EXCEPT
                     !.seen = First(view[c].applying.upto),
                     !.acks = @ \cup {IF view[c].applying.current
                                      THEN "current" ELSE "stale"},
                     !.applying = Nothing])
    /\ UNCHANGED <<refreshDue, used>>

MatchesAny(ack) == ack \in {"current", "stale"}
Matches(ack) == ack = "current"

\* What an acknowledgement lets go, in the order it was held.
Released(v) ==
    [Send(v, v.fence.held) EXCEPT
        !.fence = NoFence,
        !.evidence = /\ ~v.fence.repaired /\ v.fence.mode = "authoritative"
                     /\ v.fence.held # <<>>]

\* handleScreenSnapshotReady
Acknowledge(c) ==
    \E ack \in view[c].acks :
        LET v == [view[c] EXCEPT !.acks = @ \ {ack}]
        IN  /\ Changes(c, IF Matches(ack) /\ Fenced(v) THEN Released(v) ELSE v)
            /\ UNCHANGED <<refreshDue, used>>

\* After a tail was let go the server sends one more snapshot, so that it
\* knows the viewer at a boundary.
ReacquireEvidence(c) ==
    /\ view[c].evidence
    /\ LET v == [view[c] EXCEPT !.evidence = FALSE]
           snap == Snapshot(headless)
       IN  /\ Changes(c, IF snap.ok THEN SnapshotReplay(v, snap, <<>>, FALSE) ELSE v)
           /\ refreshDue' = (refreshDue \/ ~snap.ok)
    /\ UNCHANGED used

\* handleReplayAckTimeout
TimeOutAck(c) ==
    /\ Fenced(view[c])
    /\ Changes(c, TellToReconnect(view[c]))
    /\ UNCHANGED <<refreshDue, used>>

\* handleRepairReplay: the browser wants a new snapshot, and names the one it
\* has when its fence is still there.  It no longer wants a repair's patch.
AskReplay(c) ==
    /\ view[c].joined /\ ~view[c].told /\ Spend("replays", MaxReplays)
    /\ Fenced(view[c]) => view[c].fence.seq # -1
    /\ LET v == [view[c] EXCEPT !.applying = IF @.what = "patch" THEN Nothing ELSE @]
           bare == [v EXCEPT !.fence = NoFence]
       IN  Changes(c, IF Fenced(v) /\ v.fence.repaired
                      THEN Recover(bare, Snapshot(headless),
                                   v.fence.kept \o v.fence.held)
                      ELSE RestoredView(bare, Snapshot(headless)))
    /\ UNCHANGED refreshDue

-----------------------------------------------------------------------------
(***************************************************************************)
(* Repairs.                                                                *)
(***************************************************************************)
\* handleScreenRepairRequest up to its wait.
AskRepair(c) ==
    /\ view[c].joined /\ ~view[c].told /\ Spend("repairs", MaxRepairs)
    /\ ~Fenced(view[c]) /\ ~Repairing(view[c])
    /\ view[c].applying = Nothing /\ ~view[c].evidence
    /\ Changes(c, [view[c] EXCEPT !.repair = [stage |-> "asked", seq |-> 0,
                                              held |-> <<>>]])
    /\ UNCHANGED refreshDue

\* The rest of it: a fence that came meanwhile ends the repair, a write in
\* progress turns it into a snapshot, anything else that is wrong ends in a
\* reconnect.
AnswerRepair(c) ==
    /\ view[c].repair.stage = "asked"
    /\ LET v == view[c]
           bare == [v EXCEPT !.repair = NoRepair]
       IN  \/ Fenced(v) /\ Changes(c, bare)
           \/ ~Fenced(v) /\ headless.writing /\ Changes(c, FenceAhead(bare))
           \/ ~Fenced(v) /\ ~headless.writing /\ Changes(c, TellToReconnect(v))
           \/ /\ ~Fenced(v) /\ headless.healthy /\ ~headless.writing
              /\ Changes(c, [v EXCEPT
                    !.repair.stage = "sent", !.repair.seq = headless.seq,
                    !.applying = [what |-> "patch", upto |-> headless.shown]])
    /\ UNCHANGED <<refreshDue, used>>

\* handleScreenRepairReady: the patch is on the screen, what is newer follows.
FinishRepair(c) ==
    /\ view[c].repair.stage = "sent" /\ view[c].applying.what = "patch"
    /\ LET v == [view[c] EXCEPT !.seen = First(view[c].applying.upto),
                                !.applying = Nothing, !.repair = NoRepair]
       IN  Changes(c, Send(v, Newer(view[c].repair.held, view[c].repair.seq)))
    /\ UNCHANGED <<refreshDue, used>>

\* handleScreenRepairFailed and handleScreenRepairAckTimeout: a snapshot in
\* place of the patch, or, when the patch could not be parsed, a reconnect.
FailRepair(c) ==
    /\ view[c].repair.stage = "sent"
    /\ \/ Changes(c, Recover([view[c] EXCEPT !.applying =
                                IF @.what = "patch" THEN Nothing ELSE @],
                             Snapshot(headless), view[c].repair.held))
       \/ Changes(c, TellToReconnect(view[c]))
    /\ UNCHANGED <<refreshDue, used>>

ViewerStep(c) ==
    \/ Join(c) \/ Leave(c) \/ RestoreAgain(c) \/ Apply(c) \/ Acknowledge(c)
    \/ ReacquireEvidence(c) \/ TimeOutAck(c) \/ AskReplay(c)
    \/ AskRepair(c) \/ AnswerRepair(c) \/ FinishRepair(c) \/ FailRepair(c)

ScreenNext ==
    \/ Produce \/ ProduceTooMuch \/ ProduceRaw
    \/ StartWrite \/ EndWrite \/ FailWrite
    \/ Resize \/ RefreshResized \/ RefreshAgain
    \/ \E c \in Viewers : ViewerStep(c)

ScreenSpec == ScreenInit /\ [][ScreenNext]_srVars

-----------------------------------------------------------------------------
\* What a screen shows after a sequence of chunks: all since the last clear.
Shows(ids) ==
    LET clears == {i \in DOMAIN ids : ids[i] \in Clears}
    IN  IF clears = {} THEN ids
        ELSE SubSeq(ids, CHOOSE i \in clears : \A j \in clears : j <= i, Len(ids))

\* What a viewer will show once it has applied all it was sent and all that
\* waits for it has followed.
WillShow(v) ==
    (IF v.applying = Nothing THEN v.seen ELSE First(v.applying.upto))
    \o (IF Fenced(v) THEN Ids(v.fence.held)
        ELSE IF Repairing(v) THEN Ids(Newer(v.repair.held, v.repair.seq))
        ELSE <<>>)

\* A fence without its snapshot, a repair without its patch, or with one the
\* browser gave up: what comes next brings the viewer all there is.
Promised(v) ==
    \/ Fenced(v) /\ v.fence.seq = -1
    \/ ~Fenced(v) /\ Repairing(v) /\ v.applying.what # "patch"

\* No chunk that was routed is missing from, repeated on, or out of order on
\* the screen of a viewer that was not told to reconnect, whatever snapshots,
\* repairs, refreshes and timeouts came between.
NothingLostOrTwice ==
    \A c \in Viewers :
        LET v == view[c]
        IN  v.joined /\ ~v.told /\ ~Promised(v)
            => Shows(WillShow(v)) = Shows(First(headless.shown))

\* While a viewer puts a snapshot on its screen no output is sent to it, or it
\* would be overwritten.
QuietWhileApplying ==
    [][\A c \in Viewers :
          view[c].applying.what = "snapshot" /\ view'[c].applying = view[c].applying
          => view'[c].seen = view[c].seen]_srVars
=============================================================================
