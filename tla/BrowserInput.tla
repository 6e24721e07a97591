---------------------------- MODULE BrowserInput ----------------------------
(***************************************************************************)
(* What is typed into one terminal of the browser, on its way to the       *)
(* socket.  TerminalView holds it while the terminal is not ready, the     *)
(* sequencer gathers printable characters for a few milliseconds, and the  *)
(* outbox of TerminalContainer keeps what the socket did not take.         *)
(*                                                                         *)
(* JavaScript runs to completion: an event fills `turn' with the calls it  *)
(* makes, the steps below carry them out in order, and no other event      *)
(* happens before the turn is over.                                        *)
(***************************************************************************)
EXTENDS Naturals, Sequences, FiniteSets, SequencesExt

CONSTANTS
    MaxTyped,       \* bound: inputs that are typed
    MaxRefused,     \* bound: sends that an open socket refuses
    MaxDisturbed,   \* bound: events that make the terminal unready
    MAX_INPUT_SEQUENCE_SPAN,
    inputQueueMaxBytes,
    transportOutboxMaxBytes     \* an input counts as one byte

ASSUME BrowserAssumption ==
    {MaxTyped, MaxRefused, MaxDisturbed, MAX_INPUT_SEQUENCE_SPAN,
     inputQueueMaxBytes, transportOutboxMaxBytes} \subseteq Nat

VARIABLES
    typed,      \* the inputs: whether one is a boundary such as Enter, and its generation
    pendingInputQueue,  \* TerminalView: [id, gen, late], the oldest first
    gate,       \* TerminalView: "open", "blocked" or "closed"
    seen,       \* TerminalView: [ready, closed, gen] as last told by TerminalContainer
    restoring,  \* TerminalView holds inputs for reasons of its own (restore, geometry)
    pending,    \* sequencer: the characters it gathers
    timer,      \* sequencer: the coalesce timer is armed
    at,         \* TerminalContainer: its refs
    outbox,     \* TerminalContainer: [ids, gen, late]
    retry,      \* TerminalContainer: a timer that will flush the outbox is armed
    onWire,     \* what the socket took: [ids, gen], in that order
    rejected,   \* inputs that were given up
    turn,       \* calls of the event under way that are still to be made
    spentOn     \* [refusals, disturbances]

viewVars == <<pendingInputQueue, gate, seen, restoring>>
sequencerVars == <<pending, timer>>
outVars == <<outbox, retry, onWire, rejected>>
browserVars == <<typed, viewVars, sequencerVars, at, outVars, turn, spentOn>>

TypedIds == 1 .. Len(typed)
Failures == {"missing-token", "stale-socket", "client-backpressure",
             "client-hard-backpressure", "send-failed"}

\* The elements of q at the positions in kept.
Pick(q, kept) ==
    [n \in 1 .. Cardinality(kept) |->
        q[CHOOSE i \in kept : Cardinality({j \in kept : j <= i}) = n]]

IdsIn(q) == UNION {ToSet(q[i].ids) : i \in DOMAIN q}
ViewIds(q) == {q[i].id : i \in DOMAIN q}

BrowserInit ==
    /\ typed = <<>>
    /\ pendingInputQueue = <<>> /\ gate = "open" /\ restoring = FALSE
    /\ seen = [ready |-> TRUE, closed |-> "none", gen |-> 0]
    /\ pending = <<>> /\ timer = FALSE
    /\ at = [status |-> "connected", stale |-> FALSE, effect |-> FALSE, reconnect |-> "none",
             ready |-> TRUE, closed |-> "none", gen |-> 0, visible |-> TRUE,
             recovering |-> FALSE]
    /\ outbox = <<>> /\ retry = FALSE /\ onWire = <<>> /\ rejected = {}
    /\ turn = <<>>
    /\ spentOn = [refusals |-> 0, disturbances |-> 0]

-----------------------------------------------------------------------------
\* The calls of a turn.

Call(name) == [call |-> name]
Calls(name) == turn # <<>> /\ Head(turn).call = name
Then(calls) == turn' = calls \o Tail(turn)

\* The condition under which an input or the outbox goes to the socket.
CanSend ==
    /\ at.ready /\ at.closed = "none" /\ at.status = "connected"
    /\ at.visible /\ ~at.recovering

\* classifyTransportQueueDecision: what cannot be sent is queued, or else rejected.
Queues(failure) ==
    /\ at.visible /\ at.closed = "none" /\ failure # "missing-token"
    /\ \/ failure \in {"client-backpressure", "client-hard-backpressure"}
       \/ failure = "stale-socket" /\ at.reconnect # "over"
       \/ /\ failure \in {"none", "send-failed"}
          /\ \/ at.recovering
             \/ at.status = "reconnecting" /\ at.reconnect # "over"
             \/ at.status = "connected" /\ (failure = "send-failed" \/ ~at.ready)

\* It notes when the reconnect began, if nobody has yet; a send that overfills the buffer
\* has the socket closed.
StartsReconnect(failure) ==
    /\ at.visible /\ at.closed = "none" /\ at.reconnect = "none"
    /\ \/ failure = "stale-socket"
       \/ failure = "none" /\ at.status = "reconnecting" /\ ~at.recovering

Classified(failure) ==
    [at EXCEPT !.reconnect = IF StartsReconnect(failure) THEN "short" ELSE @,
               !.stale = @ \/ failure = "client-hard-backpressure"]

\* The number of entries, the oldest, that make room until the bytes of the rest fit.
Dropped(sizes, max) ==
    LET bytesAfter(k) == UNION {{i} \X (1 .. sizes[i]) : i \in k + 1 .. Len(sizes)}
    IN  Min({k \in 0 .. Len(sizes) : Cardinality(bytesAfter(k)) <= max})

\* enqueueTransportInput
Enqueue(ids) ==
    LET q == Append(outbox, [ids |-> ids, gen |-> at.gen, late |-> FALSE])
        k == Dropped([i \in DOMAIN q |-> Len(q[i].ids)], transportOutboxMaxBytes)
    IN  IF Len(ids) > transportOutboxMaxBytes
        THEN rejected' = rejected \cup ToSet(ids) /\ UNCHANGED outbox
        ELSE /\ outbox' = SubSeq(q, k + 1, Len(q))
             /\ rejected' = rejected \cup IdsIn(SubSeq(q, 1, k))

Reject(ids) == rejected' = rejected \cup ids

\* syncInputTransportState: the view is told; a lost link closes the transport.
SyncTransport ==
    /\ Calls("sync")
    /\ LET over == at.status = "reconnecting" /\ at.reconnect = "over"
           ends == at.closed = "none" /\ (at.status = "disconnected" \/ over)
           now == [at EXCEPT
                     !.closed = CASE ends -> "link"
                                  [] at.status = "connected" /\ @ = "link" -> "none"
                                  [] OTHER -> @,
                     !.gen = IF ends THEN @ + 1 ELSE @,
                     !.reconnect = CASE at.status = "connected" -> "none"
                                     [] at.status = "reconnecting" /\ at.closed = "none"
                                        /\ @ = "none" -> "short"
                                     [] OTHER -> @]
       IN  /\ at' = now
           /\ seen' = [ready |-> now.ready /\ now.status = "connected" /\ ~now.recovering,
                       closed |-> now.closed, gen |-> now.gen]
    /\ Then(<<Call("gate")>>)
    /\ UNCHANGED <<typed, pendingInputQueue, gate, restoring, sequencerVars, outVars, spentOn>>

Capture ==
    CASE ~at.visible \/ seen.closed # "none" -> "closed"
      [] at.visible /\ seen.closed = "none" /\ (restoring \/ ~seen.ready) -> "blocked"
      [] OTHER -> "open"

\* What the view held goes on as long as its session generation lasts.
HeldStillValid ==
    {i \in DOMAIN pendingInputQueue :
        pendingInputQueue[i].gen = seen.gen /\ ~pendingInputQueue[i].late}

\* syncInputReadiness: the gate opens and what waits before it goes on, or it closes.
SyncGate ==
    /\ Calls("gate")
    /\ gate' = Capture
    /\ LET kept == IF Capture = "open" THEN Pick(pendingInputQueue, HeldStillValid) ELSE <<>>
       IN  IF Capture = "blocked"
           THEN Then(<<>>) /\ UNCHANGED <<pendingInputQueue, rejected>>
           ELSE /\ Then([i \in DOMAIN kept |-> [call |-> "submit", id |-> kept[i].id]])
                /\ Reject(ViewIds(pendingInputQueue) \ ViewIds(kept))
                /\ pendingInputQueue' = <<>>
    /\ UNCHANGED <<typed, seen, restoring, sequencerVars, at, outbox, retry, onWire, spentOn>>

Emit(ids) == [call |-> "deliver", ids |-> ids]

EmitPending == IF pending = <<>> THEN <<>> ELSE <<Emit(pending)>>
NothingPending == pending' = <<>> /\ timer' = FALSE

\* A boundary is sent by itself, after what was gathered.
SubmitBoundary ==
    /\ Calls("submit") /\ typed[Head(turn).id].boundary
    /\ Then(EmitPending \o <<Emit(<<Head(turn).id>>)>>)
    /\ NothingPending
    /\ UNCHANGED <<typed, viewVars, at, outVars, spentOn>>

SpanIsFull == Len(pending) >= MAX_INPUT_SEQUENCE_SPAN

\* Mutant of scheduleFlush: the timer is armed when the span is full.
scheduleWhenFull == Len(pending) + 1 = MAX_INPUT_SEQUENCE_SPAN

scheduleFlush == TRUE

SubmitCharacter ==
    /\ Calls("submit") /\ ~typed[Head(turn).id].boundary
    /\ IF SpanIsFull
       THEN turn' = EmitPending \o turn /\ NothingPending
       ELSE /\ Then(<<>>)
            /\ pending' = Append(pending, Head(turn).id)
            /\ timer' = scheduleFlush
    /\ UNCHANGED <<typed, viewVars, at, outVars, spentOn>>

FlushSequencer ==
    /\ Calls("flushSequencer")
    /\ Then(EmitPending)
    /\ NothingPending
    /\ UNCHANGED <<typed, viewVars, at, outVars, spentOn>>

OnWire(ids) == onWire' = Append(onWire, [ids |-> ids, gen |-> at.gen])

\* deliverSequencedInput: straight to the socket, whatever the outbox holds.
DeliverSent ==
    /\ Calls("deliver") /\ CanSend /\ ~at.stale
    /\ OnWire(Head(turn).ids)
    /\ Then(<<>>)
    /\ UNCHANGED <<typed, viewVars, sequencerVars, at, outbox, retry, rejected, spentOn>>

Disturbs == /\ spentOn.disturbances < MaxDisturbed
            /\ spentOn' = [spentOn EXCEPT !.disturbances = @ + 1]

\* A socket that is closing refuses everything; another may refuse too.
Refuses(failure) ==
    /\ failure = "stale-socket" <=> at.stale
    /\ \/ at.stale /\ UNCHANGED spentOn
       \/ /\ ~at.stale /\ failure # "client-hard-backpressure"
          /\ spentOn.refusals < MaxRefused
          /\ spentOn' = [spentOn EXCEPT !.refusals = @ + 1]
       \/ ~at.stale /\ failure = "client-hard-backpressure" /\ Disturbs

DeliverRefused(failure) ==
    /\ Calls("deliver") /\ CanSend /\ Refuses(failure)
    /\ at' = Classified(failure)
    /\ IF Queues(failure)
       THEN Enqueue(Head(turn).ids) /\ retry' = TRUE
       ELSE Reject(ToSet(Head(turn).ids)) /\ UNCHANGED <<outbox, retry>>
    /\ Then(<<>>)
    /\ UNCHANGED <<typed, viewVars, sequencerVars, onWire>>

DeliverHeld ==
    /\ Calls("deliver") /\ ~CanSend
    /\ at' = Classified("none")
    /\ IF Queues("none")
       THEN Enqueue(Head(turn).ids)
       ELSE Reject(ToSet(Head(turn).ids)) /\ UNCHANGED outbox
    /\ Then(<<>>)
    /\ UNCHANGED <<typed, viewVars, sequencerVars, retry, onWire, spentOn>>

\* rejectTransportOutbox
RejectOutbox ==
    /\ Calls("rejectOutbox")
    /\ Reject(IdsIn(outbox))
    /\ outbox' = <<>>
    /\ Then(<<>>)
    /\ UNCHANGED <<typed, viewVars, sequencerVars, at, retry, onWire, spentOn>>

Flushed == Head(Head(turn).entries)
FlushEntries(q) == IF q = <<>> THEN <<>> ELSE <<[call |-> "flushEntries", entries |-> q]>>
FlushRest == FlushEntries(Tail(Head(turn).entries))

\* flushTransportOutbox: takes the entries out and goes through them.
FlushOutbox ==
    /\ Calls("flushOutbox")
    /\ \/ /\ outbox = <<>> \/ CanSend
          /\ Then(FlushEntries(outbox))
          /\ outbox' = <<>> /\ UNCHANGED <<at, rejected>>
       \/ /\ outbox # <<>> /\ ~CanSend
          /\ at' = Classified("none")
          /\ IF Queues("none")
             THEN UNCHANGED <<outbox, rejected>>
             ELSE Reject(IdsIn(outbox)) /\ outbox' = <<>>
          /\ Then(<<>>)
    /\ UNCHANGED <<typed, viewVars, sequencerVars, retry, onWire, spentOn>>

\* Mutant of StillValid: an entry of an earlier session generation is sent.
OnlyInTime(e) == ~e.late

StillValid(e) == e.gen = at.gen /\ ~e.late

FlushDrops ==
    /\ Calls("flushEntries") /\ ~StillValid(Flushed)
    /\ Reject(ToSet(Flushed.ids))
    /\ Then(FlushRest)
    /\ UNCHANGED <<typed, viewVars, sequencerVars, at, outbox, retry, onWire, spentOn>>

FlushSends ==
    /\ Calls("flushEntries") /\ StillValid(Flushed) /\ ~at.stale
    /\ OnWire(Flushed.ids)
    /\ Then(FlushRest)
    /\ UNCHANGED <<typed, viewVars, sequencerVars, at, outbox, retry, rejected, spentOn>>

\* Mutant of restored: the refused entry goes to the end.
restoredLast == outbox \o Tail(Head(turn).entries) \o <<Flushed>>

\* restoreTransportOutboxFront
restored == Head(turn).entries \o outbox

FlushRefused(failure) ==
    /\ Calls("flushEntries") /\ StillValid(Flushed) /\ Refuses(failure)
    /\ at' = Classified(failure)
    /\ IF Queues(failure)
       THEN /\ outbox' = restored /\ retry' = TRUE
            /\ UNCHANGED rejected
       ELSE /\ Reject(IdsIn(Head(turn).entries))
            /\ UNCHANGED <<outbox, retry>>
    /\ Then(<<>>)
    /\ UNCHANGED <<typed, viewVars, sequencerVars, onWire>>

Close(reason) == [call |-> "markClosed", reason |-> reason]

\* markTransportClosed: a lost link does not hide another reason.
MarkClosed ==
    /\ Calls("markClosed")
    /\ LET reason == Head(turn).reason
           stays == at.closed = reason \/ (reason = "link" /\ at.closed # "none")
       IN  at' = IF stays THEN at ELSE [at EXCEPT !.closed = reason, !.gen = @ + 1]
    /\ Then(<<>>)
    /\ UNCHANGED <<typed, viewVars, sequencerVars, outVars, spentOn>>

TurnStep ==
    \/ SyncTransport \/ SyncGate
    \/ SubmitBoundary \/ SubmitCharacter \/ FlushSequencer
    \/ DeliverSent \/ DeliverHeld \/ \E f \in Failures : DeliverRefused(f)
    \/ RejectOutbox \/ FlushOutbox \/ FlushDrops \/ FlushSends
    \/ \E f \in Failures : FlushRefused(f)
    \/ MarkClosed

-----------------------------------------------------------------------------
\* The events.  None happens during a turn, or after the terminal was taken down.

TurnIsOver == turn = <<>> /\ at.closed # "detached"

flushTransportPipeline == <<Call("flushSequencer"), Call("flushOutbox")>>

\* The oldest inputs are given up for a new one.
enqueuePendingInput(id) ==
    LET q == Append(pendingInputQueue, [id |-> id, gen |-> seen.gen, late |-> FALSE])
        k == Dropped([i \in DOMAIN q |-> 1], inputQueueMaxBytes)
    IN  pendingInputQueue' = SubSeq(q, k + 1, Len(q)) /\ Reject(ViewIds(SubSeq(q, 1, k)))

\* submitCapturedInputDirect asks the gate as it was last computed.
transportReady == gate = "open"

\* A key is pressed, or something pasted.
Type(boundary) ==
    /\ TurnIsOver /\ Len(typed) < MaxTyped
    /\ typed' = Append(typed, [boundary |-> boundary, gen |-> seen.gen])
    /\ LET id == Len(typed) + 1 IN
       \/ /\ transportReady
          /\ turn' = <<[call |-> "submit", id |-> id]>>
          /\ UNCHANGED <<pendingInputQueue, rejected>>
       \/ ~transportReady /\ gate = "blocked" /\ enqueuePendingInput(id) /\ UNCHANGED turn
       \/ ~transportReady /\ gate = "closed" /\ Reject({id}) /\ UNCHANGED <<pendingInputQueue, turn>>
    /\ UNCHANGED <<gate, seen, restoring, sequencerVars, at, outbox, retry, onWire, spentOn>>

CoalesceTimer ==
    /\ TurnIsOver /\ timer
    /\ turn' = EmitPending
    /\ NothingPending
    /\ UNCHANGED <<typed, viewVars, at, outVars, spentOn>>

\* Several of these timers may be armed; if so, it stays armed.
RetryTimer ==
    /\ TurnIsOver /\ retry
    /\ retry' \in BOOLEAN
    /\ turn' = <<Call("flushOutbox")>>
    /\ UNCHANGED <<typed, viewVars, sequencerVars, at, outbox, onWire, rejected, spentOn>>

\* The time of an entry ends.  Those of the view have one time to live; those of the outbox
\* have a longer one if the link was lost.
ViewEntryLate ==
    /\ TurnIsOver
    /\ \E i \in DOMAIN pendingInputQueue :
          /\ ~pendingInputQueue[i].late
          /\ \A j \in 1 .. i - 1 : pendingInputQueue[j].late
          /\ pendingInputQueue' = [pendingInputQueue EXCEPT ![i].late = TRUE]
    /\ UNCHANGED <<typed, gate, seen, restoring, sequencerVars, at, outVars, turn, spentOn>>

OutboxEntryLate(i) ==
    /\ TurnIsOver /\ i \in DOMAIN outbox /\ ~outbox[i].late
    /\ outbox' = [outbox EXCEPT ![i].late = TRUE]
    /\ UNCHANGED <<typed, viewVars, sequencerVars, at, retry, onWire, rejected, turn, spentOn>>

\* expirePendingInputQueue: what contains Enter is given up, the rest waits for the barrier.
ExpireView ==
    /\ TurnIsOver
    /\ LET over(e) == e.late /\ (typed[e.id].boundary \/ gate # "blocked")
           kept == Pick(pendingInputQueue,
                     {i \in DOMAIN pendingInputQueue : ~over(pendingInputQueue[i])})
       IN  /\ kept # pendingInputQueue
           /\ pendingInputQueue' = kept
           /\ Reject(ViewIds(pendingInputQueue) \ ViewIds(kept))
    /\ UNCHANGED <<typed, gate, seen, restoring, sequencerVars, at, outbox, retry, onWire,
                   turn, spentOn>>

\* The timer of scheduleTransportOutboxExpiry; each entry armed one.
ExpireOutbox ==
    /\ TurnIsOver
    /\ LET kept == Pick(outbox, {i \in DOMAIN outbox : ~outbox[i].late})
       IN  /\ kept # outbox
           /\ outbox' = kept
           /\ Reject(IdsIn(outbox) \ IdsIn(kept))
    /\ UNCHANGED <<typed, viewVars, sequencerVars, at, retry, onWire, turn, spentOn>>

\* The socket closes, or is made to; React learns of it later.
SocketCloses ==
    /\ TurnIsOver /\ at.status = "connected" /\ ~at.stale /\ Disturbs
    /\ at' = [at EXCEPT !.stale = TRUE]
    /\ UNCHANGED <<typed, viewVars, sequencerVars, outVars, turn>>

\* React renders with another status of the socket; the effect follows later.  To connect
\* again takes far longer than characters are gathered.
RenderStatus(status) ==
    /\ TurnIsOver /\ ~at.effect /\ status # at.status
    /\ status = "connected" => ~timer
    /\ at.status = "connected" => at.stale
    /\ at' = [at EXCEPT !.status = status, !.effect = TRUE, !.stale = FALSE]
    /\ UNCHANGED <<typed, viewVars, sequencerVars, outVars, turn, spentOn>>

ConnectedEffect ==
    /\ TurnIsOver /\ at.effect /\ at.status = "connected"
    /\ at' = [at EXCEPT !.effect = FALSE, !.reconnect = "none",
                        !.closed = IF @ = "link" THEN "none" ELSE @]
    /\ turn' = <<Call("sync")>> \o flushTransportPipeline
    /\ UNCHANGED <<typed, viewVars, sequencerVars, outVars, spentOn>>

\* dropVisibleOutputRecoveryForTransportReset: a convergence is over, a recovery is not.
StillRecovering == IF at.recovering THEN BOOLEAN ELSE {FALSE}

ReconnectingEffect ==
    /\ TurnIsOver /\ at.effect /\ at.status = "reconnecting"
    /\ \E still \in StillRecovering :
          at' = [at EXCEPT !.effect = FALSE, !.recovering = still,
                           !.reconnect = IF @ = "none" THEN "short" ELSE @]
    /\ turn' = <<Call("sync")>>
    /\ UNCHANGED <<typed, viewVars, sequencerVars, outVars, spentOn>>

\* What follows a loss for good: the transport is closed, and nothing is kept.
Closing(reason) ==
    <<Close(reason), Call("sync")>> \o flushTransportPipeline \o <<Call("rejectOutbox")>>

DisconnectedEffect ==
    /\ TurnIsOver /\ at.effect /\ at.status = "disconnected"
    /\ \E still \in StillRecovering : at' = [at EXCEPT !.effect = FALSE, !.recovering = still]
    /\ turn' = <<Call("sync")>> \o Closing("link")
    /\ UNCHANGED <<typed, viewVars, sequencerVars, outVars, spentOn>>

\* The reconnect takes longer than RECONNECT_INPUT_QUEUE_TTL_MS, far longer than an effect
\* waits or characters are gathered; 25 ms later its timer fires.
ReconnectOver ==
    /\ TurnIsOver /\ at.reconnect = "short" /\ ~timer /\ ~at.effect
    /\ at' = [at EXCEPT !.reconnect = "over"]
    /\ UNCHANGED <<typed, viewVars, sequencerVars, outVars, turn, spentOn>>

ReconnectTimer ==
    /\ TurnIsOver /\ at.reconnect = "over" /\ at.status = "reconnecting" /\ ~at.effect
    /\ turn' = Closing("link")
    /\ UNCHANGED <<typed, viewVars, sequencerVars, at, outVars, spentOn>>

\* Any render tells the view anew.
RenderSync ==
    /\ TurnIsOver
    /\ turn' = <<Call("sync")>>
    /\ UNCHANGED <<typed, viewVars, sequencerVars, at, outVars, spentOn>>

\* handleSubscribed, and handleSessionReady with isReady: the server follows the screen.
Subscribed(isReady) ==
    /\ TurnIsOver /\ at.status = "connected"
    /\ at' = [at EXCEPT !.ready = isReady, !.closed = IF isReady THEN "none" ELSE @]
    /\ turn' = <<Call("sync")>> \o (IF isReady THEN flushTransportPipeline ELSE <<>>)
    /\ UNCHANGED <<typed, viewVars, sequencerVars, outVars, spentOn>>

\* handleSessionReady while output is recovered: no flush before the recovery is over.
ReadyInRecovery ==
    /\ TurnIsOver /\ at.status = "connected" /\ at.recovering
    /\ at' = [at EXCEPT !.ready = TRUE, !.closed = "none"]
    /\ turn' = <<Call("sync")>>
    /\ UNCHANGED <<typed, viewVars, sequencerVars, outVars, spentOn>>

RecoveryStarts ==
    /\ TurnIsOver /\ ~at.recovering /\ Disturbs
    /\ \E ready \in {at.ready, FALSE} : at' = [at EXCEPT !.recovering = TRUE, !.ready = ready]
    /\ turn' = <<Call("sync")>>
    /\ UNCHANGED <<typed, viewVars, sequencerVars, outVars>>

\* A convergence ends or fails: nothing is flushed.
ConvergenceOver ==
    /\ TurnIsOver /\ at.recovering
    /\ \E ready \in {at.ready, FALSE} : at' = [at EXCEPT !.recovering = FALSE, !.ready = ready]
    /\ turn' = <<Call("sync")>>
    /\ UNCHANGED <<typed, viewVars, sequencerVars, outVars, spentOn>>

\* finishVisibleOutputRecoveryIfPending
RecoveryFinished ==
    /\ TurnIsOver /\ at.recovering
    /\ at' = [at EXCEPT !.recovering = FALSE]
    /\ turn' = <<Call("sync"), Call("flushOutbox")>>
    /\ UNCHANGED <<typed, viewVars, sequencerVars, outVars, spentOn>>

\* The tab is hidden or shown; the view hears of it with the next render.
ShowOrHide ==
    /\ TurnIsOver
    /\ IF at.visible THEN Disturbs ELSE UNCHANGED spentOn
    /\ at' = [at EXCEPT !.visible = ~@]
    /\ UNCHANGED <<typed, viewVars, sequencerVars, outVars, turn>>

\* TerminalView restores a screen, or waits for its size.
Restore ==
    /\ TurnIsOver
    /\ IF restoring THEN UNCHANGED spentOn ELSE Disturbs
    /\ restoring' = ~restoring
    /\ turn' = <<Call("gate")>>
    /\ UNCHANGED <<typed, pendingInputQueue, gate, seen, sequencerVars, at, outVars>>

\* handleError: the server has given the session up, for now or for good.
SessionError ==
    /\ TurnIsOver /\ Disturbs
    /\ at' = [at EXCEPT !.ready = FALSE]
    /\ turn' = Closing("error")
    /\ UNCHANGED <<typed, viewVars, sequencerVars, outVars>>

\* The terminal is taken down.
Detach ==
    /\ TurnIsOver /\ Disturbs
    /\ at' = [at EXCEPT !.recovering = FALSE]
    /\ turn' = Closing("detached")
    /\ UNCHANGED <<typed, viewVars, sequencerVars, outVars>>

BrowserEvent ==
    \/ \E boundary \in BOOLEAN : Type(boundary)
    \/ CoalesceTimer \/ RetryTimer \/ ExpireView \/ ExpireOutbox
    \/ ViewEntryLate \/ \E i \in 1 .. MaxTyped : OutboxEntryLate(i)
    \/ SocketCloses \/ \E s \in {"connected", "reconnecting", "disconnected"} : RenderStatus(s)
    \/ ConnectedEffect \/ ReconnectingEffect \/ DisconnectedEffect
    \/ ReconnectOver \/ ReconnectTimer \/ RenderSync
    \/ \E isReady \in BOOLEAN : Subscribed(isReady)
    \/ ReadyInRecovery \/ RecoveryStarts \/ ConvergenceOver \/ RecoveryFinished
    \/ ShowOrHide \/ Restore \/ SessionError \/ Detach

BrowserNext == TurnStep \/ BrowserEvent

BrowserSpec == BrowserInit /\ [][BrowserNext]_browserVars

\* A turn is carried out; and time passes and timers that are due fire, between the turns
\* of other events, however many there are.
BrowserFairness ==
    /\ WF_browserVars(TurnStep)
    /\ SF_browserVars(CoalesceTimer \/ OutboxEntryLate(1) \/ ExpireOutbox)

-----------------------------------------------------------------------------
Sent == IdsIn(onWire)
Passed == ToSet(pending) \cup IdsIn(outbox) \cup Sent

Ascends(ids) == \A i, j \in DOMAIN ids : i < j => ids[i] < ids[j]
Before(older, newer) == \A a \in older, b \in newer : a < b
EntriesInOrder(q) ==
    \A j \in DOMAIN q :
        Ascends(q[j].ids) /\ \A i \in 1 .. j - 1 : Before(ToSet(q[i].ids), ToSet(q[j].ids))

\* What waits in the outbox keeps its order, and so do the characters that are gathered,
\* whatever was refused and put back.  (What is sent need not keep it: while an input that
\* was refused waits in the outbox, deliverSequencedInput sends the next one at once.)
OutboxInOrder ==
    turn = <<>> =>
        EntriesInOrder(outbox) /\ Ascends(pending) /\ Before(IdsIn(outbox), ToSet(pending))

\* Nothing overtakes what the view holds: every input that has passed its gate is older.
ViewKeepsOrder == turn = <<>> => Before(Passed, ViewIds(pendingInputQueue))

\* The places of an input: each is named, with its position there.
PlacesIn(name, q, id) ==
    UNION {{<<name, i, j>> : j \in {k \in DOMAIN q[i].ids : q[i].ids[k] = id}} : i \in DOMAIN q}
Places(id) ==
    PlacesIn("outbox", outbox, id) \cup PlacesIn("sent", onWire, id)
    \cup {<<"pending", i, 1>> : i \in {k \in DOMAIN pending : pending[k] = id}}
    \cup {<<"view", i, 1>> : i \in {k \in DOMAIN pendingInputQueue : pendingInputQueue[k].id = id}}
    \cup {<<"rejected", 1, 1>> : n \in {id} \cap rejected}

\* No input vanishes and none is sent twice: between turns each is in exactly one place.
EachInOnePlace ==
    turn = <<>> =>
        /\ Passed \cup ViewIds(pendingInputQueue) \cup rejected \subseteq TypedIds
        /\ \A id \in TypedIds : \E place \in Places(id) : Places(id) = {place}

\* What is held back is held in its place: all of the above.
HeldInPlace == OutboxInOrder /\ ViewKeepsOrder /\ EachInOnePlace

\* An input is sent in the session generation it was typed in: what was typed before the
\* link was given up, or the session failed, is not sent into what comes after.
SentInItsGeneration ==
    \A i \in DOMAIN onWire : \A id \in ToSet(onWire[i].ids) : typed[id].gen = onWire[i].gen

\* What has passed the gate of the view is sent or given up at last.
PassedSettles ==
    \A id \in 1 .. MaxTyped :
        id \in ToSet(pending) \cup IdsIn(outbox)
        ~> id \in Sent \cup rejected
=============================================================================
