---------------------------- MODULE TerminalInput ----------------------------
(***************************************************************************)
(* The way of terminal input from a browser to the PTY of one session      *)
(* (server/src/ws/WsRouter.ts): the WebSocket of each client, the replay   *)
(* fence that holds input back while the client repaints its screen, the   *)
(* input ledger, the input gateway and the PTY.                            *)
(*                                                                         *)
(* A client numbers its inputs 1, 2, 3, ... within one sequencer epoch.    *)
(* When it has reconnected it may go back and send again, in order, what   *)
(* it sent on the connection it lost.                                      *)
(***************************************************************************)
EXTENDS InputLedgerEntry, Sequences

CONSTANTS
    Clients,        \* logical clients
    Legacy,         \* those that send no logicalClientId
    Bytes,          \* the payload of every input
    MaxQueued,      \* MAX_REPLAY_QUEUED_INPUT_BYTES, in inputs
    MaxConnections, \* bound of the model: connections of a client
    MaxTokens,      \* bound of the model: replay tokens of a connection
    MaxInFlight     \* bound of the model: messages under way to the server

ASSUME InputAssumption ==
    /\ Operations = 1 .. MaxStart
    /\ Sequenced = Operations
    /\ \A o \in Operations : Sequence[o].start = o
    /\ Legacy \subseteq Clients
    /\ Bytes \in Payloads
    /\ {MaxQueued, MaxConnections, MaxTokens, MaxInFlight} \subseteq Nat

VARIABLES
    live,       \* the session exists
    socket,     \* state of the client's WebSocket, as the server sees it
    channel,    \* messages under way from the client
    meta,       \* WsClientMeta: the server's record of the connection
    ledger,     \* the client's entry of the input ledger
    client,     \* what the client has sent
    received,   \* history: how often handleInput was given an operation
    log         \* history: what became of them, in order

vars == <<live, socket, channel, meta, ledger, client, received, log>>

NoPending == [token |-> 0]
NewMeta == [subscribed |-> FALSE, replayPending |-> NoPending,
            screenRepair |-> FALSE, tokens |-> 0, snapshots |-> {}]

SocketState == {"open", "closing", "closed"}

Meta == [subscribed : BOOLEAN, screenRepair : BOOLEAN, tokens : 0 .. MaxTokens,
         snapshots : SUBSET (1 .. MaxTokens),
         replayPending : {NoPending} \cup
             [token : 1 .. MaxTokens, authority : BOOLEAN, inputs : Seq(Operations)]]

Message == [type : {"input"}, op : Operations]
           \cup [type : {"snapshot:ready", "repair-replay"}, token : 0 .. MaxTokens]
           \cup [type : {"subscribe", "unsubscribe", "screen-repair"}]

LedgerReasons ==
    {"duplicate-operation", "expired-operation", "payload-mismatch", "unknown-operation"}
Fates ==
    {"written", "flushed", "dropped", "session-missing", "queue-overflow", "timeout",
     "context-changed", "transport-closed", "target-identity-stale"} \cup LedgerReasons
Written == {"written", "flushed"}
Settled == [op : Operations, fate : Fates]

Typed == [next : 1 .. MaxStart + 1, base : 1 .. MaxStart + 1, cursor : 1 .. MaxStart + 1,
          connections : 0 .. MaxConnections]

Pending(c) == meta[c].replayPending # NoPending
Queue(c) == IF Pending(c) THEN meta[c].replayPending.inputs ELSE <<>>

\* Every input of `ops' meets the same fate.
All(ops, fate) == [i \in DOMAIN ops |-> [op |-> ops[i], fate |-> fate]]

Settle(c, results) == log' = [log EXCEPT ![c] = @ \o results]

-----------------------------------------------------------------------------
(* The snapshot transaction of a connection.  A record m of WsClientMeta     *)
(* goes in, the changed record comes out.                                    *)

Fence(m, authority, inputs) ==
    [m EXCEPT !.tokens = @ + 1,
              !.replayPending = [token |-> m.tokens + 1, authority |-> authority,
                                 inputs |-> inputs]]

\* The client is sent the snapshot of the pending token.
SendSnapshot(m) == [m EXCEPT !.snapshots = @ \cup {m.replayPending.token}]

ClearPending(m) == [m EXCEPT !.replayPending = NoPending]

\* Mutant of Seed: the fence's inputs are not taken over.
NoSeed(m) == <<>>

\* takeRestoreAuthorityPendingSeed: an authority fence hands its inputs on.
Seed(m) ==
    IF m.replayPending # NoPending /\ m.replayPending.authority
    THEN m.replayPending.inputs
    ELSE <<>>

\* The inputs that markReplayPending rejects when a snapshot takes the fence's place.
Displaced(m) ==
    IF m.replayPending = NoPending \/ Seed(m) # <<>> THEN <<>> ELSE m.replayPending.inputs

\* sendSnapshotReplay
SnapshotReplay(m) == SendSnapshot(Fence(m, FALSE, Seed(m)))

\* markRestoreAuthorityPending: no snapshot can be had yet; an existing fence stays.
AuthorityFence(m) ==
    IF m.replayPending # NoPending THEN m ELSE Fence(m, TRUE, <<>>)

\* getRestoreAuthoritySnapshot finds a snapshot, or the fence waits for one.
StartReplay(c, m) ==
    /\ m.tokens < MaxTokens
    /\ \/ meta' = [meta EXCEPT ![c] = SnapshotReplay(m)]
       \/ meta' = [meta EXCEPT ![c] = AuthorityFence(m)]

-----------------------------------------------------------------------------
Init ==
    /\ live = TRUE
    /\ socket = [c \in Clients |-> "closed"]
    /\ channel = [c \in Clients |-> <<>>]
    /\ meta = [c \in Clients |-> NewMeta]
    /\ ledger = [c \in Clients |-> NewEntry]
    /\ client = [c \in Clients |-> [next |-> 1, base |-> 1, cursor |-> 1, connections |-> 0]]
    /\ received = [c \in Clients |-> [o \in Operations |-> 0]]
    /\ log = [c \in Clients |-> <<>>]

(* The client.                                                               *)

\* A new connection; the client resumes at any input of the connection it lost.
Connect(c) ==
    /\ socket[c] = "closed"
    /\ client[c].connections < MaxConnections
    /\ socket' = [socket EXCEPT ![c] = "open"]
    /\ \E from \in client[c].base .. client[c].next :
          client' = [client EXCEPT ![c].base = from, ![c].cursor = from,
                                   ![c].connections = @ + 1]
    /\ UNCHANGED <<live, channel, meta, ledger, received, log>>

Send(c, message) ==
    /\ socket[c] = "open"
    /\ Len(channel[c]) < MaxInFlight
    /\ channel' = [channel EXCEPT ![c] = Append(@, message)]

SendInput(c) ==
    LET o == client[c].cursor
    IN  /\ o \in Operations
        /\ Send(c, [type |-> "input", op |-> o])
        /\ client' = [client EXCEPT ![c].cursor = o + 1,
                                    ![c].next = IF @ > o THEN @ ELSE o + 1]
        /\ UNCHANGED <<live, socket, meta, ledger, received, log>>

\* The screen of a snapshot was painted; each snapshot is acknowledged once.
SendSnapshotReady(c) ==
    \E t \in meta[c].snapshots :
        /\ Send(c, [type |-> "snapshot:ready", token |-> t])
        /\ meta' = [meta EXCEPT ![c].snapshots = @ \ {t}]
        /\ UNCHANGED <<live, socket, ledger, client, received, log>>

\* The client wants a fresh snapshot in place of the one it waits for (0: of none).
SendRepairReplay(c) ==
    \E t \in {0} \cup meta[c].snapshots :
        /\ Send(c, [type |-> "repair-replay", token |-> t])
        /\ UNCHANGED <<live, socket, meta, ledger, client, received, log>>

SendControl(c) ==
    \E type \in {"subscribe", "unsubscribe", "screen-repair"} :
        /\ Send(c, [type |-> type])
        /\ UNCHANGED <<live, socket, meta, ledger, client, received, log>>

-----------------------------------------------------------------------------
(* The server's message handlers.                                            *)

Receive(c, type) ==
    /\ socket[c] # "closed"
    /\ channel[c] # <<>>
    /\ Head(channel[c]).type = type
    /\ channel' = [channel EXCEPT ![c] = Tail(@)]

\* The gateway writes unless a barrier stands, or the client's view has lost the lease.
GatewayFates(m) ==
    IF m.replayPending # NoPending \/ m.screenRepair
    THEN {"context-changed"}
    ELSE {"written", "target-identity-stale"}

Reason ==
    [outcome \in {"duplicate", "expired", "payload-mismatch", "unknown"} |->
        CASE outcome = "duplicate"        -> "duplicate-operation"
          [] outcome = "expired"          -> "expired-operation"
          [] outcome = "payload-mismatch" -> "payload-mismatch"
          [] outcome = "unknown"          -> "unknown-operation"]

\* handleInput, the part after the replay fence: the ledger first, then the gateway.
WriteThrough(c, o) ==
    LET e       == Sweep(ledger[c], 0)
        outcome == Outcome(e, o, Bytes)
    IN  IF outcome = "admitted"
        THEN /\ ledger' = [ledger EXCEPT ![c] = Evict(Remember(e, o, Bytes, 0))]
             /\ \E fate \in GatewayFates(meta[c]) : Settle(c, All(<<o>>, fate))
        ELSE /\ ledger' = [ledger EXCEPT ![c] = e]
             /\ Settle(c, All(<<o>>, Reason[outcome]))

\* Mutant of QueueInput: the newest input is put before those that wait.
QueueInputFirst(c, o) ==
    /\ UNCHANGED ledger
    /\ IF Len(Queue(c)) < MaxQueued
       THEN /\ meta' = [meta EXCEPT ![c].replayPending.inputs = <<o>> \o @]
            /\ UNCHANGED log
       ELSE /\ Settle(c, All(<<o>>, "queue-overflow"))
            /\ UNCHANGED meta

QueueInput(c, o) ==
    /\ UNCHANGED ledger
    /\ IF Len(Queue(c)) < MaxQueued
       THEN /\ meta' = [meta EXCEPT ![c].replayPending.inputs = Append(@, o)]
            /\ UNCHANGED log
       ELSE /\ Settle(c, All(<<o>>, "queue-overflow"))
            /\ UNCHANGED meta

HandleInput(c) ==
    /\ Receive(c, "input")
    /\ LET o == Head(channel[c]).op
       IN  /\ received' = [received EXCEPT ![c][o] = @ + 1]
           /\ \/ /\ ~live
                 /\ Settle(c, All(<<o>>, "session-missing"))
                 /\ UNCHANGED <<meta, ledger>>
              \/ live /\ Pending(c) /\ QueueInput(c, o)
              \/ live /\ ~Pending(c) /\ WriteThrough(c, o) /\ UNCHANGED meta
    /\ UNCHANGED <<live, socket, client>>

\* flushQueuedReplayInputs: the oldest inputs may have waited too long; each of the
\* others goes to the gateway.
FlushFates(m, inputs) ==
    {fates \in [DOMAIN inputs -> {"timeout"} \cup
                    {IF fate = "written" THEN "flushed" ELSE fate : fate \in GatewayFates(m)}] :
        \A i, j \in DOMAIN inputs : i < j /\ fates[j] = "timeout" => fates[i] = "timeout"}

\* Mutant of Acknowledged: whichever snapshot it was for.
AcknowledgedAny(c, token) == Pending(c)

\* consumeReplayPendingForPair: the token of the snapshot the client waits for.
Acknowledged(c, token) == Pending(c) /\ meta[c].replayPending.token = token

HandleSnapshotReady(c) ==
    /\ Receive(c, "snapshot:ready")
    /\ LET m == meta[c]
       IN  IF Acknowledged(c, Head(channel[c]).token)
           THEN /\ meta' = [meta EXCEPT ![c] = ClearPending(m)]
                /\ IF socket[c] = "open"
                   THEN \E fates \in FlushFates(ClearPending(m), Queue(c)) :
                            Settle(c, [i \in DOMAIN fates |-> [op |-> Queue(c)[i], fate |-> fates[i]]])
                   ELSE Settle(c, All(Queue(c), "dropped"))
           ELSE UNCHANGED <<meta, log>>
    /\ UNCHANGED <<live, socket, ledger, client, received>>

HandleSubscribe(c) ==
    /\ Receive(c, "subscribe")
    /\ IF live /\ ~meta[c].subscribed
       THEN /\ StartReplay(c, [meta[c] EXCEPT !.subscribed = TRUE])
       ELSE UNCHANGED meta
    /\ UNCHANGED <<live, socket, ledger, client, received, log>>

Unsubscribed(m) == [ClearPending(m) EXCEPT !.subscribed = FALSE, !.screenRepair = FALSE]

HandleUnsubscribe(c) ==
    /\ Receive(c, "unsubscribe")
    /\ meta' = [meta EXCEPT ![c] = Unsubscribed(@)]
    /\ Settle(c, All(Queue(c), "context-changed"))
    /\ UNCHANGED <<live, socket, ledger, client, received>>

\* A pending snapshot is given up for a fresh one, and the inputs queued behind it with
\* it; a repair recovery that cannot get a snapshot leaves none.
HandleRepairReplay(c) ==
    /\ Receive(c, "repair-replay")
    /\ LET m == meta[c]
           t == Head(channel[c]).token
       IN  IF m.subscribed /\ t = m.replayPending.token
           THEN /\ Settle(c, All(Queue(c), "context-changed"))
                /\ \/ StartReplay(c, ClearPending(m))
                   \/ Pending(c) /\ meta' = [meta EXCEPT ![c] = ClearPending(m)]
           ELSE UNCHANGED <<meta, log>>
    /\ UNCHANGED <<live, socket, ledger, client, received>>

HandleScreenRepair(c) ==
    /\ Receive(c, "screen-repair")
    /\ IF meta[c].subscribed /\ ~Pending(c) /\ ~meta[c].screenRepair
       THEN meta' = [meta EXCEPT ![c].screenRepair = TRUE]
       ELSE UNCHANGED meta
    /\ UNCHANGED <<live, socket, ledger, client, received, log>>

-----------------------------------------------------------------------------
(* The server's timers, the session and the network.                         *)

\* A screen repair ends: painted, refused, failed or timed out.  The last three may
\* start a snapshot, which takes the place of one already pending; a busy model
\* installs a fence.
ScreenRepairEnds(c) ==
    /\ meta[c].screenRepair
    /\ LET m == [meta[c] EXCEPT !.screenRepair = FALSE]
       IN  \/ meta' = [meta EXCEPT ![c] = m] /\ UNCHANGED log
           \/ /\ socket[c] = "open"
              /\ m.tokens < MaxTokens
              /\ meta' = [meta EXCEPT ![c] = SnapshotReplay(m)]
              /\ Settle(c, All(Displaced(m), "context-changed"))
           \/ /\ socket[c] = "open"
              /\ ~Pending(c)
              /\ m.tokens < MaxTokens
              /\ meta' = [meta EXCEPT ![c] = AuthorityFence(m)]
              /\ UNCHANGED log
    /\ UNCHANGED <<live, socket, channel, ledger, client, received>>

\* Mutant of ReplayAckTimeout: a refresh does not arm the timer for its new token.
TimeoutOfFirstToken(c) ==
    /\ Pending(c)
    /\ meta[c].replayPending.token = 1
    /\ meta' = [meta EXCEPT ![c] = ClearPending(@)]
    /\ Settle(c, All(Queue(c), "timeout"))
    /\ UNCHANGED <<live, socket, channel, ledger, client, received>>

\* handleReplayAckTimeout
ReplayAckTimeout(c) ==
    /\ Pending(c)
    /\ meta' = [meta EXCEPT ![c] = ClearPending(@)]
    /\ Settle(c, All(Queue(c), "timeout"))
    /\ UNCHANGED <<live, socket, channel, ledger, client, received>>

\* The retry of an authority fence: a snapshot at last, or the last attempt failed.
AuthorityRetry(c) ==
    /\ Pending(c)
    /\ meta[c].replayPending.authority
    /\ socket[c] = "open"
    /\ \/ /\ meta[c].tokens < MaxTokens
          /\ meta' = [meta EXCEPT ![c] = SnapshotReplay(@)]
          /\ UNCHANGED log
       \/ /\ meta' = [meta EXCEPT ![c] = ClearPending(@)]
          /\ Settle(c, All(Queue(c), "timeout"))
    /\ UNCHANGED <<live, socket, channel, ledger, client, received>>

\* refreshReplaySnapshots: a pending snapshot is replaced under a new token and keeps its
\* inputs, or is given up when the new one no longer covers its output; a client that
\* waits for none may be sent one.
RefreshReplaySnapshot(c) ==
    /\ meta[c].subscribed
    /\ socket[c] = "open"
    /\ meta[c].tokens < MaxTokens
    /\ LET m == meta[c]
       IN  \/ /\ Pending(c)
              /\ meta' = [meta EXCEPT ![c] =
                             SendSnapshot(Fence(m, m.replayPending.authority, Queue(c)))]
              /\ UNCHANGED log
           \/ /\ Pending(c)
              /\ meta' = [meta EXCEPT ![c] = ClearPending(m)]
              /\ Settle(c, All(Queue(c), "context-changed"))
           \/ /\ ~Pending(c)
              /\ ~m.screenRepair
              /\ meta' = [meta EXCEPT ![c] = SnapshotReplay(m)]
              /\ UNCHANGED log
    /\ UNCHANGED <<live, socket, channel, ledger, client, received>>

\* finalizeSession.  Only the exit of the PTY is announced, and only to the subscribers;
\* the announcement releases their ledger entries.
EndSession(announced) ==
    /\ live
    /\ live' = FALSE
    /\ ledger' = [c \in Clients |->
                    IF announced /\ meta[c].subscribed THEN NewEntry ELSE ledger[c]]
    /\ meta' = [c \in Clients |->
                    IF meta[c].subscribed THEN Unsubscribed(meta[c]) ELSE meta[c]]
    /\ log' = [c \in Clients |->
                    IF meta[c].subscribed THEN log[c] \o All(Queue(c), "session-missing")
                    ELSE log[c]]
    /\ UNCHANGED <<socket, channel, client, received>>

PtyExit == EndSession(TRUE)
DeleteSession == EndSession(FALSE)

\* The server starts to close a socket: messages still arrive, nothing is sent.
BeginClose(c) ==
    /\ socket[c] = "open"
    /\ socket' = [socket EXCEPT ![c] = "closing"]
    /\ UNCHANGED <<live, channel, meta, ledger, client, received, log>>

\* Mutant of LedgerAfterDisconnect: the entry goes with the socket.
LedgerWithSocket(c) == NewEntry

\* Only the entry of a client without a logical id is tied to the connection.
LedgerAfterDisconnect(c) == IF c \in Legacy THEN NewEntry ELSE ledger[c]

\* handleDisconnect: what is under way is lost, what waits is rejected.
HandleDisconnect(c) ==
    /\ socket[c] # "closed"
    /\ socket' = [socket EXCEPT ![c] = "closed"]
    /\ channel' = [channel EXCEPT ![c] = <<>>]
    /\ meta' = [meta EXCEPT ![c] = NewMeta]
    /\ ledger' = [ledger EXCEPT ![c] = LedgerAfterDisconnect(c)]
    /\ Settle(c, IF meta[c].subscribed THEN All(Queue(c), "transport-closed") ELSE <<>>)
    /\ UNCHANGED <<live, client, received>>

ClientNext(c) ==
    \/ Connect(c) \/ SendInput(c) \/ SendSnapshotReady(c)
    \/ SendRepairReplay(c) \/ SendControl(c)

ServerNext(c) ==
    \/ HandleInput(c) \/ HandleSnapshotReady(c) \/ HandleSubscribe(c)
    \/ HandleUnsubscribe(c) \/ HandleRepairReplay(c) \/ HandleScreenRepair(c)
    \/ ScreenRepairEnds(c) \/ ReplayAckTimeout(c) \/ AuthorityRetry(c)
    \/ RefreshReplaySnapshot(c) \/ BeginClose(c) \/ HandleDisconnect(c)

Next ==
    \/ \E c \in Clients : ClientNext(c) \/ ServerNext(c)
    \/ PtyExit
    \/ DeleteSession

Spec == Init /\ [][Next]_vars

\* A timer that is armed and not cleared fires.
Fairness == \A c \in Clients : WF_vars(ReplayAckTimeout(c))

-----------------------------------------------------------------------------
\* Every variable keeps its type: WsClientMeta, ReplayPendingState and the ledger entries.
TypeOK ==
    /\ live \in BOOLEAN
    /\ socket \in [Clients -> SocketState]
    /\ channel \in [Clients -> Seq(Message)]
    /\ meta \in [Clients -> Meta]
    /\ ledger \in [Clients -> Entry]
    /\ client \in [Clients -> Typed]
    /\ received \in [Clients -> [Operations -> Nat]]
    /\ log \in [Clients -> Seq(Settled)]

\* No input is lost without a word: whatever handleInput was given was written, rejected
\* with a reason, dropped with a closing socket, or still waits behind the fence.
EveryInputSettled ==
    \A c \in Clients, o \in Operations :
        received[c][o] = Cardinality({i \in DOMAIN log[c] : log[c][i].op = o})
                         + Cardinality({i \in DOMAIN Queue(c) : Queue(c)[i] = o})

\* REL-BGSTAB-028 AC-1, for the path that asks the ledger: however often an operation is
\* sent again, over however many connections, that path writes it at most once.
DirectWriteOnce ==
    \A c \in Clients \ Legacy : \A i, j \in DOMAIN log[c] :
        i # j /\ log[c][i].op = log[c][j].op
        => ~(log[c][i].fate = "written" /\ log[c][j].fate = "written")

First(c, i) == \A j \in 1 .. i - 1 : log[c][j].op # log[c][i].op

\* The inputs that are written when they first arrive reach the PTY in the order they
\* were typed, whether they waited behind the fence or not.
TypedOrder ==
    \A c \in Clients : \A i, j \in DOMAIN log[c] :
        (/\ i < j
         /\ First(c, i) /\ First(c, j)
         /\ {log[c][i].fate, log[c][j].fate} \subseteq Written)
        => log[c][i].op < log[c][j].op

\* The ledger refuses only what was sent before: no first arrival is mistaken for a retry.
NoFalseRefusal ==
    \A c \in Clients : \A i \in DOMAIN log[c] :
        log[c][i].fate \in LedgerReasons => received[c][log[c][i].op] >= 2

\* The inputs add up: variables have their types; what was received waits or is settled; an
\* input sent again is written no second time on the path of the ledger; and what the
\* ledger answers to it is true.
InputsAddUp == TypeOK /\ EveryInputSettled /\ DirectWriteOnce /\ NoFalseRefusal

NewFates(c) == {log'[c][i].fate : i \in DOMAIN log'[c] \ DOMAIN log[c]}

\* Nothing is written while the screen of its client is known to be stale: not behind a
\* replay fence, not during a screen repair.
WrittenOnCurrentScreen ==
    [][\A c \in Clients :
          NewFates(c) \cap Written # {}
          => meta'[c].replayPending = NoPending /\ ~meta'[c].screenRepair]_vars

\* Inputs held back are released by the acknowledgement of the newest snapshot, never by
\* a late one for a snapshot that was replaced.
FlushedOnNewestSnapshot ==
    [][\A c \in Clients :
          "flushed" \in NewFates(c) => meta[c].tokens \notin meta'[c].snapshots]_vars

\* An input acts on the screen its user sees: both of the above.
ActsOnSeenScreen == WrittenOnCurrentScreen /\ FlushedOnNewestSnapshot

\* An input that waits behind the fence does not wait for ever.
QueueSettles == \A c \in Clients : Queue(c) # <<>> ~> Queue(c) = <<>>

\* REL-BGSTAB-028 AC-1 and AC-2 (docs/spec/30.buildergate-stability.srs.md): an operation
\* that is sent again is written to the PTY exactly once, by whatever path.
WrittenOnce ==
    \A c \in Clients \ Legacy : \A i, j \in DOMAIN log[c] :
        i # j /\ log[c][i].op = log[c][j].op
        => ~({log[c][i].fate, log[c][j].fate} \subseteq Written)
=============================================================================
