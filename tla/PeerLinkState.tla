---------------------------- MODULE PeerLinkState ----------------------------
(***************************************************************************)
(* The functions of the peer link manager that change its state and call   *)
(* each other (server/src/services/peer/peerLinkManager.ts): each takes    *)
(* the state w of the links and returns the next one.                      *)
(*                                                                         *)
(*   w.peers    node -> name -> the Peer registered under it, or 0         *)
(*   w.peer     all Peer objects; the index of one is its epoch            *)
(*   w.conns    the connections, each with two ends; slots are used again  *)
(*   w.msgs     all outbox entries; the index of one is its message id     *)
(*   w.calls    all calls (FR-MCP-019), in the order they were made        *)
(*                                                                         *)
(* An end is <<connection, role>>.  A frame that is sent waits in `sent'   *)
(* of its end until the other end receives it; closing an end loses what   *)
(* waits for it.  Heartbeats and waiting times are left out: a time-out or *)
(* a broken network is an end that closes by itself.                       *)
(***************************************************************************)
EXTENDS Integers, Sequences, SequencesExt, FiniteSetsExt

CONSTANTS
    Nodes,          \* the servers
    Names,          \* names of servers and links; a node is a name
    Target,         \* the node a link of that name is dialed to
    Conns,          \* connection slots: 1 .. n
    MaxQueue        \* maxQueuedMessages

Roles == {"dialer", "acceptor"}
NoEnd == <<0, "dialer">>
Other(role) == IF role = "dialer" THEN "acceptor" ELSE "dialer"

ClosedEnd == [node |-> "", closed |-> TRUE, ready |-> FALSE, hello |-> "", peer |-> 0, sent |-> <<>>]
OpenEnd(n, p) == [ClosedEnd EXCEPT !.node = n, !.closed = FALSE, !.peer = p]
FreeConn == [opened |-> FALSE, dialer |-> ClosedEnd, acceptor |-> ClosedEnd]

End(w, e) == w.conns[e[1]][e[2]]
FreeSlots(w) == {c \in Conns : w.conns[c] = FreeConn}

newPeer(n, name, direction) ==
    [node |-> n, name |-> name, direction |-> direction, state |-> "disconnected",
     conn |-> NoEnd, dialing |-> NoEnd, outbox |-> <<>>, nextSeq |-> 1, retry |-> FALSE]

IsRegistered(w, p) == w.peers[w.peer[p].node][w.peer[p].name] = p

Idle(w, p) ==
    /\ w.peer[p].direction = "inbound"
    /\ w.peer[p].conn = NoEnd
    /\ w.peer[p].outbox = <<>>

\* An inbound peer without a connection and without messages is forgotten.
forgetIfIdle(w, p) ==
    IF Idle(w, p) /\ IsRegistered(w, p)
    THEN [w EXCEPT !.peers[w.peer[p].node][w.peer[p].name] = 0]
    ELSE w

\* The frames an end sends reach the other end unless that is closed.
send(w, e, frames) ==
    IF End(w, e).closed \/ w.conns[e[1]][Other(e[2])].closed
    THEN w
    ELSE [w EXCEPT !.conns[e[1]][e[2]].sent = @ \o frames]

\* The socket of an end is closed: what was on its way to it is lost.
CloseSocket(w, e) ==
    LET other == Other(e[2])
    IN  IF w.conns[e[1]][other].closed
        THEN [w EXCEPT !.conns[e[1]] = FreeConn]
        ELSE [w EXCEPT !.conns[e[1]][e[2]] = [ClosedEnd EXCEPT !.sent = End(w, e).sent],
                       !.conns[e[1]][other].sent = <<>>]

\* The entries of an outbox are no longer on any connection (a mutant: they stay on it).
KeepSent(w, p) == w
Unsent(w, p) ==
    FoldLeft(LAMBDA x, i : [x EXCEPT !.msgs[i].sentOn = NoEnd], w, w.peer[p].outbox)

\* The calls that wait on a peer fail (a mutant: they go on waiting).
KeepCalls(w, p) == w
FailCalls(w, p) ==
    FoldSet(LAMBDA i, x : [x EXCEPT !.calls[i].status = "PEER_DISCONNECTED"], w,
            {i \in DOMAIN w.calls : w.calls[i].peer = p /\ w.calls[i].status = "pending"})

\* Unlinks an end from its peer and closes its socket.
dropConnection(w, e) ==
    IF e = NoEnd \/ End(w, e).closed
    THEN w
    ELSE LET p  == End(w, e).peer
             w1 == CloseSocket(w, e)
         IN  CASE p = 0                 -> w1
               [] p # 0 /\ w.peer[p].conn # e ->
                     [w1 EXCEPT !.peer[p].dialing = IF @ = e THEN NoEnd ELSE @]
               [] OTHER                 ->
                     forgetIfIdle(FailCalls(Unsent([w1 EXCEPT !.peer[p].conn = NoEnd,
                                                              !.peer[p].state = "disconnected"],
                                            p), p), p)

\* A dialer tries again later.
scheduleRetry(w, p) ==
    IF w.started[w.peer[p].node] # "started" \/ w.peer[p].retry
    THEN w
    ELSE [w EXCEPT !.peer[p].retry = TRUE, !.peer[p].state = "disconnected"]

\* A mutant of closeAndRetry: whether the connection was the peer's own is asked too late.
closeThenAsk(w, e) ==
    LET p  == End(w, e).peer
        w1 == dropConnection(w, e)
    IN  IF p # 0 /\ e \in {w1.peer[p].conn, w1.peer[p].dialing} THEN scheduleRetry(w1, p) ELSE w1

\* A connection that broke is closed, and dialed again if it was the peer's own.
closeAndRetry(w, e) ==
    LET p       == End(w, e).peer
        current == p # 0 /\ e \in {w.peer[p].conn, w.peer[p].dialing}
        w1      == dropConnection(w, e)
    IN  IF current /\ w1.peer[p].direction = "outbound" /\ IsRegistered(w1, p)
        THEN scheduleRetry(w1, p)
        ELSE w1

bye(w, e, code) == closeAndRetry(send(w, e, <<[t |-> "bye"]>>), e)

\* Opens a connection to the target of a link, unless its key cannot be read.
dial(w, p) ==
    LET n == w.peer[p].node
        c == Min(FreeSlots(w))
    IN  IF w.links[n][w.peer[p].name] = "keyless"
        THEN [w EXCEPT !.peer[p].state = "disconnected"]
        ELSE [w EXCEPT !.peer[p].dialing = <<c, "dialer">>,
                       !.peer[p].state = "connecting",
                       !.conns[c].dialer = OpenEnd(n, p)]

\* What the outbox holds and is not on the present connection, in order (a mutant: reversed).
NewestFirst(w, p) == Reverse(SelectSeq(w.peer[p].outbox, LAMBDA i : w.msgs[i].sentOn # w.peer[p].conn))
Waiting(w, p) == SelectSeq(w.peer[p].outbox, LAMBDA i : w.msgs[i].sentOn # w.peer[p].conn)

flush(w, p) ==
    LET e    == w.peer[p].conn
        todo == Waiting(w, p)
        Msg(i) == [t |-> "msg", epoch |-> p, seq |-> w.msgs[i].seq, msg |-> i]
    IN  IF e = NoEnd
        THEN w
        ELSE FoldLeft(LAMBDA x, i : send([x EXCEPT !.msgs[i].sentOn = e, !.msgs[i].status = "sent"],
                                         e, <<Msg(i)>>),
                      w, todo)

\* An end is ready for requests: it is its peer's connection.
becomeReady(w, e, p) ==
    flush([w EXCEPT !.conns[e[1]][e[2]].ready = TRUE,
                    !.conns[e[1]][e[2]].hello = "",
                    !.conns[e[1]][e[2]].peer = p,
                    !.peer[p].dialing = IF @ = e THEN NoEnd ELSE @,
                    !.peer[p].conn = e,
                    !.peer[p].state = "connected"], p)

\* An outbox entry reaches its final status.
finish(w, p, i, status) ==
    forgetIfIdle([w EXCEPT !.peer[p].outbox = SelectSeq(@, LAMBDA j : j # i),
                           !.msgs[i].status = status,
                           !.msgs[i].sentOn = NoEnd], p)

\* What becomes of a message that is given up.
GivenUp(w, i) == IF w.msgs[i].status = "sent" THEN "unknown" ELSE "expired"

-----------------------------------------------------------------------------
\* An inbound peer hands its queue to the outbound one of its name.
Inherit(w, inbound, new) ==
    IF inbound = 0
    THEN Append(w.peer, new)
    ELSE Append([w.peer EXCEPT ![inbound].outbox = <<>>],
                [new EXCEPT !.outbox = w.peer[inbound].outbox, !.nextSeq = w.peer[inbound].nextSeq])

\* A link of the settings that is new.
addLink(w, n, name) ==
    LET inbound == w.peers[n][name]
        w1 == IF inbound = 0 THEN w ELSE dropConnection(w, w.peer[inbound].conn)
        p  == Len(w.peer) + 1
        w2 == [w1 EXCEPT !.peer = Inherit(w1, inbound, newPeer(n, name, "outbound")),
                         !.peers[n][name] = p]
    IN  IF w.started[n] = "started" THEN dial(w2, p) ELSE w2

\* A link that is gone from the settings: its messages get their final status.
removePeer(w, p) ==
    LET w1 == [w EXCEPT !.peers[w.peer[p].node][w.peer[p].name] = 0, !.peer[p].retry = FALSE]
        w2 == dropConnection(dropConnection(w1, w1.peer[p].dialing), w1.peer[p].conn)
    IN  FoldLeft(LAMBDA x, i : finish(x, p, i, GivenUp(x, i)), w2, w2.peer[p].outbox)

\* A link whose address or key changed is dialed anew.
restartOutbound(w, p) ==
    LET w1 == dropConnection(dropConnection([w EXCEPT !.peer[p].retry = FALSE], w.peer[p].dialing),
                             w.peer[p].conn)
    IN  IF w.started[w.peer[p].node] = "started" THEN dial(w1, p) ELSE w1
=============================================================================
