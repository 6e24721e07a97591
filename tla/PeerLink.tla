------------------------------- MODULE PeerLink -------------------------------
(***************************************************************************)
(* Servers joined by peer links (createPeerLinkManager in                  *)
(* server/src/services/peer/peerLinkManager.ts, over the sockets of        *)
(* peerWsTransport.ts): every node runs the same manager, dials the links  *)
(* of its settings, accepts the links of others, queues messages per link  *)
(* and sends again what has no result yet.                                 *)
(*                                                                         *)
(* What goes wrong is a disturbance: a connection breaks, a key is         *)
(* refused, the settings change, a process stops or starts again.  Their   *)
(* number is bounded by MaxDisturbances.                                   *)
(***************************************************************************)
EXTENDS PeerLinkState

CONSTANTS
    Links,              \* initially: node -> name -> "none", "keyed" or "keyless"
    Senders,            \* pairs of a node and a name it sends messages to
    Callers,            \* pairs of a node and a name it calls a tool on
    InboxResults,       \* INBOX_RESULTS
    InboxEpochs,        \* INBOX_EPOCHS
    Disturbances,       \* bound of the model: the kinds that happen when so many messages were sent
    MaxDisturbances,    \* bound of the model: how many of them
    MaxMessages,        \* bound of the model
    MaxCalls,           \* bound of the model: how many calls are made when so many messages were sent
    MaxPeers            \* bound of the model: Peer objects

ASSUME PeerLinkAssumption ==
    /\ Nodes \subseteq Names
    /\ Target \in [Names -> Nodes]
    /\ Links \in [Nodes -> [Names -> {"none", "keyed", "keyless"}]]
    /\ InboxResults >= 1 /\ InboxEpochs >= 1
    /\ DOMAIN Disturbances = 0 .. MaxMessages
    /\ MaxCalls \in [0 .. MaxMessages -> Nat]
    /\ {MaxQueue, MaxDisturbances, MaxMessages, MaxPeers} \subseteq Nat

VARIABLES
    net,        \* the links: peers, connections, messages and calls (PeerLinkState)
    inbox,      \* node -> the boxes of its inbox, the oldest first
    runs,       \* the tool runs of received messages, in the order they were queued
    remote,     \* the calls that run: the Peer object they came through, and their id
    life,       \* node -> how often its process was started again
    disturbed   \* disturbances so far

vars == <<net, inbox, runs, remote, life, disturbed>>

Final == {"delivered", "failed", "expired", "unknown", "lost"}

Disturb(kind) ==
    /\ kind \in Disturbances[Len(net.msgs)]
    /\ disturbed < MaxDisturbances
    /\ disturbed' = disturbed + 1

Linked(links, n) == {name \in Names : links[n][name] # "none"}
Peers(w, n, direction) == {p \in DOMAIN w.peer : w.peer[p].direction = direction
                                                 /\ w.peer[p].node = n /\ IsRegistered(w, p)}
MayDial(w, k) == Cardinality(FreeSlots(w)) >= k
MayCreate(w, k) == Len(w.peer) + k <= MaxPeers

addLinks(w, n) == FoldSet(LAMBDA name, x : addLink(x, n, name), w, Linked(w.links, n))

-----------------------------------------------------------------------------
Init ==
    /\ net = FoldSet(LAMBDA n, x : addLinks(x, n),
                     [peers   |-> [n \in Nodes |-> [name \in Names |-> 0]],
                      peer    |-> <<>>,
                      conns   |-> [c \in Conns |-> FreeConn],
                      msgs    |-> <<>>,
                      calls   |-> <<>>,
                      links   |-> Links,
                      name    |-> [n \in Nodes |-> n],
                      started |-> [n \in Nodes |-> "new"]], Nodes)
    /\ inbox = [n \in Nodes |-> <<>>]
    /\ runs = <<>>
    /\ remote = {}
    /\ life = [n \in Nodes |-> 0]
    /\ disturbed = 0

-----------------------------------------------------------------------------
\* The manager's own operations.

Start(n) ==
    /\ net.started[n] = "new"
    /\ MayDial(net, Cardinality(Peers(net, n, "outbound")))
    /\ net' = FoldSet(LAMBDA p, x : dial(x, p), [net EXCEPT !.started[n] = "started"],
                      Peers(net, n, "outbound"))
    /\ UNCHANGED <<inbox, runs, remote, life, disturbed>>

\* The process ends: every connection of every peer is dropped.
Stop(n) ==
    /\ net.started[n] = "started"
    /\ Disturb("stop")
    /\ net' = FoldSet(LAMBDA p, x : dropConnection(dropConnection([x EXCEPT !.peer[p].retry = FALSE],
                                                                  x.peer[p].dialing), x.peer[p].conn),
                      [net EXCEPT !.started[n] = "stopped"],
                      Peers(net, n, "outbound") \cup Peers(net, n, "inbound"))
    /\ UNCHANGED <<inbox, runs, remote, life>>

\* A process starts again without its memory.
Restart(n) ==
    LET ends == {e \in Conns \X Roles : ~End(net, e).closed /\ End(net, e).node = n}
        mine == {p \in DOMAIN net.peer : net.peer[p].node = n}
        w1 == [net EXCEPT !.peers[n] = [name \in Names |-> 0], !.started[n] = "new"]
        w2 == FoldSet(LAMBDA e, x : CloseSocket(x, e), w1, ends)
        w3 == FoldSet(LAMBDA p, x : [x EXCEPT !.peer[p] = newPeer(n, @.name, @.direction)], w2, mine)
        w4 == FoldSet(LAMBDA i, x : [x EXCEPT !.msgs[i].status = "lost", !.msgs[i].sentOn = NoEnd], w3,
                      {i \in DOMAIN net.msgs : net.msgs[i].node = n /\ net.msgs[i].status \notin Final})
        w5 == FoldSet(LAMBDA i, x : [x EXCEPT !.calls[i].status = "lost"], w4,
                      {i \in DOMAIN net.calls : net.calls[i].peer \in mine
                                                /\ net.calls[i].status = "pending"})
    IN  /\ Disturb("restart")
        /\ MayCreate(net, Cardinality(Linked(net.links, n)))
        /\ net' = addLinks(w5, n)
        /\ inbox' = [inbox EXCEPT ![n] = <<>>]
        /\ runs' = FoldSet(LAMBDA i, x : [x EXCEPT ![i].state = "lost", ![i].repliers = {}], runs,
                           {i \in DOMAIN runs : runs[i].node = n /\ runs[i].state = "pending"})
        /\ remote' = {r \in remote : net.peer[r.peer].node # n}
        /\ life' = [life EXCEPT ![n] = @ + 1]

\* applySettings: a link is added, edited or removed.
SetLink(n, name, value) ==
    LET p == net.peers[n][name]
        w == [net EXCEPT !.links[n][name] = value]
    IN  /\ ~(value = "none" /\ net.links[n][name] = "none")
        /\ Target[name] # n
        /\ Disturb("settings")
        /\ MayDial(net, 1) /\ MayCreate(net, 1)
        /\ net' = CASE value = "none"               -> removePeer(w, p)
                    [] net.links[n][name] = "none"  -> addLink(w, n, name)
                    [] OTHER                        -> restartOutbound(w, p)
        /\ UNCHANGED <<inbox, runs, remote, life>>

\* applySettings: the node is renamed and says so on new connections.
Rename(n, name) ==
    /\ name \notin Nodes /\ name # net.name[n] /\ Target[name] = n
    /\ Disturb("rename")
    /\ MayDial(net, Cardinality(Peers(net, n, "outbound")))
    /\ net' = FoldSet(LAMBDA p, x : restartOutbound(x, p), [net EXCEPT !.name[n] = name],
                      Peers(net, n, "outbound"))
    /\ UNCHANGED <<inbox, runs, remote, life>>

\* dropInbound: the key was rotated.
DropInbound(n) ==
    /\ Disturb("rotate")
    /\ net' = FoldSet(LAMBDA p, x : dropConnection(x, x.peer[p].conn), net, Peers(net, n, "inbound"))
    /\ UNCHANGED <<inbox, runs, remote, life>>

-----------------------------------------------------------------------------
\* Connections.

\* The socket opens on both sides; the dialer introduces itself.
Open(c) ==
    LET n == net.conns[c].dialer.node
        p == net.conns[c].dialer.peer
    IN  /\ ~net.conns[c].dialer.closed /\ ~net.conns[c].opened
        /\ net' = send([net EXCEPT !.conns[c].opened = TRUE,
                                   !.conns[c].acceptor = OpenEnd(Target[net.peer[p].name], 0)],
                       <<c, "dialer">>, <<[t |-> "hello", node |-> net.name[n]]>>)
        /\ UNCHANGED <<inbox, runs, remote, life, disturbed>>

\* An end closes: its other end did, or the network broke, or nothing was heard for long.
OnClosed(e) ==
    /\ ~End(net, e).closed
    /\ \/ /\ net.conns[e[1]].opened /\ net.conns[e[1]][Other(e[2])].closed
          /\ UNCHANGED disturbed
       \/ Disturb("break")
    /\ net' = closeAndRetry(net, e)
    /\ UNCHANGED <<inbox, runs, remote, life>>

RetryDial(p) ==
    /\ p \in DOMAIN net.peer /\ net.peer[p].retry
    /\ MayDial(net, 1)
    /\ LET w == [net EXCEPT !.peer[p].retry = FALSE]
       IN  net' = IF IsRegistered(w, p) /\ w.started[w.peer[p].node] = "started" THEN dial(w, p) ELSE w
    /\ UNCHANGED <<inbox, runs, remote, life, disturbed>>

\* The next frame for an open end, and the state after it was taken.
Incoming(e) == net.conns[e[1]][Other(e[2])].sent
Arrives(e, t) == ~End(net, e).closed /\ Incoming(e) # <<>> /\ Head(Incoming(e)).t = t
Taken(e) == [net EXCEPT !.conns[e[1]][Other(e[2])].sent = Tail(@)]

\* The key of a dialer is checked: this waits.
ReceiveHello(c) ==
    /\ Arrives(<<c, "acceptor">>, "hello")
    /\ net' = [Taken(<<c, "acceptor">>) EXCEPT
                 !.conns[c].acceptor.hello = Head(Incoming(<<c, "acceptor">>)).node]
    /\ UNCHANGED <<inbox, runs, remote, life, disturbed>>

\* A mutant of Admitted: the older connection stays open.
AdmittedBeside(c) ==
    LET e    == <<c, "acceptor">>
        n    == End(net, e).node
        name == End(net, e).hello
        old  == net.peers[n][name]
        w1   == IF old = 0
                THEN [net EXCEPT !.peer = Append(@, newPeer(n, name, "inbound"))]
                ELSE net
        p    == IF old = 0 THEN Len(net.peer) + 1 ELSE old
    IN  becomeReady(send([w1 EXCEPT !.peers[n][name] = p], e, <<[t |-> "welcome"]>>), e, p)

\* An accepted dialer replaces the older connection of its name.
Admitted(c) ==
    LET e    == <<c, "acceptor">>
        n    == End(net, e).node
        name == End(net, e).hello
        old  == net.peers[n][name]
        w1   == IF old = 0
                THEN [net EXCEPT !.peer = Append(@, newPeer(n, name, "inbound"))]
                ELSE dropConnection(net, net.peer[old].conn)
        p    == IF old = 0 THEN Len(net.peer) + 1 ELSE old
    IN  becomeReady(send([w1 EXCEPT !.peers[n][name] = p], e, <<[t |-> "welcome"]>>), e, p)

\* The check of the key ends.
Authenticated(c) ==
    LET e   == <<c, "acceptor">>
        old == net.peers[End(net, e).node][End(net, e).hello]
    IN  /\ End(net, e).hello # "" /\ MayCreate(net, 1)
        /\ \/ /\ Disturb("refuse")
              /\ net' = bye(net, e, "PEER_AUTH_FAILED")
           \/ /\ old # 0 /\ net.peer[old].direction = "outbound"
              /\ net' = bye(net, e, "PEER_NAME_IN_USE")
              /\ UNCHANGED disturbed
           \/ /\ old # 0 => net.peer[old].direction = "inbound"
              /\ net' = Admitted(c)
              /\ UNCHANGED disturbed
        /\ UNCHANGED <<inbox, runs, remote, life>>

ReceiveWelcome(c) ==
    LET e == <<c, "dialer">>
    IN  /\ Arrives(e, "welcome")
        /\ net' = becomeReady(Taken(e), e, End(net, e).peer)
        /\ UNCHANGED <<inbox, runs, remote, life, disturbed>>

ReceiveBye(e) ==
    /\ Arrives(e, "bye")
    /\ net' = closeAndRetry(Taken(e), e)
    /\ UNCHANGED <<inbox, runs, remote, life, disturbed>>

-----------------------------------------------------------------------------
\* Messages (FR-MCP-018).

SendMessage(n, name) ==
    LET p == net.peers[n][name]
        i == Len(net.msgs) + 1
    IN  /\ p # 0
        /\ Len(net.peer[p].outbox) < MaxQueue
        /\ i <= MaxMessages
        /\ net' = flush([net EXCEPT
                           !.msgs = Append(@, [node |-> n, name |-> name, seq |-> net.peer[p].nextSeq,
                                               status |-> "queued", sentOn |-> NoEnd, timer |-> TRUE]),
                           !.peer[p].nextSeq = @ + 1,
                           !.peer[p].outbox = Append(@, i)], p)
        /\ UNCHANGED <<inbox, runs, remote, life, disturbed>>

\* The time-to-live of a queued message ends: its present owner drops it.
Expire(i) ==
    LET owner == net.peers[net.msgs[i].node][net.msgs[i].name]
        w     == [net EXCEPT !.msgs[i].timer = FALSE]
    IN  /\ net.msgs[i].timer /\ net.msgs[i].status \notin Final
        /\ net' = IF owner # 0 /\ i \in ToSet(net.peer[owner].outbox)
                  THEN finish(w, owner, i, GivenUp(w, i)) ELSE w
        /\ UNCHANGED <<inbox, runs, remote, life, disturbed>>

\* A message result of an older epoch of this peer is not for it (a mutant: it is).
SeqMatches(p, frame) == {i \in ToSet(net.peer[p].outbox) : net.msgs[i].seq = frame.seq}
ResultMatches(p, frame) ==
    {i \in ToSet(net.peer[p].outbox) : frame.epoch = p /\ net.msgs[i].seq = frame.seq}

ReceiveMessageResult(e) ==
    LET p     == End(net, e).peer
        frame == Head(Incoming(e))
        found == ResultMatches(p, frame)
    IN  /\ Arrives(e, "result")
        /\ net' = IF found = {} THEN Taken(e)
                  ELSE finish(Taken(e), p, Min(found), IF frame.ok THEN "delivered" ELSE "failed")
        /\ UNCHANGED <<inbox, runs, remote, life, disturbed>>

\* A result goes back on the connection the peer has by then.
Result(epoch, seq, ok) == <<[t |-> "result", epoch |-> epoch, seq |-> seq, ok |-> ok]>>
Reply(w, p, frames) == IF w.peer[p].conn = NoEnd THEN w ELSE send(w, w.peer[p].conn, frames)

NewBox(name, epoch) == [name |-> name, epoch |-> epoch, last |-> 0, results |-> <<>>]

\* The boxes of a node after one was asked for: the oldest goes when there are too many.
BoxesWith(n, box) ==
    LET same(b) == b.name = box.name /\ b.epoch = box.epoch
        known == {k \in DOMAIN inbox[n] : same(inbox[n][k])}
        all   == IF known = {}
                 THEN Append(inbox[n], box)
                 ELSE [inbox[n] EXCEPT ![Min(known)] = box]
    IN  IF Len(all) > InboxEpochs THEN Tail(all) ELSE all
Box(n, name, epoch) ==
    LET known == {b \in ToSet(inbox[n]) : b.name = name /\ b.epoch = epoch}
    IN  IF known = {} THEN NewBox(name, epoch) ELSE CHOOSE b \in known : TRUE

\* The results of a box with one more: the oldest goes when there are too many.
Remember(results, new) ==
    IF Len(results) = InboxResults THEN Append(Tail(results), new) ELSE Append(results, new)

\* A mutant of IsDuplicate: only a message whose result is remembered counts as one.
IsRemembered(box, seq) == seq \in {r.seq : r \in ToSet(box.results)}
IsDuplicate(box, seq) == seq <= box.last

\* A message received before is answered, from the result if that is still remembered.
ReceiveDuplicate(e, box, frame) ==
    LET p    == End(net, e).peer
        kept == {r.run : r \in {x \in ToSet(box.results) : x.seq = frame.seq}}
        run  == CHOOSE i \in kept : TRUE
    IN  CASE kept = {} ->
               /\ net' = Reply(Taken(e), p, Result(frame.epoch, frame.seq, TRUE))
               /\ UNCHANGED runs
          [] kept # {} /\ runs[run].state = "pending" ->
               /\ net' = Taken(e)
               /\ runs' = [runs EXCEPT ![run].repliers = @ \cup {p}]
          [] OTHER ->
               /\ net' = Reply(Taken(e), p, Result(frame.epoch, frame.seq, runs[run].state = "ok"))
               /\ UNCHANGED runs

ReceiveMessage(e) ==
    LET p     == End(net, e).peer
        n     == End(net, e).node
        frame == Head(Incoming(e))
        box   == Box(n, net.peer[p].name, frame.epoch)
    IN  /\ Arrives(e, "msg")
        /\ IF IsDuplicate(box, frame.seq)
           THEN /\ ReceiveDuplicate(e, box, frame)
                /\ inbox' = [inbox EXCEPT ![n] = BoxesWith(n, box)]
           ELSE /\ net' = Taken(e)
                /\ runs' = Append(runs, [node |-> n, life |-> life[n], by |-> p, repliers |-> {p},
                                         epoch |-> frame.epoch, seq |-> frame.seq,
                                         msg |-> frame.msg, state |-> "pending"])
                /\ inbox' = [inbox EXCEPT ![n] = BoxesWith(n, [box EXCEPT
                       !.last = frame.seq,
                       !.results = Remember(@, [seq |-> frame.seq, run |-> Len(runs) + 1])])]
        /\ UNCHANGED <<remote, life, disturbed>>

\* The runs of one Peer object form a chain: one runs when the one before it has ended.
\* A mutant: they all run at once.
RunningAtOnce(i) == runs[i].state = "pending"
Running(i) ==
    /\ runs[i].state = "pending"
    /\ \A j \in 1 .. i - 1 : runs[j].by = runs[i].by => runs[j].state # "pending"

RunDone(i, ok) ==
    LET run == runs[i]
    IN  /\ Running(i)
        /\ runs' = [runs EXCEPT ![i].state = IF ok THEN "ok" ELSE "failed", ![i].repliers = {}]
        /\ net' = FoldSet(LAMBDA p, x : Reply(x, p, Result(run.epoch, run.seq, ok)), net, run.repliers)
        /\ UNCHANGED <<inbox, remote, life, disturbed>>

-----------------------------------------------------------------------------
\* Calls (FR-MCP-019): not queued, not sent again.

Call(n, name) ==
    LET p == net.peers[n][name]
        i == Len(net.calls) + 1
    IN  /\ p # 0 /\ net.peer[p].conn # NoEnd
        /\ i <= MaxCalls[Len(net.msgs)]
        /\ net' = send([net EXCEPT !.calls = Append(@, [peer |-> p, status |-> "pending"])],
                       net.peer[p].conn, <<[t |-> "call", id |-> i]>>)
        /\ UNCHANGED <<inbox, runs, remote, life, disturbed>>

CallTimeout(i) ==
    /\ net.calls[i].status = "pending"
    /\ net' = [net EXCEPT !.calls[i].status = "PEER_CALL_TIMEOUT"]
    /\ UNCHANGED <<inbox, runs, remote, life, disturbed>>

ReceiveCall(e) ==
    /\ Arrives(e, "call")
    /\ net' = Taken(e)
    /\ remote' = remote \cup {[peer |-> End(net, e).peer, id |-> Head(Incoming(e)).id]}
    /\ UNCHANGED <<inbox, runs, life, disturbed>>

CallDone(r) ==
    /\ remote' = remote \ {r}
    /\ net' = Reply(net, r.peer, <<[t |-> "call-result", id |-> r.id]>>)
    /\ UNCHANGED <<inbox, runs, life, disturbed>>

ReceiveCallResult(e) ==
    LET i == Head(Incoming(e)).id
    IN  /\ Arrives(e, "call-result")
        /\ net' = IF net.calls[i].peer = End(net, e).peer /\ net.calls[i].status = "pending"
                  THEN [Taken(e) EXCEPT !.calls[i].status = "answered"] ELSE Taken(e)
        /\ UNCHANGED <<inbox, runs, remote, life, disturbed>>

-----------------------------------------------------------------------------
Ends == Conns \X Roles

Receive(e) ==
    \/ ReceiveBye(e) \/ ReceiveMessage(e) \/ ReceiveMessageResult(e)
    \/ ReceiveCall(e) \/ ReceiveCallResult(e)
    \/ e[2] = "acceptor" /\ ReceiveHello(e[1])
    \/ e[2] = "dialer" /\ ReceiveWelcome(e[1])

Progress ==
    \/ \E n \in Nodes : Start(n)
    \/ \E c \in Conns : Open(c) \/ Authenticated(c)
    \/ \E e \in Ends : OnClosed(e) \/ Receive(e)
    \/ \E p \in DOMAIN net.peer : RetryDial(p)
    \/ \E i \in DOMAIN runs, ok \in BOOLEAN : RunDone(i, ok)
    \/ \E r \in remote : CallDone(r)

Use ==
    \/ \E s \in Senders : SendMessage(s[1], s[2])
    \/ \E s \in Callers : Call(s[1], s[2])
    \/ \E i \in DOMAIN net.msgs : Expire(i)
    \/ \E i \in DOMAIN net.calls : CallTimeout(i)

Administer ==
    \E n \in Nodes :
        \/ Stop(n) \/ Restart(n) \/ DropInbound(n)
        \/ \E name \in Names :
              Rename(n, name) \/ \E value \in {"none", "keyed", "keyless"} : SetLink(n, name, value)

Next == Progress \/ Use \/ Administer

Spec == Init /\ [][Next]_vars

\* Timers fire, sockets carry what was sent and say when they closed, keys are checked and
\* tools end.  Nothing makes a user send, a message expire or a disturbance happen.
Fairness ==
    /\ \A n \in Nodes : WF_vars(Start(n))
    /\ \A c \in Conns :
          /\ WF_vars(Open(c))
          /\ WF_vars(Authenticated(c) /\ UNCHANGED disturbed)
    /\ \A e \in Ends :
          /\ WF_vars(OnClosed(e) /\ UNCHANGED disturbed)
          /\ WF_vars(Receive(e))
    /\ \A p \in 1 .. MaxPeers : WF_vars(RetryDial(p))
    /\ WF_vars(\E i \in DOMAIN runs, ok \in BOOLEAN : RunDone(i, ok))

FairSpec == Spec /\ Fairness

-----------------------------------------------------------------------------
\* Every variable keeps its type: Peer, Connection, OutboxEntry (peerLinkManager.ts:119-174).
TypeOK ==
    /\ net.peers \in [Nodes -> [Names -> 0 .. Len(net.peer)]]
    /\ \A p \in DOMAIN net.peer :
          /\ net.peer[p].state \in {"connecting", "connected", "disconnected"}
          /\ net.peer[p].conn \in Ends \cup {NoEnd} /\ net.peer[p].dialing \in Ends \cup {NoEnd}
          /\ IsInjective(net.peer[p].outbox)
          /\ ToSet(net.peer[p].outbox) \subseteq DOMAIN net.msgs
    /\ \A i \in DOMAIN net.msgs : net.msgs[i].status \in Final \cup {"queued", "sent"}
    /\ \A e \in Ends : End(net, e).peer \in 0 .. Len(net.peer) /\ End(net, e).hello \in Names \cup {""}
    /\ net.started \in [Nodes -> {"new", "started", "stopped"}]
    /\ \A n \in Nodes : Len(inbox[n]) <= InboxEpochs
                        /\ \A b \in ToSet(inbox[n]) : Len(b.results) <= InboxResults
    /\ disturbed \in 0 .. MaxDisturbances

\* No connection leaks: an open end is the one its registered peer uses or dials with, and
\* an end that was accepted without having been admitted yet belongs to nobody.
OpenEndsOwned ==
    \A e \in Ends : ~End(net, e).closed =>
        LET p == End(net, e).peer
        IN  CASE p = 0 -> e[2] = "acceptor" /\ ~End(net, e).ready
              [] OTHER -> /\ IsRegistered(net, p)
                          /\ net.peer[p].conn = e <=> End(net, e).ready
                          /\ net.peer[p].dialing = e <=> ~End(net, e).ready

\* FR-MCP-019 AC-7: while the manager runs, what peer.list says of a link is so.
ListTellsTruth ==
    \A p \in DOMAIN net.peer :
        IsRegistered(net, p) /\ net.started[net.peer[p].node] = "started" =>
            /\ net.peer[p].state = "connected" <=> net.peer[p].conn # NoEnd
            /\ net.peer[p].state = "connecting" <=> net.peer[p].dialing # NoEnd

\* A call never waits on a connection that is gone: it fails with it.
CallsFailWithLink ==
    \A i \in DOMAIN net.calls :
        net.calls[i].status = "pending" => net.peer[net.calls[i].peer].conn # NoEnd

\* The objects of the manager fit together: variables have their types, queues and boxes
\* their bounds, connections their owners, and what a server tells of its links is so.
PeersFitTogether == TypeOK /\ OpenEndsOwned /\ ListTellsTruth /\ CallsFailWithLink

\* FR-MCP-018 AC-2, AC-5: a message without a final status is in the queue of the peer that
\* has its name by now, through reconnects, settings and forgotten peers.
NothingStranded ==
    \A i \in DOMAIN net.msgs :
        net.msgs[i].status \notin Final =>
            LET owner == net.peers[net.msgs[i].node][net.msgs[i].name]
            IN  owner # 0 /\ i \in ToSet(net.peer[owner].outbox)

\* FR-MCP-018 AC-5: a message reported as expired was never run on the other side.
ExpiredNeverRan ==
    \A i \in DOMAIN net.msgs : net.msgs[i].status = "expired" =>
        \A r \in DOMAIN runs : runs[r].msg # i

\* FR-MCP-018 AC-7: a message reported as delivered was run and its result was ok.
DeliveredRan ==
    \A i \in DOMAIN net.msgs : net.msgs[i].status = "delivered" =>
        \E r \in DOMAIN runs : runs[r].msg = i /\ runs[r].state = "ok"

\* The process that runs a message has received so many later ones of its sender that the
\* result is remembered no more.
Overtaken(r) ==
    LET later == {q \in r + 1 .. Len(runs) :
                     /\ runs[q].node = runs[r].node /\ runs[q].life = runs[r].life
                     /\ runs[q].epoch = runs[r].epoch}
    IN  Cardinality(later) >= InboxResults

\* FR-MCP-018 AC-4, AC-7: a message reported as failed was run and its result was not ok; one
\* reported as delivered was run and its result was ok, or has been forgotten, so that nobody
\* asked whether the run had ended.
ReportedRan ==
    \A i \in DOMAIN net.msgs :
        /\ net.msgs[i].status = "delivered" =>
              \E r \in DOMAIN runs : runs[r].msg = i /\ (runs[r].state = "ok" \/ Overtaken(r))
        /\ net.msgs[i].status = "failed" =>
              \E r \in DOMAIN runs : runs[r].msg = i /\ runs[r].state = "failed"

\* The status of a message is its fate, as far as the receiver remembers it.
FatesAreTrue == NothingStranded /\ ExpiredNeverRan /\ ReportedRan

\* The test at peerLinkManager.test.ts:322: a message sent again after a reconnect is not
\* run twice by the same process.
RunOnce ==
    \A r, q \in DOMAIN runs :
        runs[r].msg = runs[q].msg /\ runs[r].node = runs[q].node /\ runs[r].life = runs[q].life
            => r = q

\* FR-MCP-018 AC-3 and the test at peerLinkManager.test.ts:303: a node runs the messages of
\* a sender one at a time, in the order of their sequence.
OneAtATime ==
    \A r, q \in DOMAIN runs :
        (/\ runs[r].node = runs[q].node /\ runs[r].life = runs[q].life
         /\ runs[r].epoch = runs[q].epoch /\ runs[r].seq < runs[q].seq
         /\ Running(q) \/ runs[q].state \in {"ok", "failed"})
        => runs[r].state \in {"ok", "failed"}

\* The settings added and removed no link and renamed nobody: each configured link has the
\* Peer object it began with.  (A renamed sender, and a queue handed to a new peer, are new
\* senders to the inbox: peerLinkManager.ts:236, 636.)
LinksStay ==
    LET configured == {l \in Nodes \X Names : Links[l[1]][l[2]] # "none"}
    IN  /\ \A n \in Nodes : net.name[n] = n
        /\ \A n \in Nodes, name \in Names :
              IF <<n, name>> \in configured
              THEN net.peers[n][name] \in 1 .. Cardinality(configured)
              ELSE net.links[n][name] = "none"

\* The messages of a sender run in order, each once, whatever becomes of the connections, the
\* keys and the processes: both of the above.
RunsInOrder == LinksStay => RunOnce /\ OneAtATime

\* A link that n keeps configured while its process runs, and whether the other server has
\* one back to n.
Kept(n, name) == net.links[n][name] = "keyed" /\ net.started[n] = "started"
LinkedBack(n, name) == net.links[Target[name]][net.name[n]] # "none"
Connected(n, name) ==
    LET e == net.peer[net.peers[n][name]].conn
    IN  net.peers[n][name] # 0 /\ e # NoEnd /\ End(net, <<e[1], Other(e[2])>>).ready

\* FR-MCP-017 AC-3: a link that stays configured, on one side only, is connected in the end.
LinkRecovers ==
    \A n \in Nodes, name \in Names :
        <>[](Kept(n, name) /\ ~LinkedBack(n, name)) => <>[]Connected(n, name)

\* FR-MCP-018 AC-2: the messages of such a link reach a final status without waiting for their
\* time-to-live.
QueueDrains ==
    \A n \in Nodes, name \in Names :
        <>[](Kept(n, name) /\ ~LinkedBack(n, name))
        => <>[](\A i \in DOMAIN net.msgs :
                    net.msgs[i].node = n /\ net.msgs[i].name = name => net.msgs[i].status \in Final)
=============================================================================
