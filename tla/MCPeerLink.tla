------------------------------ MODULE MCPeerLink ------------------------------
(* Small instances of PeerLink for TLC: two servers, a and b; a2 is another    *)
(* name for a.                                                                 *)
EXTENDS PeerLink

CONSTANTS Keyed     \* the links configured at first: pairs of a node and a name

MCTarget == [name \in Names |-> IF name = "b" THEN "b" ELSE "a"]
MCLinks == [n \in Nodes |-> [name \in Names |-> IF <<n, name>> \in Keyed THEN "keyed" ELSE "none"]]
AB == {<<"a", "b">>}
BA == {<<"b", "a">>}
Both == AB \cup BA
None == {}

\* What goes wrong: connections only, or anything, less of it the more messages were sent.
BrokenOrRefused == [k \in 0 .. MaxMessages |-> {"break", "refuse"}]
Connections == [k \in 0 .. MaxMessages |-> {"break", "refuse", "rotate"}]
Anything == [k \in 0 .. MaxMessages |->
                Connections[k] \cup (IF k = 0 THEN {"rename", "stop"} ELSE {})
                               \cup (IF k <= 2 THEN {"settings", "restart"} ELSE {})]

NoCalls == [k \in 0 .. MaxMessages |-> 0]
CallFirst == [k \in 0 .. MaxMessages |-> IF k = 0 THEN 1 ELSE 0]

\* Only connections were disturbed: every server has its links, its name and its process.
OnlyConnections ==
    /\ LinksStay /\ net.links = Links /\ net.calls = <<>>
    /\ \A n \in Nodes : net.started[n] # "stopped" /\ life[n] = 0

\* Bound of the run: messages and calls do not meet, nor messages and a renamed or stopped node;
\* two disturbances meet one message, or two when they are of connections; one of a connection
\* meets three.
MessagesOrTopology ==
    /\ net.msgs # <<>> => /\ net.calls = <<>>
                          /\ \A n \in Nodes : net.name[n] = n /\ net.started[n] # "stopped"
    /\ net.msgs # <<>> \/ net.calls # <<>> =>
          disturbed <= 1 \/ Len(net.msgs) = 1 \/ OnlyConnections
    /\ Len(net.msgs) > 2 => OnlyConnections /\ disturbed <= 1
=============================================================================
