----------------------------- MODULE Gossipsub -----------------------------
(***************************************************************************)
(* EXTERNAL: what the eth_consensus and scoring plans use of libp2p's      *)
(* gossipsub, with validate_messages() set: connections, subscriptions,    *)
(* and messages that are held until the application reports on them.       *)
(*                                                                         *)
(* All the topics of a plan are one topic, since every peer subscribes to  *)
(* all of them, and a message is named for the peer that publishes it.     *)
(* Whether a swarm is polled is the application's business: it guards      *)
(* these actions.                                                          *)
(***************************************************************************)
CONSTANT Peer

VARIABLES
    connected,      \* connections, as pairs of dialer and target
    inflight,       \* packets sent and not handled
    topicPeers,     \* peers known to be subscribed
    seen,           \* messages in the duplicate cache, by publisher
    unvalidated     \* messages held until their validation is reported

Packet == [from : Peer, to : Peer, type : {"subscribe"}]
          \cup [from : Peer, to : Peer, type : {"message"}, source : Peer]

Subscription(n, m) == [from |-> n, to |-> m, type |-> "subscribe"]
Messages(n, S, s) == [from : {n}, to : S, type : {"message"}, source : {s}]

GossipsubTypeOK ==
    /\ connected \subseteq Peer \X Peer
    /\ inflight \subseteq Packet
    /\ topicPeers \in [Peer -> SUBSET Peer]
    /\ seen \in [Peer -> SUBSET Peer]
    /\ unvalidated \in [Peer -> SUBSET Peer]

GossipsubInit ==
    /\ connected = {}
    /\ inflight = {}
    /\ topicPeers = [n \in Peer |-> {}]
    /\ seen = [n \in Peer |-> {}]
    /\ unvalidated = [n \in Peer |-> {}]

\* A dial is upgraded to a connection; both ends, which have subscribed before,
\* tell each other.
Establish(d) ==
    /\ d \notin connected
    /\ connected' = connected \cup {d}
    /\ inflight' = inflight \cup {Subscription(d[1], d[2]), Subscription(d[2], d[1])}
    /\ UNCHANGED <<topicPeers, seen, unvalidated>>

\* A peer is found to be subscribed, and grafted.
LearnSubscription(p) ==
    /\ p \in inflight /\ p.type = "subscribe"
    /\ inflight' = inflight \ {p}
    /\ topicPeers' = [topicPeers EXCEPT ![p.to] = @ \cup {p.from}]
    /\ UNCHANGED <<connected, seen, unvalidated>>

\* n publishes its message to all the peers known; without any publish fails.
Flood(n) ==
    /\ n \notin seen[n]
    /\ topicPeers[n] # {}
    /\ seen' = [seen EXCEPT ![n] = @ \cup {n}]
    /\ inflight' = inflight \cup Messages(n, topicPeers[n], n)
    /\ UNCHANGED <<connected, topicPeers, unvalidated>>

\* A message in the cache is dropped without an event.
DropSeen(p) ==
    /\ p \in inflight /\ p.type = "message"
    /\ p.source \in seen[p.to]
    /\ inflight' = inflight \ {p}
    /\ UNCHANGED <<connected, topicPeers, seen, unvalidated>>

\* A new message is held, and becomes an event.
Hold(p) ==
    /\ p \in inflight /\ p.type = "message"
    /\ p.source \notin seen[p.to]
    /\ inflight' = inflight \ {p}
    /\ seen' = [seen EXCEPT ![p.to] = @ \cup {p.source}]
    /\ unvalidated' = [unvalidated EXCEPT ![p.to] = @ \cup {p.source}]
    /\ UNCHANGED <<connected, topicPeers>>

\* n reports that it accepts the message s that it has from a peer: it is
\* forwarded to the rest of the mesh.  With as few peers as the topologies of
\* the plans have, the mesh is all of them (mesh_n_low is 4).
ReportAccept(n, s, from) ==
    /\ unvalidated' = [unvalidated EXCEPT ![n] = @ \ {s}]
    /\ inflight' = IF s \in unvalidated[n]
                   THEN inflight \cup Messages(n, topicPeers[n] \ {from}, s) ELSE inflight
    /\ UNCHANGED <<connected, topicPeers, seen>>

\* An IHAVE / IWANT exchange of a heartbeat gets m a message that n has
\* validated: it may happen, no property relies on it.
Gossip(n, m, s) ==
    /\ <<n, m>> \in connected \/ <<m, n>> \in connected
    /\ m \in topicPeers[n]
    /\ s \in seen[n] \ (unvalidated[n] \cup seen[m])
    /\ inflight' = inflight \cup Messages(n, {m}, s)
    /\ UNCHANGED <<connected, topicPeers, seen, unvalidated>>

=============================================================================
