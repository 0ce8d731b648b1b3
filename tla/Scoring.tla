------------------------------ MODULE Scoring ------------------------------
(***************************************************************************)
(* The scoring test plan: scoring/src, main.rs, beacon_node.rs and the     *)
(* run() of attacker.rs.                                                   *)
(*                                                                         *)
(* Beacon nodes and attackers first collect each other's infos, and then   *)
(* go through the same barriers.  Beacon nodes form the generated          *)
(* topology and publish for their validators; every attacker dials the     *)
(* beacon node with the most validators.  An attacker polls its swarm      *)
(* while it waits at a barrier, a beacon node only in run_sim.             *)
(***************************************************************************)
EXTENDS Integers, Sequences, FiniteSets

CONSTANTS
    Beacon, Attacker,   \* the instances, by group
    FirstNode,          \* the beacon node whose node_id is 0
    Validators,         \* how many validators each beacon node has
    Outbound,           \* outbound_peers of the generated topology
    Publishers          \* bound: the beacon nodes whose messages are followed

Node == Beacon \cup Attacker
N == Cardinality(Node)      \* test_instance_count

ASSUME GroupsAssumption ==
    IsFiniteSet(Node) /\ Beacon \cap Attacker = {} /\ FirstNode \in Beacon
ASSUME ValidatorsAssumption == Validators \in [Beacon -> Nat]
ASSUME PublishersAssumption == Publishers \subseteq {n \in Beacon : Validators[n] > 0}
ASSUME OutboundAssumption ==
    /\ Outbound \in [Beacon -> SUBSET Beacon]
    /\ \A a, b \in Beacon : b \in Outbound[a] => a # b /\ a \notin Outbound[b]

VARIABLES
    pc, phase,      \* where run() is, and how many barriers it has passed
    target,         \* target_node_id, FirstNode until the attacker has chosen
    \* EXTERNAL: the sync service
    beaconInfos,    \* the topic "beacon_node_info", an ordered log
    attackerInfos,  \* the topic "attacker_info"
    counter,        \* counter[b]: signals received for barrier b
    \* EXTERNAL: the swarm
    listening, dialled, refused,                            \* as in EthConsensus
    connected, inflight, topicPeers, seen, unvalidated      \* see Gossipsub

app   == <<pc, phase, target>>
sync  == <<beaconInfos, attackerInfos, counter>>
conns == <<listening, dialled, refused>>
gossipsub == <<connected, inflight, topicPeers, seen, unvalidated>>
vars  == <<app, sync, conns, gossipsub>>

INSTANCE Gossipsub WITH Peer <- Beacon

\* Network configured, Started libp2p, Topology generated, Simulation completed
Barriers == 4

PC == {"signal", "barrier", "publish_info", "collect_beacon_nodes",
       "collect_attackers", "listen", "dial", "subscribe", "run", "record", "done"}

\* The swarm of a beacon node is polled in the loop of run_sim.
Running(n) == pc[n] = "run"

TypeOK ==
    /\ pc \in [Node -> PC]
    /\ phase \in [Node -> 0..Barriers]
    /\ target \in [Attacker -> Beacon]
    /\ beaconInfos \in Seq(Beacon)
    /\ attackerInfos \subseteq Attacker
    /\ counter \in [1..Barriers -> 0..N]
    /\ listening \subseteq Node
    /\ dialled \subseteq Node \X Beacon
    /\ refused \subseteq dialled
    /\ GossipsubTypeOK

Init ==
    /\ pc = [n \in Node |-> "signal"]
    /\ phase = [n \in Node |-> 0]
    /\ target = [n \in Attacker |-> FirstNode]
    /\ beaconInfos = <<>> /\ attackerInfos = {}
    /\ counter = [b \in 1..Barriers |-> 0]
    /\ listening = {} /\ dialled = {} /\ refused = {}
    /\ GossipsubInit

Goto(n, place) == pc' = [pc EXCEPT ![n] = place]

----------------------------------------------------------------------------
(* Both groups *)

\* Mutant: signals again when polled again.
SignalAgain(n) ==
    /\ pc[n] \in {"signal", "barrier"}
    /\ counter' = [counter EXCEPT ![phase[n] + 1] = @ + 1]
    /\ Goto(n, "barrier")
    /\ UNCHANGED <<phase, target, beaconInfos, attackerInfos, conns, gossipsub>>

\* The first signal is sent for the instance once configure_network is done.
Signal(n) ==
    /\ pc[n] = "signal"
    /\ counter' = [counter EXCEPT ![phase[n] + 1] = @ + 1]
    /\ Goto(n, "barrier")
    /\ UNCHANGED <<phase, target, beaconInfos, attackerInfos, conns, gossipsub>>

\* Where run() continues after its k-th barrier.
AfterBarrier(n, k) ==
    IF n \in Beacon THEN <<"publish_info", "dial", "subscribe", "done">>[k]
    ELSE <<"listen", "dial", "signal", "done">>[k]

\* Mutant: waits for the instances of the own group.
PassBarrierOfGroup(n) ==
    /\ pc[n] = "barrier"
    /\ counter[phase[n] + 1] >= Cardinality(IF n \in Beacon THEN Beacon ELSE Attacker)
    /\ phase' = [phase EXCEPT ![n] = @ + 1]
    /\ Goto(n, AfterBarrier(n, phase[n] + 1))
    /\ UNCHANGED <<target, sync, conns, gossipsub>>

PassBarrier(n) ==
    /\ pc[n] = "barrier"
    /\ counter[phase[n] + 1] >= N
    /\ phase' = [phase EXCEPT ![n] = @ + 1]
    /\ Goto(n, AfterBarrier(n, phase[n] + 1))
    /\ UNCHANGED <<target, sync, conns, gossipsub>>

Listen(n) ==
    /\ pc[n] = "listen"
    /\ listening' = listening \cup {n}
    /\ Goto(n, IF n \in Beacon THEN "signal" ELSE "collect_beacon_nodes")
    /\ UNCHANGED <<phase, target, sync, dialled, refused, gossipsub>>

Targets(n) == IF n \in Beacon THEN Outbound[n] ELSE {target[n]}

\* The outbound peers of a beacon node, the target of an attacker.
Dial(n) ==
    /\ pc[n] = "dial"
    /\ dialled' = dialled \cup ({n} \X Targets(n))
    /\ refused' = refused \cup ({n} \X (Targets(n) \ listening))
    /\ Goto(n, "signal")
    /\ UNCHANGED <<phase, target, sync, listening, gossipsub>>

----------------------------------------------------------------------------
(* Beacon nodes *)

PublishBeaconInfo(n) ==
    /\ n \in Beacon /\ pc[n] = "publish_info"
    /\ beaconInfos' = Append(beaconInfos, n)
    /\ Goto(n, "collect_beacon_nodes")
    /\ UNCHANGED <<phase, target, attackerInfos, counter, conns, gossipsub>>

CollectBeaconNodes(n) ==
    /\ n \in Beacon /\ pc[n] = "collect_beacon_nodes"
    /\ Len(beaconInfos) >= Cardinality(Beacon)
    /\ Goto(n, "collect_attackers")
    /\ UNCHANGED <<phase, target, sync, conns, gossipsub>>

CollectAttackers(n) ==
    /\ pc[n] = "collect_attackers"
    /\ Cardinality(attackerInfos) >= Cardinality(Attacker)
    /\ Goto(n, "listen")
    /\ UNCHANGED <<phase, target, sync, conns, gossipsub>>

\* subscribe_topics: no peer is connected yet to be told.
Subscribe(n) ==
    /\ pc[n] = "subscribe"
    /\ Goto(n, "run")
    /\ UNCHANGED <<phase, target, sync, conns, gossipsub>>

\* EXTERNAL: a dial between beacon nodes is upgraded while both are polled.
Connect(d) ==
    /\ d \in dialled \ refused
    /\ d \in Beacon \X Beacon
    /\ Running(d[1]) /\ Running(d[2])
    /\ Establish(d)
    /\ UNCHANGED <<app, sync, conns>>

\* messages_gen yields a message of a validator.
Publish(n) ==
    /\ Running(n)
    /\ n \in Publishers
    /\ Flood(n)
    /\ UNCHANGED <<app, sync, conns>>

\* Event::Message is counted (see handle_gossipsub_event), any other is logged.
\* Nothing reports on the message that gossipsub holds.
HandleEvent(p) ==
    /\ Running(p.to)
    /\ LearnSubscription(p) \/ DropSeen(p) \/ Hold(p)
    /\ UNCHANGED <<app, sync, conns>>

\* EXTERNAL: the heartbeat.
Heartbeat(n, m) ==
    /\ Running(n) /\ Running(m)
    /\ \E s \in Beacon : Gossip(n, m, s)
    /\ UNCHANGED <<app, sync, conns>>

Deadline(n) ==
    /\ Running(n)
    /\ Goto(n, "record")
    /\ UNCHANGED <<phase, target, sync, conns, gossipsub>>

\* The counts per epoch are recorded.
Record(n) ==
    /\ pc[n] = "record"
    /\ Goto(n, "signal")
    /\ UNCHANGED <<phase, target, sync, conns, gossipsub>>

----------------------------------------------------------------------------
(* Attackers *)

\* The fold over the infos in the order of the log: the first of those with the
\* most validators, or node 0 if none has any.
FirstWithMost(log) ==
    LET best == {i \in DOMAIN log : \A j \in DOMAIN log : Validators[log[j]] <= Validators[log[i]]}
        first == log[CHOOSE i \in best : \A j \in best : i <= j]
    IN  IF Validators[first] > 0 THEN first ELSE FirstNode

\* Mutant: waits for the first of the infos only.
CollectBeaconNodeInfoEarly(n) ==
    /\ n \in Attacker /\ pc[n] = "collect_beacon_nodes"
    /\ Len(beaconInfos) >= 1
    /\ target' = [target EXCEPT ![n] = FirstWithMost(beaconInfos)]
    /\ Goto(n, "publish_info")
    /\ UNCHANGED <<phase, sync, conns, gossipsub>>

CollectBeaconNodeInfo(n) ==
    /\ n \in Attacker /\ pc[n] = "collect_beacon_nodes"
    /\ Len(beaconInfos) >= Cardinality(Beacon)
    /\ target' = [target EXCEPT ![n] = FirstWithMost(beaconInfos)]
    /\ Goto(n, "publish_info")
    /\ UNCHANGED <<phase, sync, conns, gossipsub>>

\* Mutant: publishes on a topic that nobody collects.
PublishAttackerInfoElsewhere(n) ==
    /\ n \in Attacker /\ pc[n] = "publish_info"
    /\ Goto(n, "signal")
    /\ UNCHANGED <<phase, target, sync, conns, gossipsub>>

PublishAttackerInfo(n) ==
    /\ n \in Attacker /\ pc[n] = "publish_info"
    /\ attackerInfos' = attackerInfos \cup {n}
    /\ Goto(n, "signal")
    /\ UNCHANGED <<phase, target, beaconInfos, counter, conns, gossipsub>>

----------------------------------------------------------------------------

Setup(n) ==
    \/ Signal(n) \/ PassBarrier(n) \/ Listen(n) \/ Dial(n)
    \/ PublishBeaconInfo(n) \/ CollectBeaconNodes(n) \/ CollectAttackers(n)
    \/ Subscribe(n) \/ Record(n)
    \/ CollectBeaconNodeInfo(n) \/ PublishAttackerInfo(n)

Receive(n) == \E p \in inflight : p.to = n /\ HandleEvent(p)

Next ==
    \/ \E n \in Node : Setup(n)
    \/ \E n \in Beacon : \/ Receive(n) \/ Publish(n) \/ Deadline(n)
                         \/ \E m \in Beacon : Heartbeat(n, m)
    \/ \E d \in dialled : Connect(d)

\* select! chooses at random among the branches that are ready, so each has its
\* turn, and the network delivers.  Nothing is assumed of the deadlines.
Fairness ==
    /\ \A n \in Node : WF_vars(Setup(n))
    /\ \A n \in Beacon : WF_vars(Receive(n)) /\ WF_vars(Publish(n))
    /\ \A d \in Beacon \X Beacon : WF_vars(Connect(d))

Spec == Init /\ [][Next]_vars /\ Fairness

----------------------------------------------------------------------------
(* Properties *)

\* "Connect to a single target with the highest number of validators"
\* (README.md:31): the attackers choose it each by itself, from a log in any
\* order and with ties in it, and all dial the same.
SingleTarget ==
    \A m \in Attacker, t \in Beacon : <<m, t>> \in dialled =>
        /\ \A b \in Beacon : Validators[b] <= Validators[t]
        /\ \A k \in Attacker, u \in Beacon : <<k, u>> \in dialled => u = t

\* A beacon node polls its swarm only while it runs: when the first is through,
\* every dial that its connections come from has been made.
AllDialledBeforeRun ==
    \A n \in Beacon : phase[n] >= 3 => \A m \in Node : {m} \X Targets(m) \subseteq dialled

Rounds == INSTANCE BarrierRounds WITH
            arrived <- [n \in Node |-> phase[n] + (IF pc[n] = "barrier" THEN 1 ELSE 0)],
            passed <- phase

\* "Sets a barrier on the supplied state that fires when it reaches all
\* participants." (attacker.rs:178), for both groups and all the four states.
ImplementsBarriers == Rounds!Init /\ [][Rounds!Next]_(Rounds!vars)

\* The two groups never wait for each other: all the beacon nodes get to their
\* loop, and if all the deadlines come, every instance succeeds.
AllSucceed ==
    /\ <>(\A n \in Beacon : phase[n] = 3 /\ pc[n] # "subscribe")
    /\ (\A n \in Beacon : phase[n] = 3 /\ pc[n] \notin {"subscribe", "run"})
            ~> (\A n \in Node : pc[n] = "done")

Formed ==
    \A a, b \in Beacon : b \in Outbound[a] => b \in topicPeers[a] /\ a \in topicPeers[b]

\* The attackers are the ones that "do not propagate received messages"
\* (README.md:3-4): between beacon nodes a message published once the topology
\* is formed reaches all, unless a deadline stops one of them.
Propagates ==
    \A s \in Publishers :
        (Formed /\ s \notin seen[s])
            ~> \/ \A n \in Beacon : s \in seen[n]
               \/ \E n \in Beacon : phase[n] >= 3 /\ pc[n] \notin {"subscribe", "run"}

============================================================================
