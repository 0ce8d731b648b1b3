---------------------------- MODULE EthConsensus ----------------------------
(***************************************************************************)
(* The eth_consensus test plan: eth_consensus/simulation/src, main.rs,     *)
(* network.rs and network/run.rs.                                          *)
(*                                                                         *)
(* Each node publishes its address, generates the topology, dials its part *)
(* of it and subscribes; then run_sim publishes for the validators of the  *)
(* node, validates what it receives after an artificial delay and spawns a *)
(* task for each set of metrics, until the deadline.  Every wait is a      *)
(* signal_and_wait that does not poll the swarm.  What is EXTERNAL is      *)
(* modelled by what the plan uses of it.                                   *)
(***************************************************************************)
EXTENDS Integers, FiniteSets

CONSTANTS
    Node,
    Outbound,       \* outbound_peers of the generated topology, one for all
    Publishers,     \* the nodes that have validators, one message for each
    MaxHandles      \* bound on the tasks in influx_db_handles

N == Cardinality(Node)      \* test_instance_count

ASSUME NodeAssumption == IsFiniteSet(Node) /\ Node # {}
\* Every connection is dialled from one of its ends: see GenTopology.
ASSUME OutboundAssumption ==
    /\ Outbound \in [Node -> SUBSET Node]
    /\ \A a, b \in Node : b \in Outbound[a] => a # b /\ a \notin Outbound[b]
ASSUME PublishersAssumption == Publishers \subseteq Node
ASSUME HandlesAssumption == MaxHandles \in Nat \ {0}

VARIABLES
    pc,             \* where run() is
    phase,          \* how many of its three waits it has passed
    running,        \* influx_db_handles: tasks still running ...
    finished,       \* ... and tasks that have ended but were not yet removed
    toValidate,     \* messages_to_validate: message and propagation source
    \* EXTERNAL: the sync service
    infos,          \* nodes whose "node_info" was published
    counter,        \* counter[state]: signals received for the state
    \* EXTERNAL: the swarm
    listening,      \* nodes whose socket is bound
    dialled,        \* dials made, as pairs of dialer and target
    refused,        \* those that were refused
    connected, inflight, topicPeers, seen, unvalidated      \* see Gossipsub

app   == <<pc, phase, running, finished, toValidate>>
sync  == <<infos, counter>>
conns == <<listening, dialled, refused>>
gossipsub == <<connected, inflight, topicPeers, seen, unvalidated>>
vars  == <<app, sync, conns, gossipsub>>

INSTANCE Gossipsub WITH Peer <- Node

\* Mutant: one name for all three.
BarrierStateShared == <<"Topology generated", "Topology generated", "Topology generated">>

\* The state each wait is made on.
BarrierState == <<"Topology generated", "Started libp2p", "Topology generated">>

BarrierStates == {"Topology generated", "Started libp2p"}

\* Where run() continues after each wait.
AfterBarrier == <<"listen", "dial", "subscribe">>

PC == {"publish_info", "collect", "signal", "barrier", "listen", "dial",
       "subscribe", "run", "drain", "done"}

\* The swarm is polled in the loop of run_sim.
Running(n) == pc[n] = "run"

\* Barriers n has signalled.
Arrived(n) == phase[n] + (IF pc[n] = "barrier" THEN 1 ELSE 0)

TypeOK ==
    /\ pc \in [Node -> PC]
    /\ phase \in [Node -> 0..3]
    /\ running \in [Node -> 0..MaxHandles]
    /\ finished \in [Node -> 0..MaxHandles]
    /\ toValidate \in [Node -> SUBSET (Node \X Node)]
    /\ infos \subseteq Node
    /\ counter \in [BarrierStates -> 0 .. 2 * N]
    /\ listening \subseteq Node
    /\ dialled \subseteq Node \X Node
    /\ refused \subseteq dialled
    /\ GossipsubTypeOK

Init ==
    /\ pc = [n \in Node |-> "publish_info"]
    /\ phase = [n \in Node |-> 0]
    /\ running = [n \in Node |-> 0]
    /\ finished = [n \in Node |-> 0]
    /\ toValidate = [n \in Node |-> {}]
    /\ infos = {}
    /\ counter = [b \in BarrierStates |-> 0]
    /\ listening = {} /\ dialled = {} /\ refused = {}
    /\ GossipsubInit

----------------------------------------------------------------------------
(* Setting up *)

PublishInfo(n) ==
    /\ pc[n] = "publish_info"
    /\ infos' = infos \cup {n}
    /\ pc' = [pc EXCEPT ![n] = "collect"]
    /\ UNCHANGED <<phase, running, finished, toValidate, counter, conns, gossipsub>>

\* publish_and_collect returns; the topology is generated.
Collect(n) ==
    /\ pc[n] = "collect"
    /\ infos = Node
    /\ pc' = [pc EXCEPT ![n] = "signal"]
    /\ UNCHANGED <<phase, running, finished, toValidate, sync, conns, gossipsub>>

Signal(n) ==
    /\ pc[n] = "signal"
    /\ counter' = [counter EXCEPT ![BarrierState[phase[n] + 1]] = @ + 1]
    /\ pc' = [pc EXCEPT ![n] = "barrier"]
    /\ UNCHANGED <<phase, running, finished, toValidate, infos, conns, gossipsub>>

\* Mutant: waits for exactly test_instance_count signals.
PassBarrierExact(n) ==
    /\ pc[n] = "barrier"
    /\ counter[BarrierState[phase[n] + 1]] = N
    /\ phase' = [phase EXCEPT ![n] = @ + 1]
    /\ pc' = [pc EXCEPT ![n] = AfterBarrier[phase[n] + 1]]
    /\ UNCHANGED <<running, finished, toValidate, sync, conns, gossipsub>>

\* The state has been signalled test_instance_count times, or more.
PassBarrier(n) ==
    /\ pc[n] = "barrier"
    /\ counter[BarrierState[phase[n] + 1]] >= N
    /\ phase' = [phase EXCEPT ![n] = @ + 1]
    /\ pc' = [pc EXCEPT ![n] = AfterBarrier[phase[n] + 1]]
    /\ UNCHANGED <<running, finished, toValidate, sync, conns, gossipsub>>

\* start_libp2p: the first event of the swarm is NewListenAddr.
Listen(n) ==
    /\ pc[n] = "listen"
    /\ listening' = listening \cup {n}
    /\ pc' = [pc EXCEPT ![n] = "signal"]
    /\ UNCHANGED <<phase, running, finished, toValidate, sync, dialled, refused,
                   gossipsub>>

\* dial_peers.  The pool connects in tasks of its own, polled or not.
Dial(n) ==
    LET dials == {n} \X Outbound[n] IN
    /\ pc[n] = "dial"
    /\ dialled' = dialled \cup dials
    /\ refused' = refused \cup {d \in dials : d[2] \notin listening}
    /\ pc' = [pc EXCEPT ![n] = "signal"]
    /\ UNCHANGED <<phase, running, finished, toValidate, sync, listening, gossipsub>>

\* subscribe_topics, all topics as one: no peer is connected yet to be told.
\* Then run_sim starts the task that initialises the metrics.
Subscribe(n) ==
    /\ pc[n] = "subscribe"
    /\ running' = [running EXCEPT ![n] = 1]
    /\ pc' = [pc EXCEPT ![n] = "run"]
    /\ UNCHANGED <<phase, finished, toValidate, sync, conns, gossipsub>>

----------------------------------------------------------------------------
(* The branches of run_sim *)

\* EXTERNAL: the dial is upgraded while both swarms are polled.
Connect(d) ==
    /\ d \in dialled \ refused
    /\ Running(d[1]) /\ Running(d[2])
    /\ Establish(d)
    /\ UNCHANGED <<app, sync, conns>>

\* Any other event than a message is logged.
HandleOther(p) ==
    /\ Running(p.to)
    /\ LearnSubscription(p) \/ DropSeen(p)
    /\ UNCHANGED <<app, sync, conns>>

\* messages_gen yields a message of a validator.  If publish fails run_sim logs
\* the error and goes on: the message is lost.
Publish(n) ==
    /\ Running(n)
    /\ n \in Publishers
    /\ Flood(n)
    /\ UNCHANGED <<app, sync, conns>>

\* Mutant: validates a node's messages one at a time and forgets the others.
CustomValidationOne(n, s, peer) ==
    IF toValidate[n] = {} THEN {<<s, peer>>} ELSE toValidate[n]

CustomValidation(n, s, peer) == toValidate[n] \cup {<<s, peer>>}

\* Event::Message: custom_validation queues the message for a while.
HandleMessage(p) ==
    /\ Running(p.to)
    /\ Hold(p)
    /\ toValidate' = [toValidate EXCEPT ![p.to] = CustomValidation(p.to, p.source, p.from)]
    /\ UNCHANGED <<pc, phase, running, finished, sync, conns>>

\* Mutant: the delay is over and nothing is reported.
ValidateSilently(n, x) ==
    /\ Running(n)
    /\ x \in toValidate[n]
    /\ toValidate' = [toValidate EXCEPT ![n] = @ \ {x}]
    /\ UNCHANGED <<pc, phase, running, finished, sync, conns, gossipsub>>

\* The delay of a queued message is over, in any order: it is reported.
Validate(n, x) ==
    /\ Running(n)
    /\ x \in toValidate[n]
    /\ toValidate' = [toValidate EXCEPT ![n] = @ \ {x}]
    /\ ReportAccept(n, x[1], x[2])
    /\ UNCHANGED <<pc, phase, running, finished, sync, conns>>

\* EXTERNAL: the heartbeat.
Heartbeat(n, m) ==
    /\ Running(n) /\ Running(m)
    /\ \E s \in Node : Gossip(n, m, s)
    /\ UNCHANGED <<app, sync, conns>>

\* The interval ticks: a task that records the metrics is spawned.
MetricsTick(n) ==
    /\ Running(n)
    /\ running[n] + finished[n] < MaxHandles
    /\ running' = [running EXCEPT ![n] = @ + 1]
    /\ UNCHANGED <<pc, phase, finished, toValidate, sync, conns, gossipsub>>

\* A task ends.  The runtime that runs them ends with main().
TaskEnds(n) ==
    /\ pc[n] # "done"
    /\ running[n] > 0
    /\ running' = [running EXCEPT ![n] = @ - 1]
    /\ finished' = [finished EXCEPT ![n] = @ + 1]
    /\ UNCHANGED <<pc, phase, toValidate, sync, conns, gossipsub>>

\* Mutant: takes the None of an empty set of handles for a handle.
RemoveHandleUnguarded(n) ==
    /\ Running(n)
    /\ finished' = [finished EXCEPT ![n] = @ - 1]
    /\ UNCHANGED <<pc, phase, running, toValidate, sync, conns, gossipsub>>

\* influx_db_handles.next() in the loop: with no handles left it is ready at
\* once and changes nothing.
RemoveHandle(n) ==
    /\ Running(n)
    /\ finished[n] > 0
    /\ finished' = [finished EXCEPT ![n] = @ - 1]
    /\ UNCHANGED <<pc, phase, running, toValidate, sync, conns, gossipsub>>

\* Mutant: run() returns at the deadline.
DeadlineReturns(n) ==
    /\ Running(n)
    /\ pc' = [pc EXCEPT ![n] = "done"]
    /\ UNCHANGED <<phase, running, finished, toValidate, sync, conns, gossipsub>>

\* Sim complete.
Deadline(n) ==
    /\ Running(n)
    /\ pc' = [pc EXCEPT ![n] = "drain"]
    /\ UNCHANGED <<phase, running, finished, toValidate, sync, conns, gossipsub>>

\* while influx_db_handles.next().await.is_some() {}, then record_success.
Drain(n) ==
    /\ pc[n] = "drain"
    /\ IF finished[n] > 0
       THEN /\ finished' = [finished EXCEPT ![n] = @ - 1]
            /\ UNCHANGED pc
       ELSE /\ running[n] = 0
            /\ pc' = [pc EXCEPT ![n] = "done"]
            /\ UNCHANGED finished
    /\ UNCHANGED <<phase, running, toValidate, sync, conns, gossipsub>>

----------------------------------------------------------------------------

Setup(n) ==
    \/ PublishInfo(n) \/ Collect(n) \/ Signal(n) \/ PassBarrier(n)
    \/ Listen(n) \/ Dial(n) \/ Subscribe(n) \/ Drain(n)

\* What one node's swarm is polled for.
Receive(n) ==
    \E p \in inflight : p.to = n /\ (HandleOther(p) \/ HandleMessage(p))

Validation(n) == \E x \in toValidate[n] : Validate(n, x)

Next ==
    \/ \E n \in Node : \/ Setup(n) \/ Receive(n) \/ Publish(n) \/ Validation(n)
                       \/ MetricsTick(n) \/ TaskEnds(n) \/ RemoveHandle(n)
                       \/ Deadline(n)
                       \/ \E m \in Node : Heartbeat(n, m)
    \/ \E d \in dialled : Connect(d)

\* select! chooses at random among the branches that are ready, so each has its
\* turn; the tasks run and the network delivers.
LoopFairness ==
    /\ \A n \in Node : /\ WF_vars(Setup(n)) /\ WF_vars(Receive(n))
                       /\ WF_vars(Publish(n)) /\ WF_vars(Validation(n))
                       /\ WF_vars(TaskEnds(n)) /\ WF_vars(RemoveHandle(n))
    /\ \A d \in Node \X Node : WF_vars(Connect(d))

\* Nothing is assumed of the deadlines, so that what needs a run to be long
\* enough is required of those that are.
Spec == Init /\ [][Next]_vars /\ LoopFairness

----------------------------------------------------------------------------
(* Properties *)

\* dial_peers is not retried, and panics or loses an edge of the topology if
\* the target is not there: the wait between start_libp2p and dial_peers must
\* have seen every node listening, although its neighbours use another state.
NoDialRefused == refused = {}

\* gossipsub forwards nothing it holds until the plan reports on it: whatever
\* the order of the arrivals and of the delays, each message it holds is queued
\* for validation, once, with the peer that has to be named in the report.
HeldIsQueued ==
    \A n \in Node :
        /\ unvalidated[n] = {x[1] : x \in toValidate[n]}
        /\ Cardinality(unvalidated[n]) = Cardinality(toValidate[n])

\* influx_db_handles are kept "to end gracefully" (network.rs:48): a node that
\* records success has no task left that the end of main() would cut off.
NoTaskCutOff == \A n \in Node : pc[n] = "done" => running[n] = 0

\* The first two waits implement rounds of barriers; see AllDialledBeforeRun
\* for the third.
Least(a, b) == IF a < b THEN a ELSE b
Rounds == INSTANCE BarrierRounds WITH
            Barriers <- 2,
            arrived <- [n \in Node |-> Least(Arrived(n), 2)],
            passed <- [n \in Node |-> Least(phase[n], 2)]
ImplementsBarriers == Rounds!Init /\ [][Rounds!Next]_(Rounds!vars)

\* The generated topology is formed: every edge is a connection whose ends know
\* each other's subscriptions.
Formed ==
    \A a, b \in Node : b \in Outbound[a] => b \in topicPeers[a] /\ a \in topicPeers[b]

\* A message published once the topology is formed reaches every node, however
\* many hops away, through the artificial delays of all the nodes between, unless
\* a deadline stops one of them.
Propagates ==
    \A s \in Publishers :
        (Formed /\ s \notin seen[s])
            ~> \/ \A n \in Node : s \in seen[n]
               \/ \E n \in Node : pc[n] \in {"drain", "done"}

\* No wait is without end: every node gets to its loop, though the third wait
\* counts on signals of the first, and if all the deadlines come, all succeed.
AllSucceed ==
    /\ <>(\A n \in Node : pc[n] \in {"run", "drain", "done"})
    /\ (\A n \in Node : pc[n] \in {"drain", "done"}) ~> (\A n \in Node : pc[n] = "done")

\* "Sets a barrier on the supplied state that fires when it reaches all
\* participants" (smoke/src/main.rs:311), of the wait after dial_peers: when a
\* node goes on to subscribe, all have dialled.
AllDialledBeforeRun ==
    \A n \in Node : phase[n] = 3 => \A m \in Node : {m} \X Outbound[m] \subseteq dialled

============================================================================
