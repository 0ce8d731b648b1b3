------------------------------- MODULE Smoke -------------------------------
(***************************************************************************)
(* The smoke test plan: smoke/src/main.rs.                                 *)
(*                                                                         *)
(* Each instance listens, dials one peer chosen from the addresses all of  *)
(* them published, subscribes to one topic, publishes one message and      *)
(* waits for the messages of all the others.  Four barriers separate the   *)
(* stages.  The testground sync service and libp2p are not in this         *)
(* repository: they are modelled by what main.rs uses of them, and marked  *)
(* EXTERNAL below.                                                         *)
(***************************************************************************)
EXTENDS Integers, Sequences, FiniteSets

CONSTANTS
    Node,       \* the instances of a run
    Slot        \* where the shuffle, seeded alike on every instance, puts
                \* the last element of the vector it permutes

N == Cardinality(Node)      \* client.run_parameters().test_instance_count

ASSUME NodeAssumption == IsFiniteSet(Node) /\ Cardinality(Node) >= 2
ASSUME SlotAssumption == Slot \in 1 .. Cardinality(Node) - 1

VARIABLES
    \* one entry per instance: the state of main()
    pc,                 \* where main() is
    phase,              \* how many barriers it has passed
    eventSubscribed,    \* event_subscribed
    allPeers,           \* the all_peers count taken after subscribing
    eventMessage,       \* event_message: sources of the messages received
    dial,               \* the peer dialled, or the instance itself if none
    \* EXTERNAL: the sync service
    counter,            \* counter[b]: signals received for barrier b
    addresses,          \* the "publish_and_collect" topic: an ordered log
    \* EXTERNAL: the swarm
    listening,          \* instances whose socket is bound
    refused,            \* instances whose dial was refused
    accepted,           \* dialers whose connection their target accepted
    reported,           \* dialers whose connection the target was told of
    chan,               \* chan[<<m, n>>]: packets m has sent and n not handled
    topicPeers,         \* peers gossipsub knows to be subscribed
    seen                \* sources in gossipsub's duplicate cache

app   == <<pc, phase, eventSubscribed, allPeers, eventMessage, dial>>
sync  == <<counter, addresses>>
swarm == <<listening, refused, accepted, reported, chan, topicPeers, seen>>
vars  == <<app, sync, swarm>>

Barriers == 4   \* Started listening, Connected to a peer, Subscribed a
                \* topic, Published a message

\* Where main() continues after each barrier.
AfterBarrier == <<"publish_address", "subscribe", "publish", "done">>

PC == {"listen", "signal", "barrier", "publish_address", "collect", "connect",
       "subscribe", "await_subscriptions", "publish", "await_messages",
       "done", "failed", "unreachable", "insufficient_peers"}

Subscribe == [type |-> "subscribe"]
Message(s) == [type |-> "message", source |-> s]
Packet == {Subscribe} \cup {Message(s) : s \in Node}

\* main() polls the swarm: in its three event loops, and while
\* barrier_and_drive_swarm waits for the sync service.
Polling(n) == pc[n] \in {"connect", "signal", "barrier",
                         "await_subscriptions", "await_messages"}

\* Stages n has completed, counting one whose barrier it is still at.
Stage(n) == phase[n] + (IF pc[n] \in {"signal", "barrier"} THEN 1 ELSE 0)

\* Barriers n has signalled.
Arrived(n) == phase[n] + (IF pc[n] = "barrier" THEN 1 ELSE 0)

\* The swarm of a has reported a connection with b: main() leaves the
\* connect loop on the one it dialled, the one b dialled comes in any loop.
Connected(a, b) ==
    \/ dial[a] = b /\ Stage(a) >= 2
    \/ dial[b] = a /\ b \in reported

Peers(a) == {b \in Node \ {a} : Connected(a, b)}    \* all_peers()

Subscribed(a) == phase[a] >= 2 /\ pc[a] # "subscribe"

TypeOK ==
    /\ pc \in [Node -> PC]
    /\ phase \in [Node -> 0..Barriers]
    /\ eventSubscribed \in [Node -> Nat]
    /\ allPeers \in [Node -> 0 .. N - 1]
    /\ eventMessage \in [Node -> SUBSET Node]
    /\ dial \in [Node -> Node]
    /\ counter \in [1..Barriers -> 0..N]
    /\ addresses \in Seq(Node)
    /\ listening \subseteq Node
    /\ refused \subseteq Node
    /\ accepted \subseteq Node
    /\ reported \subseteq Node
    /\ chan \in [Node \X Node -> Seq(Packet)]
    /\ topicPeers \in [Node -> SUBSET Node]
    /\ seen \in [Node -> SUBSET Node]

Init ==
    /\ pc = [n \in Node |-> "listen"]
    /\ phase = [n \in Node |-> 0]
    /\ eventSubscribed = [n \in Node |-> 0]
    /\ allPeers = [n \in Node |-> 0]
    /\ eventMessage = [n \in Node |-> {}]
    /\ dial = [n \in Node |-> n]
    /\ counter = [b \in 1..Barriers |-> 0]
    /\ addresses = <<>>
    /\ listening = {}
    /\ refused = {}
    /\ accepted = {}
    /\ reported = {}
    /\ chan = [c \in Node \X Node |-> <<>>]
    /\ topicPeers = [n \in Node |-> {}]
    /\ seen = [n \in Node |-> {}]

\* Appends packet p to the channel from n to each peer in S.
Send(n, S, p) ==
    [c \in Node \X Node |-> IF c[1] = n /\ c[2] \in S THEN Append(chan[c], p)
                            ELSE chan[c]]

----------------------------------------------------------------------------
(* Setting up, and the barriers *)

\* Builds the swarm and binds the socket.
Listen(n) ==
    /\ pc[n] = "listen"
    /\ listening' = listening \cup {n}
    /\ pc' = [pc EXCEPT ![n] = "signal"]
    /\ UNCHANGED <<phase, eventSubscribed, allPeers, eventMessage, dial, sync,
                   refused, accepted, reported, chan, topicPeers, seen>>

\* Mutant: the signal is sent again each time the wait is polled.
SignalAgain(n) ==
    /\ pc[n] \in {"signal", "barrier"}
    /\ counter' = [counter EXCEPT ![phase[n] + 1] = @ + 1]
    /\ pc' = [pc EXCEPT ![n] = "barrier"]
    /\ UNCHANGED <<phase, eventSubscribed, allPeers, eventMessage, dial,
                   addresses, swarm>>

\* signal_and_wait, first half: the service counts the signal.
Signal(n) ==
    /\ pc[n] = "signal"
    /\ counter' = [counter EXCEPT ![phase[n] + 1] = @ + 1]
    /\ pc' = [pc EXCEPT ![n] = "barrier"]
    /\ UNCHANGED <<phase, eventSubscribed, allPeers, eventMessage, dial,
                   addresses, swarm>>

\* Mutant: waits for the others only, instead of for all the instances.
PassBarrierEarly(n) ==
    /\ pc[n] = "barrier"
    /\ counter[phase[n] + 1] >= N - 1
    /\ phase' = [phase EXCEPT ![n] = @ + 1]
    /\ pc' = [pc EXCEPT ![n] = AfterBarrier[phase[n] + 1]]
    /\ UNCHANGED <<eventSubscribed, allPeers, eventMessage, dial, sync, swarm>>

\* signal_and_wait, second half: the count has reached test_instance_count.
PassBarrier(n) ==
    /\ pc[n] = "barrier"
    /\ counter[phase[n] + 1] >= N
    /\ phase' = [phase EXCEPT ![n] = @ + 1]
    /\ pc' = [pc EXCEPT ![n] = AfterBarrier[phase[n] + 1]]
    /\ UNCHANGED <<eventSubscribed, allPeers, eventMessage, dial, sync, swarm>>

\* publish_and_collect, first half.
PublishAddress(n) ==
    /\ pc[n] = "publish_address"
    /\ addresses' = Append(addresses, n)
    /\ pc' = [pc EXCEPT ![n] = "collect"]
    /\ UNCHANGED <<phase, eventSubscribed, allPeers, eventMessage, dial, counter,
                   swarm>>

\* Mutant: the shuffle is seeded by the instance instead of by their number.
PeerAddrOwnSeed(n) ==
    LET own  == CHOOSE i \in 1..N : addresses[i] = n
        slot == (own % (N - 1)) + 1
    IN  IF slot < own THEN addresses[slot] ELSE addresses[slot + 1]

\* The last of the others once they are shuffled: the addresses without n's
\* own form a vector of N - 1, and the seeded shuffle ends in its Slot-th.
PeerAddr(n) ==
    LET own == CHOOSE i \in 1..N : addresses[i] = n
    IN  IF Slot < own THEN addresses[Slot] ELSE addresses[Slot + 1]

\* publish_and_collect, second half, and swarm.dial.
Dial(n) ==
    /\ pc[n] = "collect"
    /\ Len(addresses) >= N
    /\ dial' = [dial EXCEPT ![n] = PeerAddr(n)]
    /\ refused' = IF PeerAddr(n) \in listening THEN refused ELSE refused \cup {n}
    /\ pc' = [pc EXCEPT ![n] = "connect"]
    /\ UNCHANGED <<phase, eventSubscribed, allPeers, eventMessage, sync, listening,
                   accepted, reported, chan, topicPeers, seen>>

\* EXTERNAL: the polled swarm of the target accepts and upgrades n's dial.
Accept(n) ==
    /\ dial[n] # n
    /\ n \notin accepted \cup refused
    /\ Polling(dial[n])
    /\ accepted' = accepted \cup {n}
    /\ UNCHANGED <<app, sync, listening, refused, reported, chan, topicPeers, seen>>

\* ConnectionEstablished with a Dialer endpoint ends the connect loop.
EstablishedAsDialer(n) ==
    /\ pc[n] = "connect"
    /\ n \in accepted
    /\ pc' = [pc EXCEPT ![n] = "signal"]
    /\ UNCHANGED <<phase, eventSubscribed, allPeers, eventMessage, dial, sync, swarm>>

\* ConnectionEstablished with a Listener endpoint at the peer n dialled: every
\* loop only records it.  On the first connection with a peer gossipsub sends
\* the subscriptions it has.
EstablishedAsListener(n) ==
    LET t == dial[n] IN
    /\ n \in accepted \ reported
    /\ Polling(t)
    /\ reported' = reported \cup {n}
    /\ chan' = IF Subscribed(t) /\ ~Connected(t, n) THEN Send(t, {n}, Subscribe)
               ELSE chan
    /\ UNCHANGED <<app, sync, listening, refused, accepted, topicPeers, seen>>

----------------------------------------------------------------------------
(* Subscribing *)

\* behaviour.subscribe tells all the connected peers; then main() counts them
\* and waits only if it has seen fewer Subscribed events.
SubscribeTopic(n) ==
    LET count == Cardinality(Peers(n)) IN
    /\ pc[n] = "subscribe"
    /\ chan' = Send(n, Peers(n), Subscribe)
    /\ allPeers' = [allPeers EXCEPT ![n] = count]
    /\ pc' = [pc EXCEPT ![n] = IF eventSubscribed[n] < count
                               THEN "await_subscriptions" ELSE "signal"]
    /\ UNCHANGED <<phase, eventSubscribed, eventMessage, dial, sync, listening,
                   refused, accepted, reported, topicPeers, seen>>

\* The head of the channel from m reaches the polled swarm of n.
Receives(n, m, type) ==
    /\ Polling(n)
    /\ Connected(n, m)
    /\ chan[<<m, n>>] # <<>>
    /\ Head(chan[<<m, n>>]).type = type

Received(n, m) == [chan EXCEPT ![<<m, n>>] = Tail(@)]

\* Mutant: barrier_and_drive_swarm throws away the events it collected.
CountsOnlyInLoop(n) == pc[n] = "await_subscriptions"

CountsSubscribed(n) == pc[n] \in {"signal", "barrier", "await_subscriptions"}

\* Event::Subscribed: counted at a barrier and in the subscription loop, only
\* recorded in the two others.
HandleSubscribed(n, m) ==
    LET count == eventSubscribed[n] + (IF CountsSubscribed(n) THEN 1 ELSE 0) IN
    /\ Receives(n, m, "subscribe")
    /\ chan' = Received(n, m)
    /\ topicPeers' = [topicPeers EXCEPT ![n] = @ \cup {m}]
    /\ eventSubscribed' = [eventSubscribed EXCEPT ![n] = count]
    /\ pc' = [pc EXCEPT ![n] = IF @ = "await_subscriptions" /\ count = allPeers[n]
                               THEN "signal" ELSE @]
    /\ UNCHANGED <<phase, allPeers, eventMessage, dial, sync, listening, refused,
                   accepted, reported, seen>>

----------------------------------------------------------------------------
(* Publishing *)

\* Mutant: counts the instance itself among the sources to wait for.
AfterReceivingFewer(received) ==
    IF Cardinality(received) < N - 2 THEN "await_messages" ELSE "signal"

AfterReceiving(received) ==
    IF Cardinality(received) < N - 1 THEN "await_messages" ELSE "signal"

\* behaviour.publish sends to the peers known to be subscribed, and fails when
\* there are none: the ? ends main().
Publish(n) ==
    /\ pc[n] = "publish"
    /\ IF topicPeers[n] = {}
       THEN /\ pc' = [pc EXCEPT ![n] = "insufficient_peers"]
            /\ UNCHANGED <<chan, seen>>
       ELSE /\ chan' = Send(n, topicPeers[n], Message(n))
            /\ seen' = [seen EXCEPT ![n] = @ \cup {n}]
            /\ pc' = [pc EXCEPT ![n] = AfterReceiving(eventMessage[n])]
    /\ UNCHANGED <<phase, eventSubscribed, allPeers, eventMessage, dial, sync,
                   listening, refused, accepted, reported, topicPeers>>

\* Mutant: barrier_and_drive_swarm throws away the events it collected.
RecordsOnlyInLoop(n) == pc[n] = "await_messages"

RecordsMessage(n) == pc[n] \in {"signal", "barrier", "await_messages"}

\* The subscription loop panics on a message, the message loop fails on a
\* duplicate, the other places go on polling.
AfterMessage(n, s) ==
    IF pc[n] = "await_subscriptions" THEN "unreachable"
    ELSE IF pc[n] # "await_messages" THEN pc[n]
    ELSE IF s \in eventMessage[n] THEN "failed"
    ELSE AfterReceiving(eventMessage[n] \cup {s})

\* Event::Message.  gossipsub has forwarded it to the peers of its mesh, some
\* of the subscribed ones.  main() inserts the source at a barrier and in the
\* message loop.  The dials form a tree (see DialsFormTree) and a message crosses
\* a connection once, so that gossipsub's duplicate cache has nothing to drop.
HandleMessage(n, m) ==
    LET s == Head(chan[<<m, n>>]).source IN
    /\ Receives(n, m, "message")
    /\ s \notin seen[n]
    /\ seen' = [seen EXCEPT ![n] = @ \cup {s}]
    /\ \E mesh \in SUBSET (topicPeers[n] \ {m, s}) :
          chan' = [c \in Node \X Node |->
                     IF c = <<m, n>> THEN Tail(chan[c])
                     ELSE IF c[1] = n /\ c[2] \in mesh
                          THEN Append(chan[c], Message(s)) ELSE chan[c]]
    /\ pc' = [pc EXCEPT ![n] = AfterMessage(n, s)]
    /\ eventMessage' = IF RecordsMessage(n)
                       THEN [eventMessage EXCEPT ![n] = @ \cup {s}] ELSE eventMessage
    /\ UNCHANGED <<phase, eventSubscribed, allPeers, dial, sync, listening, refused,
                   accepted, reported, topicPeers>>

\* EXTERNAL: the IHAVE / IWANT exchange of the heartbeat gets m a message it
\* has not seen from a peer that knows it to be subscribed.
Gossip(n, m, s) ==
    /\ Polling(n) /\ Polling(m)
    /\ Connected(n, m) /\ Connected(m, n)
    /\ m \in topicPeers[n]
    /\ s \in seen[n] \ seen[m]
    /\ \A i \in DOMAIN chan[<<n, m>>] : chan[<<n, m>>][i] # Message(s)
    /\ chan' = Send(n, {m}, Message(s))
    /\ UNCHANGED <<app, sync, listening, refused, accepted, reported, topicPeers, seen>>

----------------------------------------------------------------------------

Main(n) ==
    \/ Listen(n) \/ Signal(n) \/ PassBarrier(n)
    \/ PublishAddress(n) \/ Dial(n) \/ EstablishedAsDialer(n)
    \/ SubscribeTopic(n) \/ Publish(n)

Swarm(n) ==
    \/ Accept(n) \/ EstablishedAsListener(n)
    \/ \E m \in Node : \/ HandleSubscribed(n, m)
                      \/ HandleMessage(n, m)
                      \/ \E s \in Node : Gossip(n, m, s)

Next == \E n \in Node : Main(n) \/ Swarm(n)

\* Every instance runs, its swarm is polled and the network delivers.
Fairness == \A n \in Node : WF_vars(Main(n)) /\ WF_vars(Swarm(n))

Spec == Init /\ [][Next]_vars /\ Fairness

----------------------------------------------------------------------------
(* Properties *)

\* The subscription loop takes any event but Subscribed for unreachable!()
\* (main.rs:173): no message may reach an instance still in it, although the
\* others publish as soon as they are through their own.
UnreachableNeverHit == \A n \in Node : pc[n] # "unreachable"

\* A message taken off the swarm in the wrong loop is gone, gossipsub does not
\* deliver it again: all that gossipsub has delivered has been recorded, at the
\* barriers before and after the message loop as well as in it.
NoMessageLost == \A n \in Node : eventMessage[n] = seen[n] \ {n}

\* An instance that ends closes its connections: it may only record success
\* when every instance, not just itself, has received all the messages.
SuccessMeansAllReceived ==
    \A n \in Node : pc[n] = "done" =>
        \A m \in Node : eventMessage[m] = Node \ {m}

\* The peers every instance selects by itself connect all of them, as a tree:
\* two of them dial each other and every other one dials one of these. Any two
\* are at most three connections apart, so that the flooding of the messages,
\* and with it the success of the test, reaches everyone.
DialsFormTree ==
    (\A n \in Node : dial[n] # n) =>
        \E c, d \in Node : /\ dial[c] = d /\ dial[d] = c
                          /\ \A n \in Node : dial[n] \in {c, d}

\* Every instance records success: no wait is left without the event, message
\* or signal it waits for.
AllSucceed == <>(\A n \in Node : pc[n] = "done")

Rounds == INSTANCE BarrierRounds WITH
            arrived <- [n \in Node |-> Arrived(n)], passed <- phase

\* "Sets a barrier on the supplied state that fires when it reaches all
\* participants" (main.rs:311): every step of the instances is an arrival at a
\* barrier all will meet, a passage of one all have met, or neither.
ImplementsBarriers == Rounds!Init /\ [][Rounds!Next]_(Rounds!vars)

============================================================================
