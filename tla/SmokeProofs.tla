---------------------------- MODULE SmokeProofs ----------------------------
(***************************************************************************)
(* What is proved of Smoke for every set of instances and every slot.      *)
(*                                                                         *)
(* The counters of the sync service are tied to the instances' own state   *)
(* (CountersExact), which makes the barriers barriers (LockstepInv);       *)
(* messages exist only beyond the third one (MessagesAfterBarrier).        *)
(***************************************************************************)
EXTENDS Smoke, FiniteSetTheorems, TLAPS

AtBarrier(b) == {n \in Node : Arrived(n) >= b}

\* The types that need no counting.
Types ==
    /\ pc \in [Node -> PC]
    /\ phase \in [Node -> 0..Barriers]
    /\ eventSubscribed \in [Node -> Nat]
    /\ allPeers \in [Node -> 0 .. N - 1]
    /\ eventMessage \in [Node -> SUBSET Node]
    /\ dial \in [Node -> Node]
    /\ counter \in [1..Barriers -> Nat]
    /\ addresses \in Seq(Node)
    /\ listening \subseteq Node
    /\ refused \subseteq Node
    /\ accepted \subseteq Node
    /\ reported \subseteq Node
    /\ chan \in [Node \X Node -> Seq(Packet)]
    /\ topicPeers \in [Node -> SUBSET Node]
    /\ seen \in [Node -> SUBSET Node]

\* The barrier counters hold the number of instances that signalled them.
CountersExact == \A b \in 1..Barriers : counter[b] = Cardinality(AtBarrier(b))

\* Where main() can be when k barriers are behind it.
Fits(place, k) ==
    /\ place = "listen" => k = 0
    /\ place \in {"publish_address", "collect", "connect"} => k = 1
    /\ place \in {"subscribe", "await_subscriptions", "unreachable"} => k = 2
    /\ place \in {"publish", "await_messages", "failed", "insufficient_peers"} => k = 3
    /\ place \in {"signal", "barrier"} => k \in 0..3
    /\ place = "done" => k = 4

PhaseOfPC == \A n \in Node : Fits(pc[n], phase[n])

\* Nobody is through a barrier that somebody has not signalled.
LockstepInv == \A n, m \in Node : phase[n] <= Arrived(m)

SentAfterBarrier(q) == \A i \in 1..Len(q) : q[i].type = "message" => phase[q[i].source] >= 3

\* No message exists before its source is through the third barrier.
MessagesAfterBarrier ==
    /\ \A c \in Node \X Node : SentAfterBarrier(chan[c])
    /\ \A n \in Node : \A s \in seen[n] : phase[s] >= 3

IInv ==
    /\ Types
    /\ CountersExact
    /\ PhaseOfPC
    /\ LockstepInv
    /\ MessagesAfterBarrier
    /\ UnreachableNeverHit

----------------------------------------------------------------------------

LEMMA Counts == N \in Nat /\ N >= 2
  BY NodeAssumption, FS_CardinalityType DEF N

LEMMA PeersCount == ASSUME NEW n \in Node PROVE Cardinality(Peers(n)) \in 0 .. N - 1
  <1>1. /\ IsFiniteSet(Node \ {n})
        /\ Cardinality(Node \ {n}) = N - 1
    BY NodeAssumption, FS_RemoveElement DEF N
  <1>2. Peers(n) \subseteq Node \ {n}
    BY DEF Peers
  <1>3. IsFiniteSet(Peers(n)) /\ Cardinality(Peers(n)) <= N - 1
    BY <1>1, <1>2, FS_Subset
  <1> QED
    BY <1>3, FS_CardinalityType, Counts

LEMMA SendType ==
  ASSUME chan \in [Node \X Node -> Seq(Packet)],
         NEW n \in Node, NEW S, NEW p \in Packet
  PROVE  Send(n, S, p) \in [Node \X Node -> Seq(Packet)]
  BY DEF Send

LEMMA ReceivedType ==
  ASSUME chan \in [Node \X Node -> Seq(Packet)], NEW n \in Node, NEW m \in Node,
         chan[<<m, n>>] # <<>>
  PROVE  /\ Received(n, m) \in [Node \X Node -> Seq(Packet)]
         /\ Head(chan[<<m, n>>]) \in Packet
  <1>1. chan[<<m, n>>] \in Seq(Packet)
    OBVIOUS
  <1>2. Tail(chan[<<m, n>>]) \in Seq(Packet) /\ Head(chan[<<m, n>>]) \in Packet
    BY <1>1
  <1> QED
    BY <1>2 DEF Received

LEMMA AfterBarrierValues ==
  /\ AfterBarrier[1] = "publish_address"
  /\ AfterBarrier[2] = "subscribe"
  /\ AfterBarrier[3] = "publish"
  /\ AfterBarrier[4] = "done"
  BY DEF AfterBarrier

LEMMA AfterBarrierSet ==
  ASSUME NEW i \in 0..3
  PROVE  AfterBarrier[i + 1] \in {"publish_address", "subscribe", "publish", "done"}
  <1>1. i + 1 \in {1, 2, 3, 4}
    OBVIOUS
  <1> QED
    BY <1>1, AfterBarrierValues

LEMMA PeerAddrType ==
  ASSUME addresses \in Seq(Node), Len(addresses) >= N, NEW n \in Node
  PROVE  PeerAddr(n) \in Node
  BY Counts, SlotAssumption DEF PeerAddr, N

LEMMA MessageHead ==
  ASSUME Types, NEW n \in Node, NEW m \in Node, Receives(n, m, "message")
  PROVE  /\ Head(chan[<<m, n>>]).source \in Node
         /\ Message(Head(chan[<<m, n>>]).source) \in Packet
  <1>1. Head(chan[<<m, n>>]) \in Packet
    BY ReceivedType DEF Types, Receives
  <1>2. Head(chan[<<m, n>>]).type = "message"
    BY DEF Receives
  <1>3. PICK s \in Node : Head(chan[<<m, n>>]) = Message(s)
    BY <1>1, <1>2 DEF Packet, Subscribe
  <1>4. Head(chan[<<m, n>>]).source = s
    BY <1>3 DEF Message
  <1> QED
    BY <1>4 DEF Packet

----------------------------------------------------------------------------

LEMMA TypesInit == Init => Types
  BY Counts DEF Init, Types, PC, Barriers

LEMMA TypesStep == Types /\ PhaseOfPC /\ [Next]_vars => Types'
  <1> SUFFICES ASSUME Types, PhaseOfPC, [Next]_vars PROVE Types'
    OBVIOUS
  <1> USE Counts DEF Types
  <1>1. CASE UNCHANGED vars
    BY <1>1 DEF vars, app, sync, swarm
  <1>2. ASSUME NEW n \in Node, Listen(n) PROVE Types'
    BY <1>2 DEF Listen, PC, sync
  <1>3. ASSUME NEW n \in Node, Signal(n) PROVE Types'
    <2>1. phase[n] \in 0..3
      BY <1>3 DEF Signal, PhaseOfPC, Fits
    <2>2. counter' \in [1..Barriers -> Nat]
      BY <1>3, <2>1 DEF Signal, Barriers
    <2>3. pc' \in [Node -> PC]
      BY <1>3 DEF Signal, PC
    <2> QED
      BY <1>3, <2>2, <2>3 DEF Signal, swarm
  <1>4. ASSUME NEW n \in Node, PassBarrier(n) PROVE Types'
    <2>1. phase[n] \in 0..3
      BY <1>4 DEF PassBarrier, PhaseOfPC, Fits
    <2>2. AfterBarrier[phase[n] + 1] \in PC
      BY <2>1, AfterBarrierSet DEF PC
    <2> QED
      BY <1>4, <2>1, <2>2 DEF PassBarrier, sync, swarm, Barriers
  <1>5. ASSUME NEW n \in Node, PublishAddress(n) PROVE Types'
    <2>1. addresses' \in Seq(Node)
      <3>1. addresses \in Seq(Node) /\ addresses' = Append(addresses, n)
        BY <1>5 DEF PublishAddress
      <3> HIDE DEF Types
      <3> QED
        BY <3>1
    <2> QED
      BY <1>5, <2>1 DEF PublishAddress, PC, swarm
  <1>6. ASSUME NEW n \in Node, Dial(n) PROVE Types'
    BY <1>6, PeerAddrType DEF Dial, PC, sync
  <1>7. ASSUME NEW n \in Node, EstablishedAsDialer(n) PROVE Types'
    BY <1>7 DEF EstablishedAsDialer, PC, sync, swarm
  <1>8. ASSUME NEW n \in Node, SubscribeTopic(n) PROVE Types'
    <2>1. Send(n, Peers(n), Subscribe) \in [Node \X Node -> Seq(Packet)]
      BY SendType DEF Packet
    <2> QED
      BY <1>8, <2>1, PeersCount DEF SubscribeTopic, PC, sync
  <1>9. ASSUME NEW n \in Node, Publish(n) PROVE Types'
    <2>1. Send(n, topicPeers[n], Message(n)) \in [Node \X Node -> Seq(Packet)]
      BY SendType DEF Packet
    <2>2. AfterReceiving(eventMessage[n]) \in PC
      BY DEF AfterReceiving, PC
    <2>3. chan' \in [Node \X Node -> Seq(Packet)]
      BY <1>9, <2>1 DEF Publish
    <2>4. seen' \in [Node -> SUBSET Node]
      <3>1. seen' = seen \/ seen' = [seen EXCEPT ![n] = @ \cup {n}]
        BY <1>9 DEF Publish
      <3>2. seen[n] \cup {n} \in SUBSET Node /\ seen \in [Node -> SUBSET Node]
        OBVIOUS
      <3> HIDE DEF Types
      <3> QED
        BY <3>1, <3>2
    <2>5. pc' \in [Node -> PC]
      BY <1>9, <2>2 DEF Publish, PC
    <2> QED
      BY <1>9, <2>3, <2>4, <2>5 DEF Publish, sync
  <1>10. ASSUME NEW n \in Node, Accept(n) PROVE Types'
    BY <1>10 DEF Accept, app, sync
  <1>11. ASSUME NEW n \in Node, EstablishedAsListener(n) PROVE Types'
    <2>1. Send(dial[n], {n}, Subscribe) \in [Node \X Node -> Seq(Packet)]
      BY SendType DEF Packet
    <2> QED
      BY <1>11, <2>1 DEF EstablishedAsListener, app, sync
  <1>12. ASSUME NEW n \in Node, NEW m \in Node, HandleSubscribed(n, m) PROVE Types'
    <2>1. Received(n, m) \in [Node \X Node -> Seq(Packet)]
      BY <1>12, ReceivedType DEF HandleSubscribed, Receives
    <2>2. pc' \in [Node -> PC]
      BY <1>12 DEF HandleSubscribed, PC
    <2>3. eventSubscribed' \in [Node -> Nat]
      <3>1. PICK k \in {0, 1} : eventSubscribed' = [eventSubscribed EXCEPT ![n] = @ + k]
        BY <1>12 DEF HandleSubscribed
      <3>2. eventSubscribed[n] + k \in Nat /\ eventSubscribed \in [Node -> Nat]
        OBVIOUS
      <3> HIDE DEF Types
      <3> QED
        BY <3>1, <3>2
    <2>4. topicPeers' \in [Node -> SUBSET Node]
      BY <1>12 DEF HandleSubscribed
    <2> QED
      BY <1>12, <2>1, <2>2, <2>3, <2>4 DEF HandleSubscribed, sync
  <1>13. ASSUME NEW n \in Node, NEW m \in Node, HandleMessage(n, m) PROVE Types'
    <2> DEFINE s == Head(chan[<<m, n>>]).source
    <2>1. s \in Node /\ Message(s) \in Packet
      BY <1>13, MessageHead DEF HandleMessage
    <2>2. chan' \in [Node \X Node -> Seq(Packet)]
      <3>1. chan[<<m, n>>] # <<>>
        BY <1>13 DEF HandleMessage, Receives
      <3>2. Tail(chan[<<m, n>>]) \in Seq(Packet)
        BY <3>1
      <3>3. \A c \in Node \X Node : Append(chan[c], Message(s)) \in Seq(Packet)
        BY <2>1
      <3>4. PICK mesh \in SUBSET (topicPeers[n] \ {m, s}) :
              chan' = [c \in Node \X Node |->
                         IF c = <<m, n>> THEN Tail(chan[c])
                         ELSE IF c[1] = n /\ c[2] \in mesh
                              THEN Append(chan[c], Message(s)) ELSE chan[c]]
        BY <1>13 DEF HandleMessage
      <3> HIDE DEF s
      <3> QED
        BY <3>2, <3>3, <3>4
    <2>3. pc' \in [Node -> PC]
      BY <1>13 DEF HandleMessage, AfterMessage, AfterReceiving, PC
    <2>4. eventMessage' \in [Node -> SUBSET Node] /\ seen' \in [Node -> SUBSET Node]
      BY <1>13, <2>1 DEF HandleMessage
    <2> QED
      BY <1>13, <2>2, <2>3, <2>4 DEF HandleMessage, sync
  <1>14. ASSUME NEW n \in Node, NEW m \in Node, NEW s \in Node, Gossip(n, m, s)
         PROVE Types'
    <2>1. Send(n, {m}, Message(s)) \in [Node \X Node -> Seq(Packet)]
      BY SendType DEF Packet
    <2> QED
      BY <1>14, <2>1 DEF Gossip, app, sync
  <1> QED
    BY <1>1, <1>2, <1>3, <1>4, <1>5, <1>6, <1>7, <1>8, <1>9, <1>10, <1>11, <1>12,
       <1>13, <1>14 DEF Next, Main, Swarm

----------------------------------------------------------------------------
(* The barriers *)

LEMMA ArrivedType == ASSUME Types, PhaseOfPC, NEW n \in Node
                     PROVE  Arrived(n) \in 0..Barriers
  <1>1. phase[n] \in 0..4
    BY DEF Types, Barriers
  <1>2. pc[n] = "barrier" => phase[n] \in 0..3
    <2>1. pc[n] = "barrier" => phase[n] \in 0..3
      BY DEF PhaseOfPC, Fits
    <2> QED
      BY <2>1 DEF Barriers
  <1> QED
    BY <1>1, <1>2 DEF Arrived, Barriers

\* All but the two halves of signal_and_wait leave the barriers alone.
LEMMA QuietStep ==
  ASSUME Types, [Next]_vars
  PROVE  \/ \E n \in Node : Signal(n)
         \/ \E n \in Node : PassBarrier(n)
         \/ /\ phase' = phase /\ counter' = counter
            /\ \A m \in Node : pc'[m] = "barrier" <=> pc[m] = "barrier"
  <1> DEFINE Quiet == /\ phase' = phase /\ counter' = counter
                      /\ \A m \in Node : pc'[m] = "barrier" <=> pc[m] = "barrier"
  <1>0. pc \in [Node -> PC]
    BY DEF Types
  <1>1. CASE UNCHANGED vars
    BY <1>1 DEF vars, app, sync
  <1>2. ASSUME NEW n \in Node, \/ Listen(n) \/ PublishAddress(n) \/ Dial(n)
                               \/ EstablishedAsDialer(n)
        PROVE  Quiet
    BY <1>0, <1>2 DEF Listen, PublishAddress, Dial, EstablishedAsDialer, sync
  <1>3. ASSUME NEW n \in Node, SubscribeTopic(n) PROVE Quiet
    BY <1>0, <1>3 DEF SubscribeTopic, sync
  <1>4. ASSUME NEW n \in Node, Publish(n) PROVE Quiet
    BY <1>0, <1>4 DEF Publish, AfterReceiving, sync
  <1>5. ASSUME NEW n \in Node, Accept(n) \/ EstablishedAsListener(n) PROVE Quiet
    BY <1>5 DEF Accept, EstablishedAsListener, app, sync
  <1>6. ASSUME NEW n \in Node, NEW m \in Node,
               HandleSubscribed(n, m)
        PROVE  Quiet
    BY <1>0, <1>6 DEF HandleSubscribed, sync
  <1>7. ASSUME NEW n \in Node, NEW m \in Node, HandleMessage(n, m) PROVE Quiet
    BY <1>0, <1>7 DEF HandleMessage, AfterMessage, AfterReceiving, sync
  <1>8. ASSUME NEW n \in Node, NEW m \in Node,
               \E s \in Node : Gossip(n, m, s)
        PROVE  Quiet
    BY <1>8 DEF Gossip, app, sync
  <1> QED
    BY <1>1, <1>2, <1>3, <1>4, <1>5, <1>6, <1>7, <1>8 DEF Next, Main, Swarm

LEMMA FullBarrier ==
  ASSUME Types, CountersExact, NEW b \in 1..Barriers, counter[b] >= N
  PROVE  \A m \in Node : Arrived(m) >= b
  <1>1. AtBarrier(b) \subseteq Node /\ counter[b] = Cardinality(AtBarrier(b))
    BY DEF AtBarrier, CountersExact
  <1>2. /\ Cardinality(AtBarrier(b)) <= N
        /\ Cardinality(AtBarrier(b)) = N => AtBarrier(b) = Node
    BY <1>1, NodeAssumption, FS_Subset DEF N
  <1>3. AtBarrier(b) = Node
    <2>1. Cardinality(AtBarrier(b)) \in Nat
      BY <1>1, NodeAssumption, FS_Subset, FS_CardinalityType
    <2> QED
      BY <1>1, <1>2, <2>1, Counts
  <1> QED
    BY <1>3 DEF AtBarrier

LEMMA CountersStep ==
  ASSUME Types, PhaseOfPC, CountersExact, [Next]_vars
  PROVE  CountersExact'
  <1>0. pc \in [Node -> PC] /\ phase \in [Node -> 0..Barriers] /\ Barriers \in Nat
    BY DEF Types, Barriers
  <1>1. ASSUME NEW n \in Node, Signal(n) PROVE CountersExact'
    <2>1. PICK k \in 1..Barriers : k = phase[n] + 1
      <3>1. phase[n] \in 0..3
        BY <1>1 DEF Signal, PhaseOfPC, Fits
      <3> QED
        BY <3>1 DEF Barriers
    <2>2. /\ pc' = [pc EXCEPT ![n] = "barrier"] /\ phase' = phase
          /\ pc[n] = "signal"
          /\ counter' = [counter EXCEPT ![k] = @ + 1]
      BY <1>1, <2>1 DEF Signal
    <2>3. ASSUME NEW b \in 1..Barriers, b # k PROVE AtBarrier(b)' = AtBarrier(b)
      BY <1>0, <2>1, <2>2, <2>3 DEF AtBarrier, Arrived
    <2>4. AtBarrier(k)' = AtBarrier(k) \cup {n} /\ n \notin AtBarrier(k)
      BY <1>0, <2>1, <2>2 DEF AtBarrier, Arrived
    <2>5. AtBarrier(k) \subseteq Node
      BY DEF AtBarrier
    <2>6. IsFiniteSet(AtBarrier(k))
      BY <2>5, NodeAssumption, FS_Subset
    <2>7. Cardinality(AtBarrier(k) \cup {n}) = Cardinality(AtBarrier(k)) + 1
      BY <2>4, <2>6, FS_AddElement
    <2>8. ASSUME NEW b \in 1..Barriers PROVE counter'[b] = Cardinality(AtBarrier(b)')
      <3>1. CASE b = k
        <4>1. counter'[k] = counter[k] + 1
          BY <2>1, <2>2 DEF Types
        <4>2. counter[k] = Cardinality(AtBarrier(k))
          BY <2>1 DEF CountersExact
        <4> QED
          BY <2>4, <2>7, <3>1, <4>1, <4>2
      <3>2. CASE b # k
        BY <2>2, <2>3, <3>2 DEF CountersExact, Types
      <3> QED
        BY <3>1, <3>2
    <2> QED
      BY <2>8 DEF CountersExact
  <1>2. ASSUME NEW n \in Node, PassBarrier(n) PROVE CountersExact'
    <2>1. pc[n] = "barrier" /\ phase[n] \in 0..3
      BY <1>2 DEF PassBarrier, PhaseOfPC, Fits
    <2>2. \A m \in Node : Arrived(m)' = Arrived(m)
      <3>1. AfterBarrier[phase[n] + 1] # "barrier"
        BY <2>1, AfterBarrierSet
      <3> QED
        BY <1>0, <1>2, <2>1, <3>1 DEF PassBarrier, Arrived
    <2> QED
      BY <1>2, <2>2 DEF PassBarrier, CountersExact, AtBarrier, sync
  <1>3. CASE /\ phase' = phase /\ counter' = counter
             /\ \A m \in Node : pc'[m] = "barrier" <=> pc[m] = "barrier"
    BY <1>3 DEF CountersExact, AtBarrier, Arrived
  <1> QED
    BY <1>1, <1>2, <1>3, QuietStep

LEMMA LockstepStep ==
  ASSUME Types, PhaseOfPC, CountersExact, LockstepInv, [Next]_vars
  PROVE  LockstepInv'
  <1>0. pc \in [Node -> PC] /\ phase \in [Node -> 0..Barriers] /\ Barriers \in Nat
    BY DEF Types, Barriers
  <1>1. ASSUME NEW n \in Node, Signal(n) PROVE LockstepInv'
    BY <1>0, <1>1 DEF Signal, LockstepInv, Arrived
  <1>2. ASSUME NEW n \in Node, PassBarrier(n) PROVE LockstepInv'
    <2>1. pc[n] = "barrier" /\ phase[n] \in 0..3
      BY <1>2 DEF PassBarrier, PhaseOfPC, Fits
    <2>2. \A m \in Node : Arrived(m)' = Arrived(m)
      <3>1. AfterBarrier[phase[n] + 1] # "barrier"
        BY <2>1, AfterBarrierSet
      <3> QED
        BY <1>0, <1>2, <2>1, <3>1 DEF PassBarrier, Arrived
    <2>3. \A m \in Node : Arrived(m) >= phase[n] + 1
      BY <1>2, <2>1, FullBarrier DEF PassBarrier, Barriers
    <2>4. \A m \in Node : phase'[m] = IF m = n THEN phase[n] + 1 ELSE phase[m]
      BY <1>0, <1>2 DEF PassBarrier
    <2> QED
      BY <1>0, <2>2, <2>3, <2>4 DEF LockstepInv, Arrived
  <1>3. CASE /\ phase' = phase /\ counter' = counter
             /\ \A m \in Node : pc'[m] = "barrier" <=> pc[m] = "barrier"
    BY <1>3 DEF LockstepInv, Arrived
  <1> QED
    BY <1>1, <1>2, <1>3, QuietStep

----------------------------------------------------------------------------
(* Where main() is *)

LEMMA LockstepNoMessage ==
  ASSUME Types, PhaseOfPC, LockstepInv, NEW n \in Node, NEW s \in Node, phase[s] >= 3
  PROVE  pc[n] # "await_subscriptions"
  <1>1. phase[s] \in 0..4 /\ Arrived(n) \in 0..4 /\ phase[s] <= Arrived(n)
    BY ArrivedType DEF LockstepInv, Types, Barriers
  <1>2. ASSUME pc[n] = "await_subscriptions" PROVE FALSE
    <2>1. phase[n] = 2
      BY <1>2 DEF PhaseOfPC, Fits
    <2>2. pc[n] # "barrier"
      BY <1>2
    <2>3. Arrived(n) = 2
      BY <2>1, <2>2 DEF Arrived
    <2> QED
      BY <1>1, <2>3
  <1> QED
    BY <1>2

LEMMA HeadSent ==
  ASSUME Types, MessagesAfterBarrier, NEW n \in Node, NEW m \in Node,
         Receives(n, m, "message")
  PROVE  phase[Head(chan[<<m, n>>]).source] >= 3
  <1>1. chan[<<m, n>>] \in Seq(Packet) /\ chan[<<m, n>>] # <<>>
    BY DEF Types, Receives
  <1>2. Head(chan[<<m, n>>]) = chan[<<m, n>>][1] /\ 1 \in 1..Len(chan[<<m, n>>])
    BY <1>1
  <1> QED
    BY <1>2 DEF MessagesAfterBarrier, SentAfterBarrier, Receives

LEMMA NeverUnreachable ==
  ASSUME IInv, [Next]_vars
  PROVE  UnreachableNeverHit'
  <1> USE DEF UnreachableNeverHit
  <1>0. pc \in [Node -> PC] /\ \A k \in Node : pc[k] # "unreachable"
    BY DEF IInv, Types
  <1>1. CASE UNCHANGED vars
    BY <1>0, <1>1 DEF vars, app
  <1>2. ASSUME NEW n \in Node, \/ Listen(n) \/ Signal(n) \/ PublishAddress(n) \/ Dial(n)
                               \/ EstablishedAsDialer(n)
        PROVE  UnreachableNeverHit'
    BY <1>0, <1>2 DEF Listen, Signal, PublishAddress, Dial, EstablishedAsDialer
  <1>3. ASSUME NEW n \in Node, PassBarrier(n) PROVE UnreachableNeverHit'
    <2>1. phase[n] \in 0..3
      BY <1>3 DEF IInv, PhaseOfPC, Fits, PassBarrier
    <2> QED
      BY <1>0, <1>3, <2>1, AfterBarrierSet DEF PassBarrier
  <1>4. ASSUME NEW n \in Node, SubscribeTopic(n) PROVE UnreachableNeverHit'
    BY <1>0, <1>4 DEF SubscribeTopic
  <1>5. ASSUME NEW n \in Node, Publish(n) PROVE UnreachableNeverHit'
    BY <1>0, <1>5 DEF Publish, AfterReceiving
  <1>6. ASSUME NEW n \in Node, Accept(n) \/ EstablishedAsListener(n)
        PROVE  UnreachableNeverHit'
    BY <1>0, <1>6 DEF Accept, EstablishedAsListener, app
  <1>7. ASSUME NEW n \in Node, NEW m \in Node, HandleSubscribed(n, m)
        PROVE  UnreachableNeverHit'
    BY <1>0, <1>7 DEF HandleSubscribed
  <1>8. ASSUME NEW n \in Node, NEW m \in Node, HandleMessage(n, m)
        PROVE  UnreachableNeverHit'
    <2>1. Receives(n, m, "message")
      BY <1>8 DEF HandleMessage
    <2>2. pc[n] # "await_subscriptions"
      BY <2>1, HeadSent, MessageHead, LockstepNoMessage DEF IInv
    <2> QED
      BY <1>0, <1>8, <2>2 DEF HandleMessage, AfterMessage, AfterReceiving
  <1>9. ASSUME NEW n \in Node, NEW m \in Node,
               \E s \in Node : Gossip(n, m, s)
        PROVE  UnreachableNeverHit'
    BY <1>0, <1>9 DEF Gossip, app
  <1> QED
    BY <1>1, <1>2, <1>3, <1>4, <1>5, <1>6, <1>7, <1>8, <1>9 DEF Next, Main, Swarm

LEMMA FitsAfterBarrier ==
  ASSUME NEW k \in 0..3
  PROVE  Fits(AfterBarrier[k + 1], k + 1)
  <1>1. k \in {0, 1, 2, 3}
    OBVIOUS
  <1>2. CASE k = 0
    <2>1. k + 1 = 1
      BY <1>2
    <2>2. AfterBarrier[k + 1] = "publish_address"
      BY <2>1, AfterBarrierValues, Zenon
    <2> QED
      BY <2>1, <2>2 DEF Fits
  <1>3. CASE k = 1
    <2>1. k + 1 = 2
      BY <1>3
    <2>2. AfterBarrier[k + 1] = "subscribe"
      BY <2>1, AfterBarrierValues, Zenon
    <2> QED
      BY <2>1, <2>2 DEF Fits
  <1>4. CASE k = 2
    <2>1. k + 1 = 3
      BY <1>4
    <2>2. AfterBarrier[k + 1] = "publish"
      BY <2>1, AfterBarrierValues, Zenon
    <2> QED
      BY <2>1, <2>2 DEF Fits
  <1>5. CASE k = 3
    <2>1. k + 1 = 4
      BY <1>5
    <2>2. AfterBarrier[k + 1] = "done"
      BY <2>1, AfterBarrierValues, Zenon
    <2> QED
      BY <2>1, <2>2 DEF Fits
  <1> QED
    BY <1>1, <1>2, <1>3, <1>4, <1>5

\* An instance that moves within its phase to a fitting place.
LEMMA MoveFits ==
  ASSUME Types, PhaseOfPC, NEW n \in Node, NEW p, phase' = phase,
         pc' = [pc EXCEPT ![n] = p], Fits(p, phase[n])
  PROVE  PhaseOfPC'
  <1> SUFFICES ASSUME NEW k \in Node PROVE Fits(pc'[k], phase'[k])
    BY DEF PhaseOfPC
  <1>1. CASE k = n
    BY <1>1 DEF Types
  <1>2. CASE k # n
    BY <1>2 DEF Types, PhaseOfPC
  <1> QED
    BY <1>1, <1>2

LEMMA PhaseStep ==
  ASSUME Types, PhaseOfPC, [Next]_vars
  PROVE  PhaseOfPC'
  <1>0. \A n \in Node : Fits(pc[n], phase[n])
    BY DEF PhaseOfPC
  <1>1. CASE UNCHANGED vars
    BY <1>1 DEF vars, app, PhaseOfPC
  <1>2. ASSUME NEW n \in Node, Listen(n) PROVE PhaseOfPC'
    <2>1. phase[n] = 0
      BY <1>0, <1>2 DEF Listen, Fits
    <2>2. Fits("signal", phase[n])
      BY <2>1 DEF Fits
    <2> QED
      BY <1>2, <2>2, MoveFits DEF Listen
  <1>3. ASSUME NEW n \in Node, Signal(n) PROVE PhaseOfPC'
    <2>1. Fits("barrier", phase[n])
      BY <1>0, <1>3 DEF Signal, Fits
    <2> QED
      BY <1>3, <2>1, MoveFits DEF Signal
  <1>4. ASSUME NEW n \in Node, PassBarrier(n) PROVE PhaseOfPC'
    <2>1. phase[n] \in 0..3
      BY <1>0, <1>4 DEF Fits, PassBarrier
    <2>2. Fits(AfterBarrier[phase[n] + 1], phase[n] + 1)
      BY <2>1, FitsAfterBarrier
    <2>3. ASSUME NEW k \in Node PROVE Fits(pc'[k], phase'[k])
      <3>1. CASE k = n
        BY <1>4, <2>2, <3>1 DEF PassBarrier, Types
      <3>2. CASE k # n
        BY <1>0, <1>4, <3>2 DEF PassBarrier, Types
      <3> QED
        BY <3>1, <3>2
    <2> QED
      BY <2>3 DEF PhaseOfPC
  <1>5. ASSUME NEW n \in Node, PublishAddress(n) PROVE PhaseOfPC'
    <2>1. Fits("collect", phase[n])
      BY <1>0, <1>5 DEF PublishAddress, Fits
    <2> QED
      BY <1>5, <2>1, MoveFits DEF PublishAddress
  <1>6. ASSUME NEW n \in Node, Dial(n) PROVE PhaseOfPC'
    <2>1. Fits("connect", phase[n])
      BY <1>0, <1>6 DEF Dial, Fits
    <2> QED
      BY <1>6, <2>1, MoveFits DEF Dial
  <1>7. ASSUME NEW n \in Node, EstablishedAsDialer(n) PROVE PhaseOfPC'
    <2>1. phase[n] = 1
      BY <1>0, <1>7 DEF EstablishedAsDialer, Fits
    <2>2. Fits("signal", phase[n])
      BY <2>1 DEF Fits
    <2> QED
      BY <1>7, <2>2, MoveFits DEF EstablishedAsDialer
  <1>8. ASSUME NEW n \in Node, SubscribeTopic(n) PROVE PhaseOfPC'
    <2>1. phase[n] = 2
      BY <1>0, <1>8 DEF SubscribeTopic, Fits
    <2>2. Fits("signal", phase[n]) /\ Fits("await_subscriptions", phase[n])
      BY <2>1 DEF Fits
    <2>3. PICK p \in {"signal", "await_subscriptions"} : pc' = [pc EXCEPT ![n] = p]
      BY <1>8 DEF SubscribeTopic
    <2>4. Fits(p, phase[n])
      BY <2>2, <2>3, Zenon
    <2> QED
      BY <1>8, <2>3, <2>4, MoveFits DEF SubscribeTopic
  <1>9. ASSUME NEW n \in Node, Publish(n) PROVE PhaseOfPC'
    <2>1. phase[n] = 3
      BY <1>0, <1>9 DEF Publish, Fits
    <2>2. /\ Fits("signal", phase[n]) /\ Fits("await_messages", phase[n])
          /\ Fits("insufficient_peers", phase[n])
      BY <2>1 DEF Fits
    <2>3. PICK p \in {"signal", "await_messages", "insufficient_peers"} :
            pc' = [pc EXCEPT ![n] = p]
      BY <1>9 DEF Publish, AfterReceiving
    <2>4. Fits(p, phase[n])
      BY <2>2, <2>3, Zenon
    <2> QED
      BY <1>9, <2>3, <2>4, MoveFits DEF Publish
  <1>10. ASSUME NEW n \in Node, Accept(n) \/ EstablishedAsListener(n) PROVE PhaseOfPC'
    BY <1>10 DEF Accept, EstablishedAsListener, app, PhaseOfPC
  <1>11. ASSUME NEW n \in Node, NEW m \in Node, HandleSubscribed(n, m)
         PROVE  PhaseOfPC'
    <2>1. PICK p : /\ pc' = [pc EXCEPT ![n] = p]
                   /\ p = pc[n] \/ (pc[n] = "await_subscriptions" /\ p = "signal")
      BY <1>11 DEF HandleSubscribed
    <2>2. CASE p = pc[n]
      BY <1>0, <1>11, <2>1, <2>2, MoveFits DEF HandleSubscribed
    <2>3. CASE pc[n] = "await_subscriptions" /\ p = "signal"
      <3>1. phase[n] = 2
        BY <1>0, <2>3 DEF Fits
      <3>2. Fits("signal", phase[n])
        BY <3>1 DEF Fits
      <3> QED
        BY <1>11, <2>3, <2>1, <3>2, MoveFits DEF HandleSubscribed
    <2> QED
      BY <2>1, <2>2, <2>3
  <1>12. ASSUME NEW n \in Node, NEW m \in Node, HandleMessage(n, m)
         PROVE  PhaseOfPC'
    <2>1. PICK p : /\ pc' = [pc EXCEPT ![n] = p]
                   /\ \/ p = pc[n]
                      \/ pc[n] = "await_subscriptions" /\ p = "unreachable"
                      \/ pc[n] = "await_messages" /\ p \in {"failed", "await_messages", "signal"}
      BY <1>12 DEF HandleMessage, AfterMessage, AfterReceiving
    <2>2. CASE p = pc[n]
      BY <1>0, <1>12, <2>1, <2>2, MoveFits DEF HandleMessage
    <2>3. CASE pc[n] = "await_subscriptions" /\ p = "unreachable"
      <3>1. phase[n] = 2
        BY <1>0, <2>3 DEF Fits
      <3>2. Fits(p, phase[n])
        BY <2>3, <3>1 DEF Fits
      <3> QED
        BY <1>12, <2>1, <3>2, MoveFits DEF HandleMessage
    <2>4. CASE pc[n] = "await_messages" /\ p \in {"failed", "await_messages", "signal"}
      <3>1. phase[n] = 3
        BY <1>0, <2>4 DEF Fits
      <3>2. /\ Fits("failed", phase[n]) /\ Fits("await_messages", phase[n])
            /\ Fits("signal", phase[n])
        BY <3>1 DEF Fits
      <3>3. Fits(p, phase[n])
        BY <2>4, <3>2, Zenon
      <3> QED
        BY <1>12, <2>1, <3>3, MoveFits DEF HandleMessage
    <2> QED
      BY <2>1, <2>2, <2>3, <2>4
  <1>13. ASSUME NEW n \in Node, NEW m \in Node,
                \E s \in Node : Gossip(n, m, s)
         PROVE  PhaseOfPC'
    BY <1>13 DEF Gossip, app, PhaseOfPC
  <1> QED
    BY <1>1, <1>2, <1>3, <1>4, <1>5, <1>6, <1>7, <1>8, <1>9, <1>10, <1>11, <1>12,
       <1>13 DEF Next, Main, Swarm

----------------------------------------------------------------------------
(* The messages *)

LEMMA AppendSent ==
  ASSUME NEW q \in Seq(Packet), NEW p \in Packet, SentAfterBarrier(q),
         p.type = "message" => phase[p.source] >= 3
  PROVE  SentAfterBarrier(Append(q, p))
  <1> SUFFICES ASSUME NEW i \in 1..Len(Append(q, p)), Append(q, p)[i].type = "message"
               PROVE  phase[Append(q, p)[i].source] >= 3
    BY DEF SentAfterBarrier
  <1>1. Len(Append(q, p)) = Len(q) + 1 /\ Len(q) \in Nat
    OBVIOUS
  <1>2. CASE i = Len(q) + 1
    <2>1. Append(q, p)[i] = p
      BY <1>2
    <2> QED
      BY <2>1
  <1>3. CASE i # Len(q) + 1
    <2>1. i \in 1..Len(q) /\ Append(q, p)[i] = q[i]
      BY <1>1, <1>3
    <2> QED
      BY <2>1 DEF SentAfterBarrier
  <1> QED
    BY <1>2, <1>3

LEMMA TailSent ==
  ASSUME NEW q \in Seq(Packet), q # <<>>, SentAfterBarrier(q)
  PROVE  SentAfterBarrier(Tail(q))
  <1> SUFFICES ASSUME NEW i \in 1..Len(Tail(q)), Tail(q)[i].type = "message"
               PROVE  phase[Tail(q)[i].source] >= 3
    BY DEF SentAfterBarrier
  <1>1. i + 1 \in 1..Len(q) /\ Tail(q)[i] = q[i + 1]
    OBVIOUS
  <1> QED
    BY <1>1 DEF SentAfterBarrier

LEMMA SendSent ==
  ASSUME Types, MessagesAfterBarrier, NEW n \in Node, NEW S, NEW p \in Packet,
         p.type = "message" => phase[p.source] >= 3, chan' = Send(n, S, p)
  PROVE  \A c \in Node \X Node : SentAfterBarrier(chan'[c])
  <1> TAKE c \in Node \X Node
  <1>1. chan[c] \in Seq(Packet) /\ SentAfterBarrier(chan[c])
    BY DEF Types, MessagesAfterBarrier
  <1>2. SentAfterBarrier(Append(chan[c], p))
    BY <1>1, AppendSent
  <1>3. chan'[c] = Append(chan[c], p) \/ chan'[c] = chan[c]
    BY DEF Send
  <1> QED
    BY <1>1, <1>2, <1>3, Zenon

LEMMA ReceivedSent ==
  ASSUME Types, MessagesAfterBarrier, NEW n \in Node, NEW m \in Node,
         chan[<<m, n>>] # <<>>, chan' = Received(n, m)
  PROVE  \A c \in Node \X Node : SentAfterBarrier(chan'[c])
  <1> TAKE c \in Node \X Node
  <1>1. \A d \in Node \X Node : chan[d] \in Seq(Packet) /\ SentAfterBarrier(chan[d])
    BY DEF Types, MessagesAfterBarrier
  <1>2. SentAfterBarrier(Tail(chan[<<m, n>>]))
    BY <1>1, TailSent
  <1>3. CASE c = <<m, n>>
    <2>1. chan'[c] = Tail(chan[<<m, n>>])
      BY <1>3 DEF Received, Types
    <2> QED
      BY <1>2, <2>1, Zenon
  <1>4. CASE c # <<m, n>>
    <2>1. chan'[c] = chan[c]
      BY <1>4 DEF Received, Types
    <2> QED
      BY <1>1, <2>1, Zenon
  <1> QED
    BY <1>3, <1>4

\* A packet that is no message, or a message whose source is beyond the barrier.
LEMMA Packets ==
  /\ Subscribe \in Packet /\ Subscribe.type # "message"
  /\ \A s \in Node : /\ Message(s) \in Packet
                     /\ Message(s).type = "message" /\ Message(s).source = s
  BY DEF Packet, Subscribe, Message

LEMMA MessagesStep ==
  ASSUME Types, PhaseOfPC, MessagesAfterBarrier, [Next]_vars
  PROVE  MessagesAfterBarrier'
  <1> DEFINE ChanSent == \A c \in Node \X Node : SentAfterBarrier(chan'[c])
             SeenSent == \A n \in Node : \A s \in seen'[n] : phase[s] >= 3
  <1>0. /\ \A c \in Node \X Node : SentAfterBarrier(chan[c])
        /\ \A n \in Node : \A s \in seen[n] : phase[s] >= 3
    BY DEF MessagesAfterBarrier
  <1>1. ASSUME chan' = chan PROVE ChanSent
    BY <1>0, <1>1
  <1>2. ASSUME seen' = seen PROVE SeenSent
    BY <1>0, <1>2
  <1>3. ASSUME ChanSent, SeenSent, phase' = phase PROVE MessagesAfterBarrier'
    BY <1>3 DEF MessagesAfterBarrier, SentAfterBarrier
  <1>4. CASE UNCHANGED vars
    BY <1>1, <1>2, <1>3, <1>4 DEF vars, app, swarm
  <1>5. ASSUME NEW n \in Node, \/ Listen(n) \/ Signal(n) \/ PublishAddress(n) \/ Dial(n)
                               \/ EstablishedAsDialer(n) \/ Accept(n)
        PROVE  MessagesAfterBarrier'
    <2>1. phase' = phase /\ chan' = chan /\ seen' = seen
      BY <1>5 DEF Listen, Signal, PublishAddress, Dial, EstablishedAsDialer, Accept,
                  app, swarm
    <2> QED
      BY <1>1, <1>2, <1>3, <2>1
  <1>6. ASSUME NEW n \in Node, PassBarrier(n) PROVE MessagesAfterBarrier'
    <2>1. phase[n] \in 0..3 /\ phase \in [Node -> 0..Barriers]
      BY <1>6 DEF PhaseOfPC, Fits, PassBarrier, Types
    <2>2. /\ chan' = chan /\ seen' = seen
          /\ phase' = [phase EXCEPT ![n] = @ + 1]
      BY <1>6 DEF PassBarrier, swarm
    <2>3. \A s \in Node : phase[s] >= 3 => phase'[s] >= 3
      BY <2>1, <2>2 DEF Barriers
    <2>4. \A k \in Node : \A s \in seen'[k] : phase'[s] >= 3
      BY <1>0, <2>2, <2>3 DEF Types
    <2>5. ASSUME NEW c \in Node \X Node, NEW i \in 1..Len(chan[c]),
                 chan[c][i].type = "message"
          PROVE  phase'[chan[c][i].source] >= 3
      <3>1. chan[c][i] \in Packet
        BY DEF Types
      <3>2. PICK s \in Node : chan[c][i] = Message(s)
        BY <2>5, <3>1, Packets DEF Packet
      <3>3. chan[c][i].source = s
        BY <3>2, Packets
      <3>4. phase[s] >= 3
        BY <1>0, <2>5, <3>3 DEF SentAfterBarrier
      <3> QED
        BY <2>3, <3>3, <3>4
    <2> QED
      BY <2>2, <2>4, <2>5 DEF MessagesAfterBarrier, SentAfterBarrier
  <1>7. ASSUME NEW n \in Node, SubscribeTopic(n) PROVE MessagesAfterBarrier'
    <2>1. phase' = phase /\ chan' = Send(n, Peers(n), Subscribe) /\ seen' = seen
      BY <1>7 DEF SubscribeTopic
    <2>2. ChanSent
      BY <2>1, Packets, SendSent
    <2> QED
      BY <1>2, <1>3, <2>1, <2>2
  <1>8. ASSUME NEW n \in Node, Publish(n) PROVE MessagesAfterBarrier'
    <2>1. phase' = phase /\ phase[n] = 3
      BY <1>8 DEF Publish, PhaseOfPC, Fits
    <2>2. CASE chan' = chan /\ seen' = seen
      BY <1>1, <1>2, <1>3, <2>1, <2>2
    <2>3. CASE /\ chan' = Send(n, topicPeers[n], Message(n))
               /\ seen' = [seen EXCEPT ![n] = @ \cup {n}]
      <3>1. ChanSent
        <4>1. Message(n).type = "message" => phase[Message(n).source] >= 3
          BY <2>1, Packets
        <4> QED
          BY <2>3, <4>1, Packets, SendSent
      <3>2. SeenSent
        <4>1. \A k \in Node : seen'[k] = seen[k] \/ seen'[k] = seen[k] \cup {n}
          BY <2>3 DEF Types
        <4>2. phase[n] >= 3
          BY <2>1
        <4> QED
          BY <1>0, <4>1, <4>2
      <3> QED
        BY <1>3, <2>1, <3>1, <3>2
    <2> QED
      BY <1>8, <2>2, <2>3 DEF Publish
  <1>9. ASSUME NEW n \in Node, EstablishedAsListener(n) PROVE MessagesAfterBarrier'
    <2>1. phase' = phase /\ seen' = seen /\ dial[n] \in Node
      BY <1>9 DEF EstablishedAsListener, app, Types
    <2>2. CASE chan' = chan
      BY <1>1, <1>2, <1>3, <2>1, <2>2
    <2>3. CASE chan' = Send(dial[n], {n}, Subscribe)
      <3>1. ChanSent
        BY <2>1, <2>3, Packets, SendSent
      <3> QED
        BY <1>2, <1>3, <2>1, <3>1
    <2> QED
      BY <1>9, <2>2, <2>3 DEF EstablishedAsListener
  <1>10. ASSUME NEW n \in Node, NEW m \in Node, HandleSubscribed(n, m)
         PROVE  MessagesAfterBarrier'
    <2>1. /\ phase' = phase /\ chan' = Received(n, m) /\ seen' = seen
          /\ chan[<<m, n>>] # <<>>
      BY <1>10 DEF HandleSubscribed, Receives, app
    <2>2. ChanSent
      BY <2>1, ReceivedSent
    <2> QED
      BY <1>2, <1>3, <2>1, <2>2
  <1>11. ASSUME NEW n \in Node, NEW m \in Node, HandleMessage(n, m)
         PROVE  MessagesAfterBarrier'
    <2> DEFINE s == Head(chan[<<m, n>>]).source
    <2>1. s \in Node /\ phase[s] >= 3
      BY <1>11, MessageHead, HeadSent DEF HandleMessage
    <2>2. phase' = phase /\ seen' = [seen EXCEPT ![n] = @ \cup {s}]
      BY <1>11 DEF HandleMessage
    <2>3. SeenSent
      <3>1. \A k \in Node : seen'[k] = seen[k] \/ seen'[k] = seen[k] \cup {s}
        BY <2>2 DEF Types
      <3> QED
        BY <1>0, <2>1, <3>1
    <2>4. ASSUME NEW c \in Node \X Node PROVE SentAfterBarrier(chan'[c])
      <3>1. chan[c] \in Seq(Packet) /\ SentAfterBarrier(chan[c])
        BY <1>0 DEF Types
      <3>2. SentAfterBarrier(Append(chan[c], Message(s)))
        <4> HIDE DEF s
        <4>1. Message(s).type = "message" => phase[Message(s).source] >= 3
          BY <2>1, Packets
        <4> QED
          BY <2>1, <3>1, <4>1, Packets, AppendSent
      <3>3. c = <<m, n>> => SentAfterBarrier(Tail(chan[c]))
        BY <1>11, <3>1, TailSent DEF HandleMessage, Receives
      <3>4. \/ chan'[c] = Tail(chan[c]) /\ c = <<m, n>>
            \/ chan'[c] = Append(chan[c], Message(s))
            \/ chan'[c] = chan[c]
        BY <1>11 DEF HandleMessage
      <3> HIDE DEF s
      <3> QED
        BY <3>1, <3>2, <3>3, <3>4, Zenon
    <2> QED
      BY <1>3, <2>2, <2>3, <2>4
  <1>12. ASSUME NEW n \in Node, NEW m \in Node, NEW s \in Node, Gossip(n, m, s)
         PROVE  MessagesAfterBarrier'
    <2>1. /\ phase' = phase /\ chan' = Send(n, {m}, Message(s)) /\ seen' = seen
          /\ phase[s] >= 3
      BY <1>0, <1>12 DEF Gossip, app
    <2>2. ChanSent
      BY <2>1, Packets, SendSent
    <2> QED
      BY <1>2, <1>3, <2>1, <2>2
  <1> QED
    BY <1>4, <1>5, <1>6, <1>7, <1>8, <1>9, <1>10, <1>11, <1>12 DEF Next, Main, Swarm

----------------------------------------------------------------------------
(* The theorems *)

LEMMA InitIInv == Init => IInv
  <1> SUFFICES ASSUME Init PROVE IInv
    OBVIOUS
  <1>1. Types
    BY TypesInit
  <1>2. \A n \in Node : pc[n] = "listen" /\ phase[n] = 0
    BY DEF Init
  <1>3. CountersExact
    <2>1. \A b \in 1..Barriers : AtBarrier(b) = {} /\ counter[b] = 0
      BY <1>2 DEF AtBarrier, Arrived, Init
    <2> QED
      BY <2>1, FS_EmptySet DEF CountersExact
  <1>4. PhaseOfPC
    <2>1. Fits("listen", 0)
      BY DEF Fits
    <2> QED
      BY <1>2, <2>1 DEF PhaseOfPC
  <1>5. LockstepInv
    BY <1>2 DEF LockstepInv, Arrived
  <1>6. MessagesAfterBarrier
    BY DEF Init, MessagesAfterBarrier, SentAfterBarrier
  <1>7. UnreachableNeverHit
    BY <1>2 DEF UnreachableNeverHit
  <1> QED
    BY <1>1, <1>3, <1>4, <1>5, <1>6, <1>7 DEF IInv

LEMMA StepIInv == IInv /\ [Next]_vars => IInv'
  BY TypesStep, CountersStep, PhaseStep, LockstepStep, MessagesStep, NeverUnreachable
     DEF IInv

\* The inductive invariant holds in every state of every run.
THEOREM Invariance == Spec => []IInv
  BY InitIInv, StepIInv, PTL DEF Spec

LEMMA IInvTypeOK == IInv => TypeOK
  <1> SUFFICES ASSUME IInv PROVE TypeOK
    OBVIOUS
  <1>1. \A b \in 1..Barriers : counter[b] \in 0..N
    <2> TAKE b \in 1..Barriers
    <2>1. AtBarrier(b) \subseteq Node
      BY DEF AtBarrier
    <2>2. Cardinality(AtBarrier(b)) <= N /\ Cardinality(AtBarrier(b)) \in Nat
      BY <2>1, NodeAssumption, FS_Subset, FS_CardinalityType DEF N
    <2> QED
      BY <2>2, Counts DEF IInv, CountersExact
  <1>2. counter \in [1..Barriers -> 0..N]
    BY <1>1 DEF IInv, Types
  <1> QED
    BY <1>2 DEF IInv, Types, TypeOK

\* Every variable keeps its type; in particular no barrier is signalled more
\* often than there are instances (signal_and_wait counts each of them once).
THEOREM TypeCorrect == Spec => []TypeOK
  BY Invariance, IInvTypeOK, PTL

\* For any number of instances, no message arrives in the subscription loop,
\* whose unreachable!() stays unreached: messages exist only beyond the third
\* barrier, and an instance in that loop has not signalled it.
THEOREM UnreachableSafe == Spec => []UnreachableNeverHit
  <1>1. IInv => UnreachableNeverHit
    BY DEF IInv
  <1> QED
    BY <1>1, Invariance, PTL

\* barrier_and_drive_swarm implements the abstract barrier for any number of
\* instances: initial states map to initial states and each step of the test
\* plan to an arrival, a passage or no step of BarrierRounds.
THEOREM BarriersRefined == Spec => ImplementsBarriers
  <1>1. Init => Rounds!Init
    BY DEF Init, Rounds!Init, Arrived
  <1>2. IInv /\ [Next]_vars => [Rounds!Next]_(Rounds!vars)
    <2> SUFFICES ASSUME IInv, [Next]_vars PROVE [Rounds!Next]_(Rounds!vars)
      OBVIOUS
    <2>0. /\ Types /\ PhaseOfPC /\ CountersExact
          /\ pc \in [Node -> PC] /\ phase \in [Node -> 0..4]
      BY DEF IInv, Types, Barriers
    <2>1. ASSUME NEW n \in Node, Signal(n) PROVE Rounds!Arrive(n)
      <3>1. phase[n] \in 0..3
        BY <2>0, <2>1 DEF Signal, PhaseOfPC, Fits
      <3>2. /\ pc[n] = "signal" /\ phase' = phase
            /\ pc' = [pc EXCEPT ![n] = "barrier"]
        BY <2>1 DEF Signal
      <3>3. Arrived(n) = phase[n] /\ Arrived(n) < Barriers
        BY <3>1, <3>2 DEF Arrived, Barriers
      <3>4. \A m \in Node : Arrived(m)' = IF m = n THEN Arrived(m) + 1 ELSE Arrived(m)
        BY <2>0, <3>2 DEF Arrived
      <3> QED
        BY <3>2, <3>3, <3>4 DEF Rounds!Arrive
    <2>2. ASSUME NEW n \in Node, PassBarrier(n) PROVE Rounds!Pass(n)
      <3>1. phase[n] \in 0..3 /\ pc[n] = "barrier"
        BY <2>0, <2>2 DEF PassBarrier, PhaseOfPC, Fits
      <3>2. /\ phase' = [phase EXCEPT ![n] = @ + 1]
            /\ pc' = [pc EXCEPT ![n] = AfterBarrier[phase[n] + 1]]
            /\ counter[phase[n] + 1] >= N
        BY <2>2 DEF PassBarrier
      <3>3. AfterBarrier[phase[n] + 1] # "barrier"
        BY <3>1, AfterBarrierSet
      <3>4. \A m \in Node : Arrived(m)' = Arrived(m)
        BY <2>0, <3>1, <3>2, <3>3 DEF Arrived
      <3>5. Arrived(n) = phase[n] + 1
        BY <3>1 DEF Arrived
      <3>6. phase[n] + 1 \in 1..Barriers
        BY <3>1 DEF Barriers
      <3>7. \A m \in Node : Arrived(m) >= Arrived(n)
        BY <2>0, <3>2, <3>5, <3>6, FullBarrier
      <3>8. phase[n] < Arrived(n)
        BY <3>1, <3>5
      <3> QED
        BY <3>2, <3>4, <3>7, <3>8 DEF Rounds!Pass
    <2>3. CASE /\ phase' = phase /\ counter' = counter
               /\ \A m \in Node : pc'[m] = "barrier" <=> pc[m] = "barrier"
      BY <2>3 DEF Rounds!vars, Arrived
    <2> QED
      BY <2>0, <2>1, <2>2, <2>3, QuietStep DEF Rounds!Next
  <1> QED
    BY <1>1, <1>2, Invariance, PTL DEF Spec, ImplementsBarriers

----------------------------------------------------------------------------
(* The dials connect all the instances *)

Published(n) == phase[n] # 0 /\ pc[n] # "publish_address"

AllPublished == {n \in Node : Published(n)}

\* The address log is a list of the instances that have published, each once,
\* and dials are made from the complete list.
DialInv ==
    /\ \A i, j \in 1..Len(addresses) : addresses[i] = addresses[j] => i = j
    /\ \A n \in Node : Published(n) <=> \E i \in 1..Len(addresses) : addresses[i] = n
    /\ Len(addresses) = Cardinality(AllPublished)
    /\ \A n \in Node : dial[n] # n => Len(addresses) = N /\ dial[n] = PeerAddr(n)

LEMMA FullLog ==
  ASSUME Types, DialInv, Len(addresses) >= N
  PROVE  /\ Len(addresses) = N
         /\ \A n \in Node : Published(n)
  <1>1. AllPublished \subseteq Node
    BY DEF AllPublished
  <1>2. /\ Cardinality(AllPublished) <= N /\ Cardinality(AllPublished) \in Nat
        /\ N = Cardinality(AllPublished) => Node = AllPublished
    BY <1>1, NodeAssumption, FS_Subset, FS_CardinalityType DEF N
  <1>3. Len(addresses) = N
    BY <1>2, Counts DEF DialInv
  <1> QED
    BY <1>2, <1>3 DEF DialInv, AllPublished

LEMMA AppendFacts ==
  ASSUME NEW q \in Seq(Node), NEW x \in Node
  PROVE  /\ Len(Append(q, x)) = Len(q) + 1 /\ Append(q, x)[Len(q) + 1] = x
         /\ \A i \in 1..Len(q) : Append(q, x)[i] = q[i]
         /\ Len(q) \in Nat
  OBVIOUS

LEMMA DialInvStep ==
  ASSUME Types, PhaseOfPC, DialInv, [Next]_vars
  PROVE  DialInv'
  <1>0. /\ pc \in [Node -> PC] /\ phase \in [Node -> 0..4] /\ dial \in [Node -> Node]
        /\ addresses \in Seq(Node)
        /\ \A n \in Node : Fits(pc[n], phase[n])
    BY DEF Types, PhaseOfPC, Barriers
  <1>1. ASSUME addresses' = addresses, dial' = dial,
               \A m \in Node : Published(m)' <=> Published(m)
        PROVE  DialInv'
    <2>1. AllPublished' = AllPublished
      BY <1>1 DEF AllPublished
    <2>2. \A n \in Node : PeerAddr(n)' = PeerAddr(n)
      BY <1>1 DEF PeerAddr
    <2> QED
      BY <1>1, <2>1, <2>2 DEF DialInv
  <1>2. ASSUME phase' = phase, \A m \in Node : pc'[m] = "publish_address" <=> pc[m] = "publish_address"
        PROVE  \A m \in Node : Published(m)' <=> Published(m)
    BY <1>2 DEF Published
  <1>3. CASE UNCHANGED vars
    BY <1>1, <1>2, <1>3 DEF vars, app, sync
  <1>4. ASSUME NEW n \in Node, Listen(n) \/ Signal(n) \/ EstablishedAsDialer(n) PROVE DialInv'
    <2>1. \A m \in Node : pc'[m] = "publish_address" <=> pc[m] = "publish_address"
      BY <1>0, <1>4 DEF Listen, Signal, EstablishedAsDialer
    <2> QED
      BY <1>1, <1>2, <1>4, <2>1 DEF Listen, Signal, EstablishedAsDialer, sync
  <1>5. ASSUME NEW n \in Node, SubscribeTopic(n) PROVE DialInv'
    <2>1. \A m \in Node : pc'[m] = "publish_address" <=> pc[m] = "publish_address"
      BY <1>0, <1>5 DEF SubscribeTopic
    <2> QED
      BY <1>1, <1>2, <1>5, <2>1 DEF SubscribeTopic, sync
  <1>6. ASSUME NEW n \in Node, Publish(n) PROVE DialInv'
    <2>1. \A m \in Node : pc'[m] = "publish_address" <=> pc[m] = "publish_address"
      BY <1>0, <1>6 DEF Publish, AfterReceiving
    <2> QED
      BY <1>1, <1>2, <1>6, <2>1 DEF Publish, sync
  <1>7. ASSUME NEW n \in Node, NEW m \in Node, HandleSubscribed(n, m) PROVE DialInv'
    <2>1. \A k \in Node : pc'[k] = "publish_address" <=> pc[k] = "publish_address"
      BY <1>0, <1>7 DEF HandleSubscribed
    <2> QED
      BY <1>1, <1>2, <1>7, <2>1 DEF HandleSubscribed, sync
  <1>8. ASSUME NEW n \in Node, NEW m \in Node, HandleMessage(n, m) PROVE DialInv'
    <2>1. \A k \in Node : pc'[k] = "publish_address" <=> pc[k] = "publish_address"
      BY <1>0, <1>8 DEF HandleMessage, AfterMessage, AfterReceiving
    <2> QED
      BY <1>1, <1>2, <1>8, <2>1 DEF HandleMessage, sync
  <1>9. ASSUME NEW n \in Node,
               \/ Accept(n) \/ EstablishedAsListener(n)
               \/ \E m \in Node : \E s \in Node : Gossip(n, m, s)
        PROVE  DialInv'
    BY <1>1, <1>2, <1>9 DEF Accept, EstablishedAsListener, Gossip, app, sync
  <1>10. ASSUME NEW n \in Node, PassBarrier(n) PROVE DialInv'
    <2>1. phase[n] \in 0..3
      BY <1>0, <1>10 DEF PassBarrier, Fits
    <2>2. phase[n] = 0 <=> AfterBarrier[phase[n] + 1] = "publish_address"
      <3>1. phase[n] \in {0, 1, 2, 3}
        BY <2>1
      <3>2. Fits(AfterBarrier[phase[n] + 1], phase[n] + 1)
        BY <2>1, FitsAfterBarrier
      <3>3. CASE phase[n] = 0
        <4>1. phase[n] + 1 = 1
          BY <3>3
        <4>2. AfterBarrier[phase[n] + 1] = "publish_address"
          BY <4>1, AfterBarrierValues, Zenon
        <4> QED
          BY <3>3, <4>2
      <3>4. CASE phase[n] # 0
        <4>1. phase[n] + 1 # 1
          BY <3>1, <3>4
        <4> QED
          BY <3>2, <3>4, <4>1 DEF Fits
      <3> QED
        BY <3>3, <3>4
    <2>3. ASSUME NEW m \in Node PROVE Published(m)' <=> Published(m)
      <3>1. CASE m = n
        <4>1. phase'[m] = phase[n] + 1 /\ phase'[m] # 0
          BY <1>0, <1>10, <2>1, <3>1 DEF PassBarrier
        <4>2. pc'[m] = AfterBarrier[phase[n] + 1] /\ pc[m] # "publish_address"
          BY <1>0, <1>10, <3>1 DEF PassBarrier
        <4> QED
          BY <2>2, <3>1, <4>1, <4>2 DEF Published
      <3>2. CASE m # n
        BY <1>0, <1>10, <3>2 DEF PassBarrier, Published
      <3> QED
        BY <3>1, <3>2
    <2> QED
      BY <1>1, <1>10, <2>3 DEF PassBarrier, sync
  <1>11. ASSUME NEW n \in Node, PublishAddress(n) PROVE DialInv'
    <2>1. /\ addresses' = Append(addresses, n) /\ dial' = dial /\ phase' = phase
          /\ pc[n] = "publish_address" /\ pc' = [pc EXCEPT ![n] = "collect"]
      BY <1>11 DEF PublishAddress
    <2>2. phase[n] = 1
      BY <1>0, <2>1 DEF Fits
    <2>3. ~Published(n)
      BY <2>1 DEF Published
    <2>4. \A m \in Node : Published(m)' <=> Published(m) \/ m = n
      <3> TAKE m \in Node
      <3>1. CASE m = n
        <4>1. phase'[m] = 1
          BY <2>1, <2>2, <3>1
        <4>2. pc'[m] = "collect"
          BY <1>0, <2>1, <3>1
        <4> QED
          BY <3>1, <4>1, <4>2 DEF Published
      <3>2. CASE m # n
        BY <1>0, <2>1, <3>2 DEF Published
      <3> QED
        BY <3>1, <3>2
    <2>5. /\ Len(addresses') = Len(addresses) + 1 /\ addresses'[Len(addresses) + 1] = n
          /\ \A i \in 1..Len(addresses) : addresses'[i] = addresses[i]
          /\ Len(addresses) \in Nat
      <3>1. addresses \in Seq(Node)
        BY <1>0
      <3> QED
        BY <2>1, <3>1, AppendFacts, Zenon
    <2>6. \A i \in 1..Len(addresses) : addresses[i] # n
      BY <2>3 DEF DialInv
    <2>7. ~(Len(addresses) >= N)
      BY <2>3, FullLog
    <2>8. \A i, j \in 1..Len(addresses') : addresses'[i] = addresses'[j] => i = j
      <3> TAKE i, j \in 1..Len(addresses')
      <3>1. i \in 1..Len(addresses) \/ i = Len(addresses) + 1
        BY <2>5
      <3>2. j \in 1..Len(addresses) \/ j = Len(addresses) + 1
        BY <2>5
      <3> QED
        BY <2>5, <2>6, <3>1, <3>2 DEF DialInv
    <2>9. ASSUME NEW m \in Node
          PROVE  Published(m)' <=> \E i \in 1..Len(addresses') : addresses'[i] = m
      <3>1. CASE m = n
        <4>1. Len(addresses) + 1 \in 1..Len(addresses')
          BY <2>5
        <4> QED
          BY <2>4, <2>5, <3>1, <4>1
      <3>2. CASE m # n
        <4>1. Published(m)' <=> \E i \in 1..Len(addresses) : addresses[i] = m
          BY <2>4, <3>2 DEF DialInv
        <4>2. 1..Len(addresses') = (1..Len(addresses)) \cup {Len(addresses) + 1}
          BY <2>5
        <4> QED
          BY <2>5, <3>2, <4>1, <4>2
      <3> QED
        BY <3>1, <3>2
    <2>10. Len(addresses') = Cardinality(AllPublished')
      <3>1. AllPublished' = AllPublished \cup {n} /\ n \notin AllPublished
        BY <2>3, <2>4 DEF AllPublished
      <3>2. AllPublished \subseteq Node
        BY DEF AllPublished
      <3>3. IsFiniteSet(AllPublished)
        BY <3>2, NodeAssumption, FS_Subset
      <3>4. Cardinality(AllPublished \cup {n}) = Cardinality(AllPublished) + 1
        BY <3>1, <3>3, FS_AddElement
      <3> QED
        BY <2>5, <3>1, <3>4 DEF DialInv
    <2>11. \A m \in Node : dial'[m] = m
      <3>1. Len(addresses) # N
        BY <2>5, <2>7, Counts
      <3> QED
        BY <2>1, <3>1 DEF DialInv
    <2> QED
      BY <2>8, <2>9, <2>10, <2>11 DEF DialInv
  <1>12. ASSUME NEW n \in Node, Dial(n) PROVE DialInv'
    <2>1. /\ addresses' = addresses /\ phase' = phase /\ Len(addresses) >= N
          /\ dial' = [dial EXCEPT ![n] = PeerAddr(n)]
      BY <1>12 DEF Dial, sync
    <2>2. \A m \in Node : Published(m)' <=> Published(m)
      BY <1>0, <1>12 DEF Dial, Published
    <2>3. Len(addresses) = N
      BY <2>1, FullLog
    <2>4. AllPublished' = AllPublished
      BY <2>2 DEF AllPublished
    <2>5. \A m \in Node : PeerAddr(m)' = PeerAddr(m)
      BY <2>1 DEF PeerAddr
    <2>6. \A m \in Node : dial'[m] # m => dial'[m] = PeerAddr(m)
      BY <1>0, <2>1 DEF DialInv
    <2> QED
      BY <2>1, <2>2, <2>3, <2>4, <2>5, <2>6 DEF DialInv
  <1> QED
    BY <1>3, <1>4, <1>5, <1>6, <1>7, <1>8, <1>9, <1>10, <1>11, <1>12 DEF Next, Main, Swarm

LEMMA DialInvInit == Init => DialInv
  <1> SUFFICES ASSUME Init PROVE DialInv
    OBVIOUS
  <1>1. addresses = <<>> /\ Len(addresses) = 0
    BY DEF Init
  <1>2. \A n \in Node : ~Published(n) /\ dial[n] = n
    BY DEF Init, Published
  <1>3. AllPublished = {}
    BY <1>2 DEF AllPublished
  <1> QED
    BY <1>1, <1>2, <1>3, FS_EmptySet DEF DialInv

\* The Slot-th address and the next dial each other, all others dial one of them.
LEMMA DoubleStar == Types /\ DialInv => DialsFormTree
  <1> SUFFICES ASSUME Types, DialInv, \A n \in Node : dial[n] # n
               PROVE  \E c, d \in Node : /\ dial[c] = d /\ dial[d] = c
                                        /\ \A n \in Node : dial[n] \in {c, d}
    BY DEF DialsFormTree
  <1>1. Node # {}
    BY NodeAssumption, FS_EmptySet
  <1>2. Len(addresses) = N /\ \A n \in Node : dial[n] = PeerAddr(n)
    BY <1>1 DEF DialInv
  <1>3. \A n \in Node : Published(n)
    BY <1>2, FullLog, Counts
  <1>4. Slot \in 1..N /\ Slot + 1 \in 1..N /\ Slot \in Nat
    BY SlotAssumption, Counts DEF N
  <1>5. PICK x \in Node : x = addresses[Slot]
    BY <1>2, <1>4 DEF Types
  <1>6. PICK y \in Node : y = addresses[Slot + 1]
    BY <1>2, <1>4 DEF Types
  <1>7. ASSUME NEW n \in Node, NEW i \in 1..N, addresses[i] = n
        PROVE  dial[n] = IF Slot < i THEN x ELSE y
    <2>1. (CHOOSE j \in 1..N : addresses[j] = n) = i
      BY <1>2, <1>7 DEF DialInv
    <2> QED
      BY <1>2, <1>5, <1>6, <2>1 DEF PeerAddr
  <1>8. \A n \in Node : dial[n] = x \/ dial[n] = y
    BY <1>2, <1>3, <1>7 DEF DialInv
  <1>9. dial[x] = y
    BY <1>4, <1>5, <1>7
  <1>10. dial[y] = x
    BY <1>4, <1>6, <1>7
  <1> QED
    BY <1>8, <1>9, <1>10

\* For any number of instances and any outcome of the shared shuffle, the
\* peers the instances dial form a tree that connects them all (main.rs:102-120).
THEOREM DialsConnect == Spec => []DialsFormTree
  <1>1. IInv /\ DialInv /\ [Next]_vars => DialInv'
    BY DialInvStep DEF IInv
  <1>2. IInv /\ DialInv => DialsFormTree
    BY DoubleStar DEF IInv
  <1> QED
    BY DialInvInit, <1>1, <1>2, Invariance, PTL DEF Spec

----------------------------------------------------------------------------
(* No message is lost, and success means that all of them arrived *)

Holds(q, s) == \E i \in 1..Len(q) : q[i] = Message(s)

InFlight(s) == \E c \in Node \X Node : Holds(chan[c], s)

\* What gossipsub has delivered is recorded.  (A message comes back to nobody: its
\* source has it in its duplicate cache before anybody else.)
RecordedInv ==
    /\ NoMessageLost
    /\ \A s \in Node : InFlight(s) => s \in seen[s]
    /\ \A n \in Node : \A s \in seen[n] : s \in seen[s]

\* n is through the message loop.
Complete(n) == phase[n] = 4 \/ (phase[n] = 3 /\ pc[n] \in {"signal", "barrier"})

\* ... which it leaves when it has heard all the others.
CompleteInv == \A n \in Node : Complete(n) => ~(Cardinality(eventMessage[n]) < N - 1)

LEMMA AppendHolds ==
  ASSUME NEW q \in Seq(Packet), NEW p \in Packet, NEW s, Holds(Append(q, p), s)
  PROVE  Holds(q, s) \/ p = Message(s)
  <1>1. /\ Len(Append(q, p)) = Len(q) + 1 /\ Append(q, p)[Len(q) + 1] = p
        /\ \A i \in 1..Len(q) : Append(q, p)[i] = q[i]
        /\ Len(q) \in Nat
    OBVIOUS
  <1>2. PICK i \in 1..Len(Append(q, p)) : Append(q, p)[i] = Message(s)
    BY DEF Holds
  <1>3. i \in 1..Len(q) \/ i = Len(q) + 1
    BY <1>1, <1>2
  <1> QED
    BY <1>1, <1>2, <1>3 DEF Holds

LEMMA TailHolds ==
  ASSUME NEW q \in Seq(Packet), q # <<>>, NEW s, Holds(Tail(q), s)
  PROVE  Holds(q, s)
  <1>1. \A i \in 1..Len(Tail(q)) : i + 1 \in 1..Len(q) /\ Tail(q)[i] = q[i + 1]
    OBVIOUS
  <1> QED
    BY <1>1 DEF Holds

LEMMA SendHolds ==
  ASSUME Types, NEW n \in Node, NEW S, NEW p \in Packet, NEW c \in Node \X Node, NEW s,
         Holds(Send(n, S, p)[c], s)
  PROVE  Holds(chan[c], s) \/ p = Message(s)
  <1>1. chan[c] \in Seq(Packet)
    BY DEF Types
  <1>2. Send(n, S, p)[c] = Append(chan[c], p) \/ Send(n, S, p)[c] = chan[c]
    BY DEF Send
  <1> QED
    BY <1>1, <1>2, AppendHolds

LEMMA HeadInFlight ==
  ASSUME Types, NEW n \in Node, NEW m \in Node, Receives(n, m, "message")
  PROVE  /\ Head(chan[<<m, n>>]).source \in Node
         /\ InFlight(Head(chan[<<m, n>>]).source)
  <1> DEFINE q == chan[<<m, n>>]
  <1>1. q \in Seq(Packet) /\ q # <<>> /\ <<m, n>> \in Node \X Node
    BY DEF Types, Receives
  <1>2. Head(q) = q[1] /\ 1 \in 1..Len(q) /\ Head(q) \in Packet
    BY <1>1
  <1>3. Head(q).type = "message"
    BY DEF Receives
  <1> HIDE DEF q
  <1>4. PICK s \in Node : Head(q) = Message(s)
    BY <1>2, <1>3, Packets DEF Packet
  <1>5. Head(q).source = s
    BY <1>4, Packets
  <1>6. Holds(q, s)
    BY <1>2, <1>4 DEF Holds
  <1>7. InFlight(s)
    BY <1>1, <1>6 DEF InFlight, q
  <1> QED
    BY <1>5, <1>7 DEF q

\* A message in flight was in flight, or is sent by one that has it.
LEMMA FlightStep ==
  ASSUME Types, [Next]_vars, NEW s \in Node, InFlight(s)'
  PROVE  \/ InFlight(s)
         \/ \E n \in Node : s \in seen[n]
         \/ Publish(s) /\ s \in seen'[s]
  <1>0. PICK c \in Node \X Node : Holds(chan'[c], s)
    BY DEF InFlight
  <1>1. Holds(chan[c], s) => InFlight(s)
    BY DEF InFlight
  <1>2. chan' = chan => InFlight(s)
    BY <1>0, <1>1
  <1>3. ASSUME NEW n \in Node, NEW S, chan' = Send(n, S, Subscribe) PROVE InFlight(s)
    <2>1. Subscribe # Message(s) /\ Subscribe \in Packet
      <3>1. Subscribe.type # "message" /\ Message(s).type = "message"
        BY Packets
      <3> QED
        BY <3>1, Packets
    <2>2. Holds(Send(n, S, Subscribe)[c], s)
      BY <1>0, <1>3
    <2> QED
      BY <1>1, <2>1, <2>2, SendHolds
  <1>4. ASSUME NEW n \in Node, SubscribeTopic(n) PROVE InFlight(s)
    BY <1>3, <1>4 DEF SubscribeTopic
  <1>5. ASSUME NEW n \in Node, EstablishedAsListener(n) PROVE InFlight(s)
    <2>1. dial[n] \in Node
      BY DEF Types
    <2> QED
      BY <1>2, <1>3, <1>5, <2>1 DEF EstablishedAsListener
  <1>6. ASSUME NEW n \in Node, Publish(n)
        PROVE  InFlight(s) \/ (Publish(s) /\ s \in seen'[s])
    <2>1. CASE chan' = chan
      BY <1>2, <2>1
    <2>2. CASE /\ chan' = Send(n, topicPeers[n], Message(n))
               /\ seen' = [seen EXCEPT ![n] = @ \cup {n}]
      <3>1. Holds(chan[c], s) \/ Message(n) = Message(s)
        BY <1>0, <2>2, SendHolds, Packets
      <3>2. Message(n) = Message(s) => n = s
        <4>1. Message(n).source = n /\ Message(s).source = s
          BY Packets
        <4> QED
          BY <4>1
      <3>3. n \in seen'[n]
        BY <2>2 DEF Types
      <3> QED
        BY <1>1, <1>6, <3>1, <3>2, <3>3
    <2> QED
      BY <1>6, <2>1, <2>2 DEF Publish
  <1>7. ASSUME NEW n \in Node, NEW m \in Node, HandleSubscribed(n, m) PROVE InFlight(s)
    <2>1. chan' = Received(n, m) /\ chan[<<m, n>>] # <<>> /\ chan[<<m, n>>] \in Seq(Packet)
      BY <1>7 DEF HandleSubscribed, Receives, Types
    <2>2. chan'[c] = chan[c] \/ (c = <<m, n>> /\ chan'[c] = Tail(chan[c]))
      BY <2>1 DEF Received, Types
    <2>3. Holds(chan[c], s)
      BY <1>0, <2>1, <2>2, TailHolds
    <2> QED
      BY <2>3 DEF InFlight
  <1>8. ASSUME NEW n \in Node, NEW m \in Node, HandleMessage(n, m) PROVE InFlight(s)
    <2> DEFINE t == Head(chan[<<m, n>>]).source
    <2>1. /\ t \in Node /\ InFlight(t) /\ chan[<<m, n>>] # <<>>
          /\ chan[c] \in Seq(Packet)
      BY <1>8, HeadInFlight DEF HandleMessage, Receives, Types
    <2>2. \/ chan'[c] = Tail(chan[c]) /\ c = <<m, n>>
          \/ chan'[c] = Append(chan[c], Message(t))
          \/ chan'[c] = chan[c]
      BY <1>8 DEF HandleMessage
    <2> HIDE DEF t
    <2>3. Message(t) \in Packet /\ (Message(t) = Message(s) => t = s)
      <3>1. Message(t).source = t /\ Message(s).source = s /\ Message(t) \in Packet
        BY <2>1, Packets
      <3> QED
        BY <3>1
    <2>4. Holds(chan[c], s) \/ t = s
      BY <1>0, <2>1, <2>2, <2>3, TailHolds, AppendHolds
    <2> QED
      BY <2>1, <2>4 DEF InFlight
  <1>9. ASSUME NEW n \in Node, NEW m \in Node, NEW t \in Node, Gossip(n, m, t)
        PROVE  InFlight(s) \/ s \in seen[n]
    <2>1. chan' = Send(n, {m}, Message(t)) /\ t \in seen[n] /\ Message(t) \in Packet
      BY <1>9, Packets DEF Gossip
    <2>2. Message(t) = Message(s) => t = s
      <3>1. Message(t).source = t /\ Message(s).source = s
        BY Packets
      <3> QED
        BY <3>1
    <2>3. Holds(chan[c], s) \/ t = s
      BY <1>0, <2>1, <2>2, SendHolds
    <2> QED
      BY <2>1, <2>3 DEF InFlight
  <1>10. ASSUME NEW n \in Node, \/ Listen(n) \/ Signal(n) \/ PassBarrier(n) \/ PublishAddress(n)
                                \/ Dial(n) \/ EstablishedAsDialer(n) \/ Accept(n)
         PROVE  chan' = chan
    BY <1>10 DEF Listen, Signal, PassBarrier, PublishAddress, Dial, EstablishedAsDialer,
                 Accept, swarm
  <1>11. UNCHANGED vars => chan' = chan
    BY DEF vars, swarm
  <1> QED
    BY <1>2, <1>4, <1>5, <1>6, <1>7, <1>8, <1>9, <1>10, <1>11 DEF Next, Main, Swarm

\* The places where a message can arrive are those that record it.
LEMMA MessageRecorded ==
  ASSUME IInv, NEW n \in Node, NEW m \in Node, HandleMessage(n, m)
  PROVE  \E s \in Node :
           /\ s = Head(chan[<<m, n>>]).source
           /\ InFlight(s) /\ s \notin seen[n] /\ phase' = phase
           /\ seen' = [seen EXCEPT ![n] = seen[n] \cup {s}]
           /\ eventMessage' = [eventMessage EXCEPT ![n] = eventMessage[n] \cup {s}]
           /\ pc' = [pc EXCEPT ![n] = AfterMessage(n, s)]
  <1> DEFINE s == Head(chan[<<m, n>>]).source
  <1>1. s \in Node /\ InFlight(s) /\ phase[s] >= 3
    BY HeadInFlight, HeadSent DEF HandleMessage, IInv
  <1>2. phase[s] <= Arrived(n) /\ Arrived(n) \in 0..4 /\ phase[s] \in 0..4
    BY <1>1, ArrivedType DEF IInv, LockstepInv, Types, Barriers
  <1>3. pc[n] # "await_subscriptions"
    BY <1>1, LockstepNoMessage DEF IInv
  <1>4. pc[n] # "connect"
    <2> SUFFICES ASSUME pc[n] = "connect" PROVE FALSE
      OBVIOUS
    <2>1. phase[n] = 1
      BY DEF IInv, PhaseOfPC, Fits
    <2>2. Arrived(n) = 1
      BY <2>1 DEF Arrived
    <2> QED
      BY <1>1, <1>2, <2>2
  <1>5. RecordsMessage(n)
    BY <1>3, <1>4 DEF HandleMessage, Receives, Polling, RecordsMessage
  <1> QED
    BY <1>1, <1>5 DEF HandleMessage

LEMMA MessageFrames ==
  ASSUME [Next]_vars
  PROVE  \/ eventMessage' = eventMessage /\ seen' = seen
         \/ \E n \in Node : Publish(n)
         \/ \E n \in Node, m \in Node : HandleMessage(n, m)
  <1>1. ASSUME NEW n \in Node, \/ Listen(n) \/ Signal(n) \/ PassBarrier(n) \/ PublishAddress(n)
                               \/ Dial(n) \/ EstablishedAsDialer(n) \/ Accept(n)
        PROVE  eventMessage' = eventMessage /\ seen' = seen
    BY <1>1 DEF Listen, Signal, PassBarrier, PublishAddress, Dial, EstablishedAsDialer,
                Accept, app, swarm
  <1>2. ASSUME NEW n \in Node, SubscribeTopic(n) \/ EstablishedAsListener(n)
        PROVE  eventMessage' = eventMessage /\ seen' = seen
    BY <1>2 DEF SubscribeTopic, EstablishedAsListener, app
  <1>3. ASSUME NEW n \in Node, NEW m \in Node,
               HandleSubscribed(n, m) \/ \E s \in Node : Gossip(n, m, s)
        PROVE  eventMessage' = eventMessage /\ seen' = seen
    BY <1>3 DEF HandleSubscribed, Gossip, app
  <1>4. CASE UNCHANGED vars
    BY <1>4 DEF vars, app, swarm
  <1> QED
    BY <1>1, <1>2, <1>3, <1>4 DEF Next, Main, Swarm

LEMMA RecordedStep ==
  ASSUME IInv, RecordedInv, [Next]_vars
  PROVE  RecordedInv'
  <1>0. /\ seen \in [Node -> SUBSET Node] /\ eventMessage \in [Node -> SUBSET Node]
        /\ \A s \in Node : InFlight(s) => s \in seen[s]
        /\ \A n \in Node : \A s \in seen[n] : s \in seen[s]
        /\ \A n \in Node : eventMessage[n] = seen[n] \ {n}
    BY DEF IInv, Types, RecordedInv, NoMessageLost
  <1>1. ASSUME NEW n \in Node, Publish(n)
        PROVE  /\ eventMessage' = eventMessage
               /\ seen' = seen \/ seen' = [seen EXCEPT ![n] = seen[n] \cup {n}]
    BY <1>1 DEF Publish
  <1>2. ASSUME NEW n \in Node, NEW m \in Node, HandleMessage(n, m)
        PROVE  \E s \in Node :
                 /\ s \in seen[s] /\ s # n
                 /\ seen' = [seen EXCEPT ![n] = seen[n] \cup {s}]
                 /\ eventMessage' = [eventMessage EXCEPT ![n] = eventMessage[n] \cup {s}]
    <2>1. PICK s \in Node :
            /\ InFlight(s) /\ s \notin seen[n]
            /\ seen' = [seen EXCEPT ![n] = seen[n] \cup {s}]
            /\ eventMessage' = [eventMessage EXCEPT ![n] = eventMessage[n] \cup {s}]
      BY <1>2, MessageRecorded
    <2>2. s \in seen[s] /\ s # n
      BY <1>0, <2>1
    <2> QED
      BY <2>1, <2>2
  <1> DEFINE Kept == /\ \A n \in Node : eventMessage'[n] = seen'[n] \ {n}
                     /\ \A n \in Node : seen[n] \subseteq seen'[n]
                     /\ \A n \in Node : \A s \in seen'[n] : s \in seen'[s]
  <1>3. Kept
    <2>1. CASE eventMessage' = eventMessage /\ seen' = seen
      BY <1>0, <2>1
    <2>2. ASSUME NEW n \in Node, Publish(n) PROVE Kept
      <3>1. CASE seen' = seen
        BY <1>0, <1>1, <2>2, <3>1
      <3>2. CASE seen' = [seen EXCEPT ![n] = seen[n] \cup {n}]
        BY <1>0, <1>1, <2>2, <3>2
      <3> QED
        BY <1>1, <2>2, <3>1, <3>2
    <2>3. ASSUME NEW n \in Node, NEW m \in Node, HandleMessage(n, m) PROVE Kept
      <3>1. PICK s \in Node :
                 /\ s \in seen[s] /\ s # n
                 /\ seen' = [seen EXCEPT ![n] = seen[n] \cup {s}]
                 /\ eventMessage' = [eventMessage EXCEPT ![n] = eventMessage[n] \cup {s}]
        BY <1>2, <2>3
      <3>2. \A k \in Node : /\ seen'[k] = IF k = n THEN seen[k] \cup {s} ELSE seen[k]
                            /\ eventMessage'[k] = IF k = n THEN eventMessage[k] \cup {s}
                                                  ELSE eventMessage[k]
        BY <1>0, <3>1
      <3> QED
        BY <1>0, <3>1, <3>2
    <2> QED
      BY <2>1, <2>2, <2>3, MessageFrames
  <1>4. ASSUME NEW s \in Node, InFlight(s)' PROVE s \in seen'[s]
    <2>1. Types
      BY DEF IInv
    <2> QED
      BY <1>0, <1>3, <1>4, <2>1, FlightStep
  <1> QED
    BY <1>3, <1>4 DEF RecordedInv, NoMessageLost

LEMMA RecordedInit == Init => RecordedInv
  <1> SUFFICES ASSUME Init PROVE RecordedInv
    OBVIOUS
  <1>1. \A c \in Node \X Node : chan[c] = <<>>
    BY DEF Init
  <1>2. \A s \in Node : ~InFlight(s)
    BY <1>1 DEF InFlight, Holds
  <1> QED
    BY <1>2 DEF Init, RecordedInv, NoMessageLost

\* For any number of instances: no message that gossipsub delivers is thrown away
\* by an event loop or a barrier that does not expect it (main.rs:312-364).
THEOREM MessagesRecorded == Spec => []NoMessageLost
  <1>1. IInv /\ RecordedInv /\ [Next]_vars => RecordedInv'
    BY RecordedStep
  <1>2. RecordedInv => NoMessageLost
    BY DEF RecordedInv
  <1> QED
    BY RecordedInit, <1>1, <1>2, Invariance, PTL DEF Spec

\* An instance gets through the message loop only with the last message.
LEMMA CompleteMove ==
  ASSUME IInv, [Next]_vars, NEW k \in Node, Complete(k)',
         \A n \in Node : \A m \in Node : ~HandleMessage(n, m)
  PROVE  Complete(k) \/ ~(Cardinality(eventMessage[k]) < N - 1)
  <1>0. /\ pc \in [Node -> PC] /\ phase \in [Node -> 0..4] /\ phase[k] \in 0..4
        /\ \A n \in Node : Fits(pc[n], phase[n])
    BY DEF IInv, Types, PhaseOfPC, Barriers
  <1>1. CASE pc'[k] = pc[k] /\ phase'[k] = phase[k]
    BY <1>1 DEF Complete
  <1>2. ASSUME NEW n \in Node, \/ Listen(n) \/ PublishAddress(n) \/ Dial(n)
                               \/ EstablishedAsDialer(n)
        PROVE  Complete(k)
    <2>1. phase[n] \in {0, 1} /\ phase' = phase
      BY <1>0, <1>2 DEF Listen, PublishAddress, Dial, EstablishedAsDialer, Fits
    <2>2. n # k => pc'[k] = pc[k]
      BY <1>0, <1>2 DEF Listen, PublishAddress, Dial, EstablishedAsDialer
    <2> QED
      BY <2>1, <2>2 DEF Complete
  <1>3. ASSUME NEW n \in Node, Signal(n) PROVE Complete(k)
    <2>1. phase' = phase /\ pc[n] = "signal" /\ pc' = [pc EXCEPT ![n] = "barrier"]
      BY <1>3 DEF Signal
    <2> QED
      BY <1>0, <2>1 DEF Complete
  <1>4. ASSUME NEW n \in Node, PassBarrier(n) PROVE Complete(k)
    <2>1. /\ pc[n] = "barrier" /\ phase[n] \in 0..3
          /\ phase' = [phase EXCEPT ![n] = phase[n] + 1]
          /\ pc' = [pc EXCEPT ![n] = AfterBarrier[phase[n] + 1]]
      BY <1>0, <1>4 DEF PassBarrier, Fits
    <2>2. AfterBarrier[phase[n] + 1] \notin {"signal", "barrier"}
      BY <2>1, AfterBarrierSet
    <2>3. CASE k = n
      <3>1. phase'[k] = phase[k] + 1 /\ pc'[k] \notin {"signal", "barrier"}
        BY <1>0, <2>1, <2>2, <2>3
      <3>2. phase'[k] = 4
        BY <3>1 DEF Complete
      <3> QED
        BY <1>0, <2>1, <2>3, <3>1, <3>2 DEF Complete
    <2>4. CASE k # n
      BY <1>0, <2>1, <2>4 DEF Complete
    <2> QED
      BY <2>3, <2>4
  <1>5. ASSUME NEW n \in Node, SubscribeTopic(n) PROVE Complete(k)
    <2>1. phase[n] = 2 /\ phase' = phase
      BY <1>0, <1>5 DEF SubscribeTopic, Fits
    <2>2. n # k => pc'[k] = pc[k]
      BY <1>0, <1>5 DEF SubscribeTopic
    <2> QED
      BY <2>1, <2>2 DEF Complete
  <1>6. ASSUME NEW n \in Node, Publish(n)
        PROVE  Complete(k) \/ ~(Cardinality(eventMessage[k]) < N - 1)
    <2>1. phase' = phase
      BY <1>6 DEF Publish
    <2>2. CASE k = n
      <3>1. pc'[k] = "insufficient_peers" \/ pc'[k] = AfterReceiving(eventMessage[k])
        BY <1>0, <1>6, <2>2 DEF Publish
      <3>2. phase[k] = 3
        BY <1>0, <1>6, <2>2 DEF Publish, Fits
      <3>3. pc'[k] \in {"signal", "barrier"}
        BY <2>1, <3>2 DEF Complete
      <3> QED
        BY <3>1, <3>3 DEF AfterReceiving
    <2>3. CASE k # n
      <3>1. pc'[k] = pc[k]
        BY <1>0, <1>6, <2>3 DEF Publish
      <3> QED
        BY <1>1, <2>1, <3>1
    <2> QED
      BY <2>2, <2>3
  <1>7. ASSUME NEW n \in Node, Accept(n) \/ EstablishedAsListener(n) PROVE Complete(k)
    BY <1>7 DEF Accept, EstablishedAsListener, app, Complete
  <1>8. ASSUME NEW n \in Node, NEW m \in Node, HandleSubscribed(n, m) PROVE Complete(k)
    <2>1. phase' = phase
      BY <1>8 DEF HandleSubscribed
    <2>2. pc'[k] = pc[k] \/ (k = n /\ pc[n] = "await_subscriptions")
      BY <1>0, <1>8 DEF HandleSubscribed
    <2>3. pc[n] = "await_subscriptions" => phase[n] = 2
      BY <1>0 DEF Fits
    <2> QED
      BY <2>1, <2>2, <2>3 DEF Complete
  <1>9. ASSUME NEW n \in Node, NEW m \in Node, HandleMessage(n, m) PROVE FALSE
    BY <1>9
  <1>10. ASSUME NEW n \in Node, NEW m \in Node, \E s \in Node : Gossip(n, m, s) PROVE Complete(k)
    BY <1>10 DEF Gossip, app, Complete
  <1>11. CASE UNCHANGED vars
    BY <1>11 DEF vars, app, Complete
  <1> QED
    BY <1>2, <1>3, <1>4, <1>5, <1>6, <1>7, <1>8, <1>9, <1>10, <1>11 DEF Next, Main, Swarm

LEMMA CompleteStep ==
  ASSUME IInv, CompleteInv, [Next]_vars
  PROVE  CompleteInv'
  <1>0. /\ eventMessage \in [Node -> SUBSET Node] /\ pc \in [Node -> PC]
        /\ \A n \in Node : Fits(pc[n], phase[n])
    BY DEF IInv, Types, PhaseOfPC
  <1> SUFFICES ASSUME NEW k \in Node, Complete(k)'
               PROVE  ~(Cardinality(eventMessage'[k]) < N - 1)
    BY DEF CompleteInv
  <1>1. CASE \A n \in Node : \A m \in Node : ~HandleMessage(n, m)
    <2>1. ~(Cardinality(eventMessage[k]) < N - 1)
      BY <1>1, CompleteMove DEF CompleteInv
    <2>2. eventMessage' = eventMessage
      BY <1>1, MessageFrames DEF Publish
    <2> QED
      BY <2>1, <2>2
  <1>2. ASSUME NEW n \in Node, NEW m \in Node, HandleMessage(n, m)
        PROVE  ~(Cardinality(eventMessage'[k]) < N - 1)
    <2>1. PICK s \in Node :
               /\ phase' = phase
               /\ eventMessage' = [eventMessage EXCEPT ![n] = eventMessage[n] \cup {s}]
               /\ pc' = [pc EXCEPT ![n] = AfterMessage(n, s)]
      BY <1>2, MessageRecorded
    <2>2. CASE k # n
      <3>1. eventMessage'[k] = eventMessage[k] /\ pc'[k] = pc[k]
        BY <1>0, <2>1, <2>2
      <3> QED
        BY <2>1, <3>1 DEF Complete, CompleteInv
    <2>3. CASE k = n
      <3>1. /\ eventMessage'[k] = eventMessage[k] \cup {s}
            /\ pc'[k] = AfterMessage(k, s) /\ phase'[k] = phase[k]
        BY <1>0, <2>1, <2>3
      <3>2. CASE pc[k] = "await_messages"
        <4>1. phase[k] = 3
          BY <1>0, <3>2 DEF Fits
        <4>2. pc'[k] \in {"signal", "barrier"}
          BY <3>1, <4>1 DEF Complete
        <4>3. pc'[k] = AfterReceiving(eventMessage[k] \cup {s})
          BY <3>1, <3>2, <4>2 DEF AfterMessage
        <4> QED
          BY <3>1, <4>2, <4>3 DEF AfterReceiving
      <3>3. CASE pc[k] = "await_subscriptions"
        <4>1. phase[k] = 2
          BY <1>0, <3>3 DEF Fits
        <4> QED
          BY <3>1, <4>1 DEF Complete
      <3>4. CASE pc[k] \notin {"await_messages", "await_subscriptions"}
        <4>1. Complete(k)
          BY <3>1, <3>4 DEF Complete, AfterMessage
        <4>2. IsFiniteSet(eventMessage'[k]) /\ eventMessage[k] \subseteq eventMessage'[k]
          BY <1>0, <3>1, NodeAssumption, FS_Subset
        <4>3. /\ Cardinality(eventMessage[k]) <= Cardinality(eventMessage'[k])
              /\ Cardinality(eventMessage[k]) \in Nat /\ Cardinality(eventMessage'[k]) \in Nat
          BY <4>2, FS_Subset, FS_CardinalityType
        <4>4. ~(Cardinality(eventMessage[k]) < N - 1)
          BY <4>1 DEF CompleteInv
        <4> QED
          BY <4>3, <4>4, Counts
      <3> QED
        BY <3>2, <3>3, <3>4
    <2> QED
      BY <2>2, <2>3
  <1> QED
    BY <1>1, <1>2

LEMMA CompleteInit == Init => CompleteInv
  BY DEF Init, CompleteInv, Complete

\* N - 1 others are all the others.
LEMMA AllOthers ==
  ASSUME NEW n \in Node, NEW S, S \subseteq Node \ {n}, ~(Cardinality(S) < N - 1)
  PROVE  S = Node \ {n}
  <1>1. IsFiniteSet(Node \ {n}) /\ Cardinality(Node \ {n}) = N - 1
    BY NodeAssumption, FS_RemoveElement DEF N
  <1>2. IsFiniteSet(S) /\ Cardinality(S) <= N - 1
        /\ (Cardinality(S) = Cardinality(Node \ {n}) => S = Node \ {n})
    BY <1>1, FS_Subset
  <1>3. Cardinality(S) \in Nat
    BY <1>2, FS_CardinalityType
  <1> QED
    BY <1>1, <1>2, <1>3, Counts

LEMMA DoneImpliesReceived == IInv /\ RecordedInv /\ CompleteInv => SuccessMeansAllReceived
  <1> SUFFICES ASSUME IInv, RecordedInv, CompleteInv,
                      NEW n \in Node, pc[n] = "done", NEW m \in Node
               PROVE  eventMessage[m] = Node \ {m}
    BY DEF SuccessMeansAllReceived
  <1>1. phase[n] = 4
    BY DEF IInv, PhaseOfPC, Fits
  <1>2. phase[n] <= Arrived(m) /\ phase[m] \in 0..4
    BY DEF IInv, LockstepInv, Types, Barriers
  <1>3. Complete(m)
    BY <1>1, <1>2 DEF Arrived, Complete
  <1>4. eventMessage[m] \subseteq Node \ {m}
    BY DEF RecordedInv, NoMessageLost, IInv, Types
  <1> QED
    BY <1>3, <1>4, AllOthers DEF CompleteInv

\* For any number of instances: when one records success, each of them holds the
\* messages of all the others (main.rs:341-374).
THEOREM SuccessComplete == Spec => []SuccessMeansAllReceived
  <1>1. IInv /\ RecordedInv /\ [Next]_vars => RecordedInv'
    BY RecordedStep
  <1>2. IInv /\ CompleteInv /\ [Next]_vars => CompleteInv'
    BY CompleteStep
  <1> QED
    BY RecordedInit, CompleteInit, <1>1, <1>2, DoneImpliesReceived, Invariance, PTL DEF Spec

=============================================================================
