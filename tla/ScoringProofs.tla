--------------------------- MODULE ScoringProofs ---------------------------
(***************************************************************************)
(* What is proved of Scoring for every number of beacon nodes and          *)
(* attackers, every topology and every distribution of the validators.     *)
(*                                                                         *)
(* The barriers are barriers for both groups (LockstepInv), so that dials  *)
(* are made when all sockets are bound.  An attacker chooses from a log    *)
(* that is then complete and does not change any more (LogInv), which is   *)
(* why all the attackers choose alike (TargetInv).                         *)
(***************************************************************************)
EXTENDS Scoring, FiniteSetTheorems, WellFoundedInduction, TLAPS

\* Barriers n has signalled.
Arrived(n) == phase[n] + (IF pc[n] = "barrier" THEN 1 ELSE 0)

AtBarrier(b) == {n \in Node : Arrived(n) >= b}

\* The types that need no counting.
Types ==
    /\ pc \in [Node -> PC]
    /\ phase \in [Node -> 0..4]
    /\ target \in [Attacker -> Beacon]
    /\ beaconInfos \in Seq(Beacon)
    /\ attackerInfos \subseteq Attacker
    /\ counter \in [1..4 -> Nat]
    /\ listening \subseteq Node
    /\ dialled \subseteq Node \X Beacon
    /\ refused \subseteq dialled
    /\ GossipsubTypeOK

\* The counters hold the numbers of instances that signalled them.
CountersExact == \A b \in 1..4 : counter[b] = Cardinality(AtBarrier(b))

\* Where the run() of n can be when k barriers are behind it.
Fits(n, place, k) ==
    /\ place \in {"publish_info", "collect_beacon_nodes", "collect_attackers", "listen"}
            => k = 1
    /\ place = "dial" => k = 2
    /\ place \in {"subscribe", "run", "record"} => k = 3
    /\ place \in {"signal", "barrier"} => k \in 0..3
    /\ place = "done" => k = 4
    /\ place = "collect_attackers" => n \in Beacon

PhaseOfPC == \A n \in Node : Fits(n, pc[n], phase[n])

\* Nobody is through a barrier that somebody has not signalled.
LockstepInv == \A n, m \in Node : phase[n] <= Arrived(m)

\* What n has behind it: start_libp2p, the dials, for a beacon node the
\* publication of its info, for an attacker the choice of its target.
Bound(n) ==
    \/ phase[n] >= 2
    \/ phase[n] = 1 /\ pc[n] \in {"signal", "barrier"}
    \/ phase[n] = 1 /\ n \in Attacker /\ pc[n] # "listen"
HasDialled(n) == phase[n] >= 3 \/ (phase[n] = 2 /\ pc[n] # "dial")
Published(n) == phase[n] >= 2 \/ (phase[n] = 1 /\ pc[n] # "publish_info")
Chosen(n) == phase[n] >= 2 \/ (phase[n] = 1 /\ pc[n] \in {"publish_info", "signal", "barrier"})

AllPublished == {n \in Beacon : Published(n)}

ListeningInv == \A n \in Node : Bound(n) => n \in listening

AllAccepted == refused = {}

\* Whoever is through the dials has made all of them, and nobody else any.
DialledInv ==
    /\ \A n \in Node : HasDialled(n) => {n} \X Targets(n) \subseteq dialled
    /\ \A d \in dialled : HasDialled(d[1]) /\ d[2] \in Targets(d[1])

\* The log lists the beacon nodes that have published, each once.
LogInv ==
    /\ \A i, j \in 1..Len(beaconInfos) : beaconInfos[i] = beaconInfos[j] => i = j
    /\ \A n \in Beacon : Published(n) <=> \E i \in 1..Len(beaconInfos) : beaconInfos[i] = n
    /\ Len(beaconInfos) = Cardinality(AllPublished)

\* A target is chosen from the complete log.
TargetInv ==
    \A n \in Attacker : Chosen(n) => /\ Len(beaconInfos) >= Cardinality(Beacon)
                                     /\ target[n] = FirstWithMost(beaconInfos)

IInv ==
    /\ Types
    /\ PhaseOfPC
    /\ CountersExact
    /\ LockstepInv
    /\ ListeningInv
    /\ AllAccepted
    /\ DialledInv
    /\ LogInv
    /\ TargetInv

----------------------------------------------------------------------------

LEMMA Counts == N \in Nat
  BY GroupsAssumption, FS_CardinalityType DEF N

LEMMA BeaconFinite == IsFiniteSet(Beacon) /\ Cardinality(Beacon) \in Nat \ {0}
  <1>1. Beacon \subseteq Node /\ Beacon # {}
    BY GroupsAssumption DEF Node
  <1> QED
    BY <1>1, GroupsAssumption, FS_Subset, FS_CardinalityType, FS_EmptySet

LEMMA BarriersValue == Barriers = 4
  BY DEF Barriers

\* Both groups continue at a place that fits, and not at a barrier.
LEMMA AfterBarrierFits ==
  ASSUME NEW n \in Node, NEW k \in 0..3
  PROVE  /\ Fits(n, AfterBarrier(n, k + 1), k + 1)
         /\ AfterBarrier(n, k + 1) \in PC \ {"barrier"}
         /\ k + 1 = 1 /\ n \in Beacon => AfterBarrier(n, k + 1) = "publish_info"
         /\ k + 1 = 1 /\ n \in Attacker => AfterBarrier(n, k + 1) = "listen"
         /\ k + 1 = 2 => AfterBarrier(n, k + 1) = "dial"
  <1> DEFINE p == AfterBarrier(n, k + 1)
  <1>1. k + 1 \in {1, 2, 3, 4}
    OBVIOUS
  <1>2. ~(n \in Beacon /\ n \in Attacker)
    BY GroupsAssumption
  <1>3. CASE n \in Beacon
    <2>0. p = <<"publish_info", "dial", "subscribe", "done">>[k + 1]
      BY <1>3 DEF AfterBarrier
    <2> HIDE DEF p
    <2>1. /\ k + 1 = 1 => p = "publish_info"
          /\ k + 1 = 2 => p = "dial"
          /\ k + 1 = 3 => p = "subscribe"
          /\ k + 1 = 4 => p = "done"
      BY <2>0
    <2> QED
      BY <1>1, <1>2, <1>3, <2>1 DEF p, Fits, PC
  <1>4. CASE n \notin Beacon
    <2>0. p = <<"listen", "dial", "signal", "done">>[k + 1]
      BY <1>4 DEF AfterBarrier
    <2> HIDE DEF p
    <2>1. /\ k + 1 = 1 => p = "listen"
          /\ k + 1 = 2 => p = "dial"
          /\ k + 1 = 3 => p = "signal"
          /\ k + 1 = 4 => p = "done"
      BY <2>0
    <2> QED
      BY <1>1, <1>4, <2>1 DEF p, Fits, PC
  <1> QED
    BY <1>3, <1>4

LEMMA ArrivedType ==
  ASSUME Types, PhaseOfPC, NEW n \in Node
  PROVE  Arrived(n) \in 0..4 /\ phase[n] <= Arrived(n) /\ phase[n] \in 0..4
  <1>1. phase[n] \in 0..4
    BY DEF Types
  <1>2. pc[n] = "barrier" => phase[n] \in 0..3
    BY DEF PhaseOfPC, Fits
  <1> QED
    BY <1>1, <1>2 DEF Arrived

----------------------------------------------------------------------------
(* Where run() is *)

\* The steps of run() that are no step of a barrier.
Moves(n) ==
    \/ Listen(n) \/ Dial(n) \/ PublishBeaconInfo(n) \/ CollectBeaconNodes(n)
    \/ CollectAttackers(n) \/ Subscribe(n) \/ Record(n) \/ CollectBeaconNodeInfo(n)
    \/ PublishAttackerInfo(n) \/ (n \in Beacon /\ Deadline(n))

\* A move is within a phase, to a place that fits and is no barrier.
LEMMA MovePlaces ==
  ASSUME Types, PhaseOfPC, NEW n \in Node, Moves(n)
  PROVE  /\ pc[n] # "barrier"
         /\ \E p \in PC : /\ p # "barrier" /\ Fits(n, p, phase[n])
                          /\ pc' = [pc EXCEPT ![n] = p]
         /\ phase' = phase /\ counter' = counter
  <1>0. Fits(n, pc[n], phase[n])
    BY DEF PhaseOfPC
  <1> DEFINE Result(p) == /\ pc[n] # "barrier"
                          /\ p \in PC /\ p # "barrier" /\ Fits(n, p, phase[n])
                          /\ pc' = [pc EXCEPT ![n] = p]
                          /\ phase' = phase /\ counter' = counter
  <1> SUFFICES \E p : Result(p)
    OBVIOUS
  <1>1. CASE Listen(n)
    <2>1. Result(IF n \in Beacon THEN "signal" ELSE "collect_beacon_nodes")
      BY <1>0, <1>1 DEF Listen, Goto, Fits, PC, sync
    <2> QED
      BY <2>1
  <1>2. CASE Dial(n)
    <2>1. Result("signal")
      BY <1>0, <1>2 DEF Dial, Goto, Fits, PC, sync
    <2> QED
      BY <2>1
  <1>3. CASE PublishBeaconInfo(n)
    <2>1. Result("collect_beacon_nodes")
      BY <1>0, <1>3 DEF PublishBeaconInfo, Goto, Fits, PC
    <2> QED
      BY <2>1
  <1>4. CASE CollectBeaconNodes(n)
    <2>1. Result("collect_attackers")
      BY <1>0, <1>4 DEF CollectBeaconNodes, Goto, Fits, PC, sync
    <2> QED
      BY <2>1
  <1>5. CASE CollectAttackers(n)
    <2>1. Result("listen")
      BY <1>0, <1>5 DEF CollectAttackers, Goto, Fits, PC, sync
    <2> QED
      BY <2>1
  <1>6. CASE Subscribe(n)
    <2>1. Result("run")
      BY <1>0, <1>6 DEF Subscribe, Goto, Fits, PC, sync
    <2> QED
      BY <2>1
  <1>7. CASE Record(n)
    <2>1. Result("signal")
      BY <1>0, <1>7 DEF Record, Goto, Fits, PC, sync
    <2> QED
      BY <2>1
  <1>8. CASE CollectBeaconNodeInfo(n)
    <2>1. Result("publish_info")
      BY <1>0, <1>8 DEF CollectBeaconNodeInfo, Goto, Fits, PC, sync
    <2> QED
      BY <2>1
  <1>9. CASE PublishAttackerInfo(n)
    <2>1. Result("signal")
      BY <1>0, <1>9 DEF PublishAttackerInfo, Goto, Fits, PC
    <2> QED
      BY <2>1
  <1>10. CASE n \in Beacon /\ Deadline(n)
    <2>1. Result("record")
      BY <1>0, <1>10 DEF Deadline, Running, Goto, Fits, PC, sync
    <2> QED
      BY <2>1
  <1> QED
    BY <1>1, <1>2, <1>3, <1>4, <1>5, <1>6, <1>7, <1>8, <1>9, <1>10 DEF Moves

\* Only gossipsub moves.
Quiet == UNCHANGED <<app, sync, conns>>

LEMMA Steps ==
  ASSUME Types, [Next]_vars
  PROVE  Quiet \/ \E n \in Node : Signal(n) \/ PassBarrier(n) \/ Moves(n)
  <1>1. CASE UNCHANGED vars
    BY <1>1 DEF vars, Quiet
  <1>2. ASSUME NEW n \in Node, Setup(n)
        PROVE  \E m \in Node : Signal(m) \/ PassBarrier(m) \/ Moves(m)
    BY <1>2 DEF Setup, Moves
  <1>3. ASSUME NEW n \in Beacon, Deadline(n) PROVE n \in Node /\ Moves(n)
    BY <1>3 DEF Moves, Node
  <1>4. ASSUME NEW n \in Beacon, Receive(n) PROVE Quiet
    BY <1>4 DEF Receive, HandleEvent, Quiet
  <1>5. ASSUME NEW n \in Beacon, Publish(n) PROVE Quiet
    BY <1>5 DEF Publish, Quiet
  <1>6. ASSUME NEW n \in Beacon, NEW m \in Beacon, Heartbeat(n, m) PROVE Quiet
    BY <1>6 DEF Heartbeat, Quiet
  <1>7. ASSUME NEW d \in dialled, Connect(d) PROVE Quiet
    BY <1>7 DEF Connect, Quiet
  <1> QED
    BY <1>1, <1>2, <1>3, <1>4, <1>5, <1>6, <1>7 DEF Next

\* Every step leaves all but one instance where they are.
LEMMA PhaseStep ==
  ASSUME Types, PhaseOfPC, [Next]_vars
  PROVE  PhaseOfPC' /\ pc' \in [Node -> PC] /\ phase' \in [Node -> 0..4]
  <1> DEFINE Goal == PhaseOfPC' /\ pc' \in [Node -> PC] /\ phase' \in [Node -> 0..4]
  <1>0. /\ pc \in [Node -> PC] /\ phase \in [Node -> 0..4]
        /\ \A n \in Node : Fits(n, pc[n], phase[n])
    BY DEF PhaseOfPC, Types
  <1>1. ASSUME NEW n \in Node, NEW p \in PC, NEW k \in 0..4, Fits(n, p, k),
               pc' = [pc EXCEPT ![n] = p], phase' = [phase EXCEPT ![n] = k]
        PROVE  Goal
    <2>1. ASSUME NEW m \in Node PROVE Fits(m, pc'[m], phase'[m])
      <3>1. CASE m = n
        BY <1>0, <1>1, <3>1
      <3>2. CASE m # n
        BY <1>0, <1>1, <3>2
      <3> QED
        BY <3>1, <3>2
    <2>2. PhaseOfPC'
      BY <2>1 DEF PhaseOfPC, Fits
    <2> QED
      BY <1>0, <1>1, <2>2
  <1>2. ASSUME NEW n \in Node, Signal(n) PROVE Goal
    <2>1. Fits(n, "barrier", phase[n]) /\ "barrier" \in PC /\ phase[n] \in 0..4
      BY <1>0, <1>2 DEF Signal, Fits, PC
    <2>2. phase' = [phase EXCEPT ![n] = phase[n]]
      BY <1>0, <1>2 DEF Signal
    <2> QED
      BY <1>1, <1>2, <2>1, <2>2 DEF Signal, Goto
  <1>3. ASSUME NEW n \in Node, PassBarrier(n) PROVE Goal
    <2>1. phase[n] \in 0..3
      BY <1>0, <1>3 DEF PassBarrier, Fits
    <2>2. /\ Fits(n, AfterBarrier(n, phase[n] + 1), phase[n] + 1)
          /\ AfterBarrier(n, phase[n] + 1) \in PC
      BY <2>1, AfterBarrierFits
    <2>3. phase[n] + 1 \in 0..4
      BY <2>1
    <2> QED
      BY <1>1, <1>3, <2>2, <2>3 DEF PassBarrier, Goto
  <1>4. ASSUME NEW n \in Node, Moves(n) PROVE Goal
    <2>1. PICK p \in PC : /\ Fits(n, p, phase[n]) /\ pc' = [pc EXCEPT ![n] = p]
                          /\ phase' = phase
      BY <1>4, MovePlaces
    <2>2. phase' = [phase EXCEPT ![n] = phase[n]] /\ phase[n] \in 0..4
      BY <1>0, <2>1
    <2> QED
      BY <1>1, <2>1, <2>2
  <1>5. CASE Quiet
    BY <1>0, <1>5 DEF Quiet, app, PhaseOfPC
  <1> QED
    BY <1>2, <1>3, <1>4, <1>5, Steps

----------------------------------------------------------------------------
(* The barriers *)

LEMMA PassKeepsArrived ==
  ASSUME Types, PhaseOfPC, NEW n \in Node, PassBarrier(n)
  PROVE  \A m \in Node : Arrived(m)' = Arrived(m)
  <1>1. phase[n] \in 0..3 /\ pc[n] = "barrier"
    BY DEF PassBarrier, PhaseOfPC, Fits
  <1>2. AfterBarrier(n, phase[n] + 1) # "barrier"
    BY <1>1, AfterBarrierFits
  <1>3. /\ phase' = [phase EXCEPT ![n] = @ + 1]
        /\ pc' = [pc EXCEPT ![n] = AfterBarrier(n, phase[n] + 1)]
        /\ pc \in [Node -> PC] /\ phase \in [Node -> 0..4]
    BY DEF PassBarrier, Goto, Types
  <1> QED
    BY <1>1, <1>2, <1>3 DEF Arrived

LEMMA OthersKeepArrived ==
  ASSUME Types, PhaseOfPC, Quiet \/ \E n \in Node : Moves(n)
  PROVE  phase' = phase /\ counter' = counter /\ \A m \in Node : Arrived(m)' = Arrived(m)
  <1>1. CASE Quiet
    BY <1>1 DEF Quiet, app, sync, Arrived
  <1>2. ASSUME NEW n \in Node, Moves(n)
        PROVE  phase' = phase /\ counter' = counter /\ \A m \in Node : Arrived(m)' = Arrived(m)
    <2>1. PICK p : /\ pc[n] # "barrier" /\ p # "barrier"
                   /\ pc' = [pc EXCEPT ![n] = p] /\ phase' = phase /\ counter' = counter
      BY <1>2, MovePlaces
    <2> QED
      BY <2>1 DEF Arrived, Types
  <1> QED
    BY <1>1, <1>2

LEMMA FullBarrier ==
  ASSUME Types, CountersExact, NEW b \in 1..4, counter[b] >= N
  PROVE  \A m \in Node : Arrived(m) >= b
  <1>1. AtBarrier(b) \subseteq Node /\ counter[b] = Cardinality(AtBarrier(b))
    BY DEF AtBarrier, CountersExact
  <1>2. /\ Cardinality(AtBarrier(b)) <= N /\ Cardinality(AtBarrier(b)) \in Nat
        /\ N = Cardinality(AtBarrier(b)) => Node = AtBarrier(b)
    BY <1>1, GroupsAssumption, FS_Subset, FS_CardinalityType DEF N
  <1>3. AtBarrier(b) = Node
    BY <1>1, <1>2, Counts
  <1> QED
    BY <1>3 DEF AtBarrier

LEMMA CountersStep ==
  ASSUME Types, PhaseOfPC, CountersExact, [Next]_vars
  PROVE  CountersExact' /\ counter' \in [1..4 -> Nat]
  <1>0. /\ pc \in [Node -> PC] /\ phase \in [Node -> 0..4]
        /\ counter \in [1..4 -> Nat]
    BY DEF Types
  <1>1. ASSUME NEW n \in Node, Signal(n) PROVE CountersExact' /\ counter' \in [1..4 -> Nat]
    <2>0. phase[n] \in 0..3 /\ pc[n] = "signal"
      BY <1>1 DEF Signal, PhaseOfPC, Fits
    <2>1. PICK k \in 1..4 : k = phase[n] + 1
      BY <2>0
    <2>2. /\ pc' = [pc EXCEPT ![n] = "barrier"] /\ phase' = phase
          /\ counter' = [counter EXCEPT ![k] = @ + 1]
      BY <1>1, <2>1 DEF Signal, Goto
    <2>3. ASSUME NEW b \in 1..4, b # k PROVE AtBarrier(b)' = AtBarrier(b)
      BY <1>0, <2>0, <2>1, <2>2, <2>3 DEF AtBarrier, Arrived
    <2>4. AtBarrier(k)' = AtBarrier(k) \cup {n} /\ n \notin AtBarrier(k)
      BY <1>0, <2>0, <2>1, <2>2 DEF AtBarrier, Arrived
    <2>5. AtBarrier(k) \subseteq Node
      BY DEF AtBarrier
    <2>6. IsFiniteSet(AtBarrier(k))
      BY <2>5, GroupsAssumption, FS_Subset
    <2>7. Cardinality(AtBarrier(k)') = Cardinality(AtBarrier(k)) + 1
      BY <2>4, <2>6, FS_AddElement
    <2>8. ASSUME NEW b \in 1..4 PROVE counter'[b] = Cardinality(AtBarrier(b)')
      <3>1. CASE b = k
        <4>1. counter'[k] = counter[k] + 1 /\ counter[k] = Cardinality(AtBarrier(k))
          BY <1>0, <2>2 DEF CountersExact
        <4> QED
          BY <2>7, <3>1, <4>1
      <3>2. CASE b # k
        BY <1>0, <2>2, <2>3, <3>2 DEF CountersExact
      <3> QED
        BY <3>1, <3>2
    <2> QED
      BY <1>0, <2>2, <2>8 DEF CountersExact
  <1>2. ASSUME \A m \in Node : Arrived(m)' = Arrived(m), counter' = counter
        PROVE  CountersExact' /\ counter' \in [1..4 -> Nat]
    BY <1>0, <1>2 DEF CountersExact, AtBarrier
  <1>3. ASSUME NEW n \in Node, PassBarrier(n) PROVE CountersExact' /\ counter' \in [1..4 -> Nat]
    BY <1>2, <1>3, PassKeepsArrived DEF PassBarrier, sync
  <1> QED
    BY <1>1, <1>2, <1>3, OthersKeepArrived, Steps

LEMMA LockstepStep ==
  ASSUME Types, PhaseOfPC, CountersExact, LockstepInv, [Next]_vars
  PROVE  LockstepInv'
  <1>0. pc \in [Node -> PC] /\ phase \in [Node -> 0..4]
    BY DEF Types
  <1>1. ASSUME NEW n \in Node, Signal(n) PROVE LockstepInv'
    BY <1>0, <1>1 DEF Signal, Goto, LockstepInv, Arrived
  <1>2. ASSUME NEW n \in Node, PassBarrier(n) PROVE LockstepInv'
    <2>1. \A m \in Node : Arrived(m)' = Arrived(m)
      BY <1>2, PassKeepsArrived
    <2>2. phase[n] \in 0..3 /\ counter[phase[n] + 1] >= N
      BY <1>2 DEF PassBarrier, PhaseOfPC, Fits
    <2>3. \A m \in Node : Arrived(m) >= phase[n] + 1
      BY <2>2, FullBarrier
    <2>4. \A m \in Node : phase'[m] = IF m = n THEN phase[n] + 1 ELSE phase[m]
      BY <1>0, <1>2 DEF PassBarrier
    <2> QED
      BY <1>0, <2>1, <2>3, <2>4, ArrivedType DEF LockstepInv
  <1>3. CASE Quiet \/ \E n \in Node : Moves(n)
    BY <1>3, OthersKeepArrived DEF LockstepInv
  <1> QED
    BY <1>1, <1>2, <1>3, Steps

----------------------------------------------------------------------------
(* The types *)

LEMMA PacketFields ==
  ASSUME NEW p \in Packet
  PROVE  /\ p.from \in Beacon /\ p.to \in Beacon
         /\ p.type = "message" => p.source \in Beacon
  BY DEF Packet

LEMMA PacketsMade ==
  ASSUME NEW a \in Beacon, NEW b \in Beacon, NEW s \in Beacon, NEW S, S \subseteq Beacon
  PROVE  Subscription(a, b) \in Packet /\ Messages(a, S, s) \subseteq Packet
  BY DEF Packet, Subscription, Messages

LEMMA GossipsubStep ==
  ASSUME Types, [Next]_vars
  PROVE  GossipsubTypeOK'
  <1> USE DEF GossipsubTypeOK
  <1>0. GossipsubTypeOK
    BY DEF Types
  <1>1. CASE UNCHANGED gossipsub
    BY <1>0, <1>1 DEF gossipsub
  <1>2. ASSUME NEW d \in dialled, Connect(d) PROVE GossipsubTypeOK'
    <2>1. d[1] \in Beacon /\ d[2] \in Beacon /\ d \in Beacon \X Beacon
      BY <1>2 DEF Connect
    <2>2. Subscription(d[1], d[2]) \in Packet /\ Subscription(d[2], d[1]) \in Packet
      BY <2>1, PacketsMade
    <2> QED
      BY <1>0, <1>2, <2>1, <2>2 DEF Connect, Establish
  <1>3. ASSUME NEW n \in Beacon, Receive(n) PROVE GossipsubTypeOK'
    <2>1. PICK p \in inflight : HandleEvent(p)
      BY <1>3 DEF Receive
    <2>2. p.from \in Beacon /\ p.to \in Beacon /\ (p.type = "message" => p.source \in Beacon)
      BY <1>0, PacketFields
    <2> QED
      BY <1>0, <2>1, <2>2 DEF HandleEvent, LearnSubscription, DropSeen, Hold
  <1>4. ASSUME NEW n \in Beacon, Publish(n) PROVE GossipsubTypeOK'
    <2>1. Messages(n, topicPeers[n], n) \subseteq Packet
      BY <1>0, PacketsMade
    <2> QED
      BY <1>0, <1>4, <2>1 DEF Publish, Flood
  <1>5. ASSUME NEW n \in Beacon, NEW m \in Beacon, Heartbeat(n, m) PROVE GossipsubTypeOK'
    <2>1. PICK s \in Beacon : Gossip(n, m, s)
      BY <1>5 DEF Heartbeat
    <2>2. Messages(n, {m}, s) \subseteq Packet
      BY PacketsMade
    <2> QED
      BY <1>0, <2>1, <2>2 DEF Gossip
  <1>6. ASSUME NEW n \in Node, Signal(n) \/ PassBarrier(n) \/ Moves(n)
        PROVE  UNCHANGED gossipsub
    <2> USE DEF gossipsub
    <2>1. CASE Signal(n) \/ PassBarrier(n) \/ Listen(n) \/ Dial(n) \/ PublishBeaconInfo(n)
      BY <2>1 DEF Signal, PassBarrier, Listen, Dial, PublishBeaconInfo
    <2>2. CASE CollectBeaconNodes(n) \/ CollectAttackers(n) \/ Subscribe(n) \/ Record(n)
      BY <2>2 DEF CollectBeaconNodes, CollectAttackers, Subscribe, Record
    <2>3. CASE CollectBeaconNodeInfo(n) \/ PublishAttackerInfo(n) \/ Deadline(n)
      BY <2>3 DEF CollectBeaconNodeInfo, PublishAttackerInfo, Deadline
    <2> QED
      BY <1>6, <2>1, <2>2, <2>3 DEF Moves
  <1>7. ASSUME NEW n \in Node, Setup(n) PROVE Signal(n) \/ PassBarrier(n) \/ Moves(n)
    BY <1>7 DEF Setup, Moves
  <1>8. ASSUME NEW n \in Beacon, Deadline(n) PROVE n \in Node /\ Moves(n)
    BY <1>8 DEF Moves, Node
  <1> QED
    BY <1>1, <1>2, <1>3, <1>4, <1>5, <1>6, <1>7, <1>8 DEF Next, vars

----------------------------------------------------------------------------
(* The choice of a target *)

LEMMA LeastExists ==
  ASSUME NEW T, T \subseteq Nat, T # {}
  PROVE  \E x \in T : \A y \in T : x <= y
  <1>1. PICK x \in T : \A y \in T : <<y, x>> \notin OpToRel(<, Nat)
    BY NatLessThanWellFounded, WFMin
  <1>2. ASSUME NEW y \in T PROVE x <= y
    <2>1. ~(y < x)
      BY <1>1 DEF OpToRel
    <2> QED
      BY <2>1
  <1> QED
    BY <1>2

\* A log has an entry that no other exceeds: one with the fewest above it.
LEMMA MostExists ==
  ASSUME NEW log \in Seq(Beacon), Len(log) >= 1
  PROVE  \E i \in 1..Len(log) : \A j \in 1..Len(log) : Validators[log[j]] <= Validators[log[i]]
  <1> DEFINE I == 1..Len(log)
             v(i) == Validators[log[i]]
             above(i) == {j \in I : v(j) > v(i)}
             T == {Cardinality(above(i)) : i \in I}
  <1>1. \A i \in I : v(i) \in Nat
    BY ValidatorsAssumption
  <1>2. IsFiniteSet(I) /\ 1 \in I
    BY FS_Interval
  <1> HIDE DEF I, v
  <1>3. ASSUME NEW i \in I PROVE IsFiniteSet(above(i)) /\ Cardinality(above(i)) \in Nat
    <2>1. above(i) \subseteq I
      OBVIOUS
    <2> QED
      BY <1>2, <2>1, FS_Subset, FS_CardinalityType
  <1>4. T \subseteq Nat /\ T # {}
    BY <1>2, <1>3
  <1>5. ASSUME NEW i \in I, NEW j \in I, v(j) > v(i)
        PROVE  Cardinality(above(j)) < Cardinality(above(i))
    <2>1. above(j) \subseteq above(i) /\ j \in above(i) /\ j \notin above(j)
      BY <1>1, <1>5
    <2> HIDE DEF above
    <2> QED
      BY <1>3, <2>1, FS_Subset
  <1>6. PICK i \in I : \A j \in I : Cardinality(above(i)) <= Cardinality(above(j))
    <2> HIDE DEF above
    <2>1. PICK c \in T : \A d \in T : c <= d
      <3> HIDE DEF T
      <3> QED
        BY <1>4, LeastExists
    <2> QED
      BY <2>1
  <1>7. ASSUME NEW j \in I PROVE v(j) <= v(i)
    <2>1. CASE v(j) > v(i)
      <3> HIDE DEF above
      <3> QED
        BY <1>3, <1>5, <1>6, <2>1
    <2> QED
      BY <1>1, <2>1
  <1> QED
    BY <1>7 DEF I, v

\* The fold of an attacker finds a beacon node that none in the log exceeds.
LEMMA FirstWithMostChoice ==
  ASSUME NEW log \in Seq(Beacon), Len(log) >= 1
  PROVE  /\ FirstWithMost(log) \in Beacon
         /\ \A j \in 1..Len(log) : Validators[log[j]] <= Validators[FirstWithMost(log)]
  <1> DEFINE best == {i \in DOMAIN log : \A j \in DOMAIN log :
                                            Validators[log[j]] <= Validators[log[i]]}
             index == CHOOSE i \in best : \A j \in best : i <= j
             first == log[index]
  <1>1. DOMAIN log = 1..Len(log) /\ \A i \in 1..Len(log) : log[i] \in Beacon
    OBVIOUS
  <1>2. best # {} /\ best \subseteq Nat
    <2>1. PICK i \in 1..Len(log) :
            \A j \in 1..Len(log) : Validators[log[j]] <= Validators[log[i]]
      BY MostExists
    <2>2. i \in best
      BY <1>1, <2>1
    <2>3. best \subseteq 1..Len(log)
      BY <1>1
    <2> HIDE DEF best
    <2> QED
      BY <2>2, <2>3
  <1>3. \E i \in best : \A j \in best : i <= j
    <2> HIDE DEF best
    <2> QED
      BY <1>2, LeastExists
  <1>4. index \in best
    <2> HIDE DEF best
    <2> QED
      BY <1>3
  <1>5. /\ first \in Beacon
        /\ \A j \in 1..Len(log) : Validators[log[j]] <= Validators[first]
    BY <1>1, <1>4
  <1>6. FirstWithMost(log) = IF Validators[first] > 0 THEN first ELSE FirstNode
    BY DEF FirstWithMost
  <1> HIDE DEF first
  <1>7. CASE Validators[first] > 0
    BY <1>5, <1>6, <1>7
  <1>8. CASE ~(Validators[first] > 0)
    <2>1. Validators[first] = 0 /\ FirstNode \in Beacon /\ Validators[FirstNode] \in Nat
      BY <1>5, <1>8, ValidatorsAssumption, GroupsAssumption
    <2>2. \A j \in 1..Len(log) : Validators[log[j]] = 0
      BY <1>1, <1>5, <2>1, ValidatorsAssumption
    <2> QED
      BY <1>6, <1>8, <2>1, <2>2
  <1> QED
    BY <1>7, <1>8

----------------------------------------------------------------------------
(* What an instance has behind it *)

\* The parts of the state that some steps of run() alone change.
LEMMA Frames ==
  ASSUME Types, [Next]_vars
  PROVE  /\ beaconInfos' = beaconInfos \/ \E n \in Node : PublishBeaconInfo(n)
         /\ target' = target \/ \E n \in Node : CollectBeaconNodeInfo(n)
         /\ attackerInfos' = attackerInfos \/ \E n \in Attacker : attackerInfos' = attackerInfos \cup {n}
         /\ listening' = listening \/ \E n \in Node : Listen(n)
         /\ (dialled' = dialled /\ refused' = refused) \/ \E n \in Node : Dial(n)
  <1>1. CASE Quiet
    BY <1>1 DEF Quiet, app, sync, conns
  <1>2. ASSUME NEW n \in Node, Signal(n) \/ PassBarrier(n)
        PROVE  UNCHANGED <<beaconInfos, target, attackerInfos, conns>>
    BY <1>2 DEF Signal, PassBarrier, sync
  <1>3. ASSUME NEW n \in Node,
               CollectBeaconNodes(n) \/ CollectAttackers(n) \/ Subscribe(n) \/ Record(n) \/ Deadline(n)
        PROVE  UNCHANGED <<beaconInfos, target, attackerInfos, conns>>
    BY <1>3 DEF CollectBeaconNodes, CollectAttackers, Subscribe, Record, Deadline, sync
  <1>4. ASSUME NEW n \in Node, Listen(n)
        PROVE  UNCHANGED <<beaconInfos, target, attackerInfos, dialled, refused>>
    BY <1>4 DEF Listen, sync
  <1>5. ASSUME NEW n \in Node, Dial(n)
        PROVE  UNCHANGED <<beaconInfos, target, attackerInfos, listening>>
    BY <1>5 DEF Dial, sync
  <1>6. ASSUME NEW n \in Node, PublishBeaconInfo(n)
        PROVE  UNCHANGED <<target, attackerInfos, conns>>
    BY <1>6 DEF PublishBeaconInfo
  <1>7. ASSUME NEW n \in Node, CollectBeaconNodeInfo(n)
        PROVE  UNCHANGED <<beaconInfos, attackerInfos, conns>>
    BY <1>7 DEF CollectBeaconNodeInfo, sync
  <1>8. ASSUME NEW n \in Node, PublishAttackerInfo(n)
        PROVE  /\ UNCHANGED <<beaconInfos, target, conns>>
               /\ n \in Attacker /\ attackerInfos' = attackerInfos \cup {n}
    BY <1>8 DEF PublishAttackerInfo
  <1> QED
    BY <1>1, <1>2, <1>3, <1>4, <1>5, <1>6, <1>7, <1>8, Steps DEF Moves, conns

\* What one step adds to what m has behind it.
Progress(m) ==
    /\ Bound(m)' => Bound(m) \/ Listen(m)
    /\ HasDialled(m) => HasDialled(m)'
    /\ HasDialled(m)' => HasDialled(m) \/ Dial(m)
    /\ m \in Beacon /\ Published(m) => Published(m)'
    /\ m \in Beacon /\ Published(m)' => Published(m) \/ PublishBeaconInfo(m)
    /\ m \in Attacker /\ Chosen(m) => Chosen(m)'
    /\ m \in Attacker /\ Chosen(m)' => Chosen(m) \/ CollectBeaconNodeInfo(m)

LEMMA ProgressStep ==
  ASSUME Types, PhaseOfPC, [Next]_vars, NEW m \in Node
  PROVE  Progress(m)
  <1> DEFINE Stays == pc'[m] = pc[m] /\ phase'[m] = phase[m]
  <1>0. /\ pc \in [Node -> PC] /\ phase \in [Node -> 0..4]
        /\ Fits(m, pc[m], phase[m]) /\ phase[m] \in 0..4
    BY DEF Types, PhaseOfPC
  <1>1. CASE Stays
    BY <1>1 DEF Progress, Bound, HasDialled, Published, Chosen
  <1>2. ASSUME NEW n \in Node, n # m, Signal(n) \/ PassBarrier(n) \/ Moves(n) PROVE Stays
    <2>1. CASE Signal(n) \/ PassBarrier(n)
      BY <1>0, <1>2, <2>1 DEF Signal, PassBarrier, Goto
    <2>2. CASE Moves(n)
      BY <1>0, <1>2, <2>2, MovePlaces
    <2> QED
      BY <1>2, <2>1, <2>2
  <1>3. CASE Quiet
    BY <1>1, <1>3 DEF Quiet, app
  <1>4. CASE Signal(m)
    <2>1. pc[m] = "signal" /\ pc'[m] = "barrier" /\ phase'[m] = phase[m]
      BY <1>0, <1>4 DEF Signal, Goto
    <2> QED
      BY <1>0, <2>1 DEF Progress, Bound, HasDialled, Published, Chosen
  <1>5. CASE PassBarrier(m)
    <2>1. /\ pc[m] = "barrier" /\ pc'[m] = AfterBarrier(m, phase[m] + 1)
          /\ phase'[m] = phase[m] + 1 /\ phase[m] \in 0..3
      BY <1>0, <1>5 DEF PassBarrier, Goto, Fits
    <2>2. /\ phase'[m] = 1 /\ m \in Beacon => pc'[m] = "publish_info"
          /\ phase'[m] = 1 /\ m \in Attacker => pc'[m] = "listen"
          /\ phase'[m] = 2 => pc'[m] = "dial"
          /\ m \in Beacon => m \notin Attacker
          /\ m \in Beacon \cup Attacker
      BY <2>1, AfterBarrierFits, GroupsAssumption DEF Node
    <2> QED
      BY <2>1, <2>2 DEF Progress, Bound, HasDialled, Published, Chosen
  <1>6. CASE Listen(m)
    <2>1. /\ pc[m] = "listen" /\ phase[m] = 1 /\ phase'[m] = 1
          /\ pc'[m] = IF m \in Beacon THEN "signal" ELSE "collect_beacon_nodes"
          /\ m \in Beacon => m \notin Attacker
      BY <1>0, <1>6, GroupsAssumption DEF Listen, Goto, Fits
    <2> QED
      BY <1>6, <2>1 DEF Progress, Bound, HasDialled, Published, Chosen
  <1>7. CASE Dial(m)
    <2>1. pc[m] = "dial" /\ phase[m] = 2 /\ phase'[m] = 2 /\ pc'[m] = "signal"
      BY <1>0, <1>7 DEF Dial, Goto, Fits
    <2> QED
      BY <1>7, <2>1 DEF Progress, Bound, HasDialled, Published, Chosen
  <1>8. CASE PublishBeaconInfo(m)
    <2>1. /\ pc[m] = "publish_info" /\ phase[m] = 1 /\ phase'[m] = 1
          /\ pc'[m] = "collect_beacon_nodes" /\ m \notin Attacker
      BY <1>0, <1>8, GroupsAssumption DEF PublishBeaconInfo, Goto, Fits
    <2> QED
      BY <1>8, <2>1 DEF Progress, Bound, HasDialled, Published, Chosen
  <1>9. CASE CollectBeaconNodes(m) \/ CollectAttackers(m)
    <2>1. /\ pc[m] \in {"collect_beacon_nodes", "collect_attackers"} /\ phase[m] = 1
          /\ phase'[m] = 1 /\ pc'[m] \in {"collect_attackers", "listen"} /\ m \notin Attacker
      BY <1>0, <1>9, GroupsAssumption DEF CollectBeaconNodes, CollectAttackers, Goto, Fits
    <2> QED
      BY <2>1 DEF Progress, Bound, HasDialled, Published, Chosen
  <1>10. CASE Subscribe(m) \/ Record(m) \/ Deadline(m)
    <2>1. phase[m] = 3 /\ phase'[m] = 3
      BY <1>0, <1>10 DEF Subscribe, Record, Deadline, Running, Fits
    <2> QED
      BY <2>1 DEF Progress, Bound, HasDialled, Published, Chosen
  <1>11. CASE CollectBeaconNodeInfo(m)
    <2>1. /\ pc[m] = "collect_beacon_nodes" /\ phase[m] = 1 /\ phase'[m] = 1
          /\ pc'[m] = "publish_info" /\ m \notin Beacon /\ m \in Attacker
      BY <1>0, <1>11, GroupsAssumption DEF CollectBeaconNodeInfo, Goto, Fits
    <2> QED
      BY <1>11, <2>1 DEF Progress, Bound, HasDialled, Published, Chosen
  <1>12. CASE PublishAttackerInfo(m)
    <2>1. /\ pc[m] = "publish_info" /\ phase[m] = 1 /\ phase'[m] = 1
          /\ pc'[m] = "signal" /\ m \notin Beacon /\ m \in Attacker
      BY <1>0, <1>12, GroupsAssumption DEF PublishAttackerInfo, Goto, Fits
    <2> QED
      BY <2>1 DEF Progress, Bound, HasDialled, Published, Chosen
  <1>13. CASE Moves(m)
    BY <1>6, <1>7, <1>8, <1>9, <1>10, <1>11, <1>12, <1>13 DEF Moves
  <1>14. CASE \E n \in Node \ {m} : Signal(n) \/ PassBarrier(n) \/ Moves(n)
    BY <1>1, <1>2, <1>14
  <1> QED
    BY <1>3, <1>4, <1>5, <1>13, <1>14, Steps

----------------------------------------------------------------------------
(* The log, the targets and the dials *)

LEMMA AppendFacts ==
  ASSUME NEW q \in Seq(Beacon), NEW x \in Beacon
  PROVE  /\ Append(q, x) \in Seq(Beacon) /\ Append(q, x) # q
         /\ Len(Append(q, x)) = Len(q) + 1 /\ Append(q, x)[Len(q) + 1] = x
         /\ \A i \in 1..Len(q) : Append(q, x)[i] = q[i]
         /\ Len(q) \in Nat
  <1>1. /\ Append(q, x) \in Seq(Beacon)
        /\ Len(Append(q, x)) = Len(q) + 1 /\ Append(q, x)[Len(q) + 1] = x
        /\ \A i \in 1..Len(q) : Append(q, x)[i] = q[i]
        /\ Len(q) \in Nat
    OBVIOUS
  <1>2. Len(Append(q, x)) # Len(q)
    BY <1>1
  <1> QED
    BY <1>1, <1>2

LEMMA AllPublishedFinite ==
  /\ IsFiniteSet(AllPublished) /\ Cardinality(AllPublished) \in Nat
  /\ Cardinality(AllPublished) <= Cardinality(Beacon)
  /\ Cardinality(AllPublished) = Cardinality(Beacon) => AllPublished = Beacon
  <1>1. AllPublished \subseteq Beacon
    BY DEF AllPublished
  <1> QED
    BY <1>1, BeaconFinite, FS_Subset, FS_CardinalityType

\* A log that has as many entries as there are beacon nodes has all of them.
LEMMA FullLog ==
  ASSUME LogInv, Len(beaconInfos) >= Cardinality(Beacon)
  PROVE  \A n \in Beacon : Published(n) /\ \E i \in 1..Len(beaconInfos) : beaconInfos[i] = n
  <1>1. Cardinality(AllPublished) = Cardinality(Beacon)
    BY AllPublishedFinite, BeaconFinite DEF LogInv
  <1>2. AllPublished = Beacon
    BY <1>1, AllPublishedFinite
  <1> QED
    BY <1>2 DEF LogInv, AllPublished

LEMMA Publishing ==
  ASSUME Types, PhaseOfPC, NEW n \in Node, PublishBeaconInfo(n)
  PROVE  /\ n \in Beacon /\ ~Published(n) /\ Published(n)'
         /\ beaconInfos' = Append(beaconInfos, n)
         /\ \A m \in Beacon \ {n} : Published(m)' <=> Published(m)
  <1>1. /\ n \in Beacon /\ pc[n] = "publish_info" /\ phase[n] = 1
        /\ pc' = [pc EXCEPT ![n] = "collect_beacon_nodes"] /\ phase' = phase
        /\ pc \in [Node -> PC] /\ Beacon \subseteq Node
        /\ beaconInfos' = Append(beaconInfos, n)
    BY DEF PublishBeaconInfo, Goto, PhaseOfPC, Fits, Types, Node
  <1> QED
    BY <1>1 DEF Published

LEMMA LogStep ==
  ASSUME Types, PhaseOfPC, LogInv, [Next]_vars
  PROVE  LogInv' /\ beaconInfos' \in Seq(Beacon)
  <1>0. beaconInfos \in Seq(Beacon)
    BY DEF Types
  <1>1. CASE beaconInfos' = beaconInfos
    <2>1. ASSUME NEW m \in Beacon PROVE Published(m)' <=> Published(m)
      <3>1. m \in Node
        BY DEF Node
      <3>2. ~PublishBeaconInfo(m)
        BY <1>0, <1>1, <3>1, Publishing, AppendFacts
      <3> QED
        BY <3>1, <3>2, ProgressStep DEF Progress
    <2>2. AllPublished' = AllPublished
      BY <2>1 DEF AllPublished
    <2> QED
      BY <1>0, <1>1, <2>1, <2>2 DEF LogInv
  <1>2. ASSUME NEW n \in Node, PublishBeaconInfo(n)
        PROVE  LogInv' /\ beaconInfos' \in Seq(Beacon)
    <2> DEFINE q == beaconInfos
               L == Len(beaconInfos)
    <2>1. /\ n \in Beacon /\ ~Published(n) /\ Published(n)' /\ q' = Append(q, n)
          /\ \A m \in Beacon \ {n} : Published(m)' <=> Published(m)
      BY <1>2, Publishing
    <2>2. /\ q' \in Seq(Beacon) /\ Len(q') = L + 1 /\ q'[L + 1] = n /\ L \in Nat
          /\ \A i \in 1..L : q'[i] = q[i]
      BY <1>0, <2>1, AppendFacts
    <2>3. \A i \in 1..L : q[i] # n
      BY <2>1 DEF LogInv
    <2>4. \A i \in 1 .. L + 1 : i \in 1..L \/ i = L + 1
      BY <2>2
    <2>5. ASSUME NEW i \in 1..Len(q'), NEW j \in 1..Len(q'), q'[i] = q'[j] PROVE i = j
      <3>1. CASE i = L + 1
        BY <2>2, <2>3, <2>4, <2>5, <3>1
      <3>2. CASE j = L + 1
        BY <2>2, <2>3, <2>4, <2>5, <3>2
      <3>3. CASE i # L + 1 /\ j # L + 1
        <4>1. i \in 1..L /\ j \in 1..L
          BY <2>2, <2>4, <3>3
        <4> QED
          BY <2>2, <2>5, <4>1 DEF LogInv
      <3> QED
        BY <3>1, <3>2, <3>3
    <2>6. ASSUME NEW m \in Beacon
          PROVE  Published(m)' <=> \E i \in 1..Len(q') : q'[i] = m
      <3>1. CASE m = n
        <4>1. L + 1 \in 1..Len(q')
          BY <2>2
        <4> QED
          BY <2>1, <2>2, <3>1, <4>1
      <3>2. CASE m # n
        <4>1. Published(m)' <=> \E i \in 1..L : q[i] = m
          BY <2>1, <3>2 DEF LogInv
        <4>2. \A i \in 1..L : i \in 1..Len(q')
          BY <2>2
        <4> QED
          BY <2>2, <2>4, <3>2, <4>1, <4>2
      <3> QED
        BY <3>1, <3>2
    <2>7. AllPublished' = AllPublished \cup {n} /\ n \notin AllPublished
      BY <2>1 DEF AllPublished
    <2>8. Len(q') = Cardinality(AllPublished')
      <3>1. IsFiniteSet(AllPublished)
        BY AllPublishedFinite
      <3>2. Cardinality(AllPublished') = Cardinality(AllPublished) + 1
        BY <2>7, <3>1, FS_AddElement
      <3>3. L = Cardinality(AllPublished)
        BY DEF LogInv
      <3> QED
        BY <2>2, <3>2, <3>3
    <2> QED
      BY <2>2, <2>5, <2>6, <2>8 DEF LogInv
  <1> QED
    BY <1>1, <1>2, Frames

\* Once an attacker has chosen, the log and its target stay as they are.
LEMMA TargetKept ==
  ASSUME Types, PhaseOfPC, [Next]_vars, NEW n \in Attacker, Chosen(n)
  PROVE  target'[n] = target[n]
  <1>1. CASE target' = target
    BY <1>1
  <1>2. ASSUME NEW k \in Node, CollectBeaconNodeInfo(k) PROVE target'[n] = target[n]
    <2>1. /\ pc[k] = "collect_beacon_nodes" /\ phase[k] = 1 /\ k \in Attacker
          /\ target' = [target EXCEPT ![k] = FirstWithMost(beaconInfos)]
      BY <1>2 DEF CollectBeaconNodeInfo, PhaseOfPC, Fits
    <2>2. n # k
      BY <2>1 DEF Chosen
    <2> QED
      BY <2>1, <2>2 DEF Types
  <1> QED
    BY <1>1, <1>2, Frames

LEMMA TargetStep ==
  ASSUME Types, PhaseOfPC, LogInv, TargetInv, [Next]_vars
  PROVE  TargetInv'
  <1> SUFFICES ASSUME NEW n \in Attacker, Chosen(n)'
               PROVE  /\ Len(beaconInfos') >= Cardinality(Beacon)
                      /\ target'[n] = FirstWithMost(beaconInfos')
    BY DEF TargetInv
  <1>1. CASE Chosen(n)
    <2>1. Len(beaconInfos) >= Cardinality(Beacon) /\ target[n] = FirstWithMost(beaconInfos)
      BY <1>1 DEF TargetInv
    <2>2. ASSUME NEW k \in Node, PublishBeaconInfo(k) PROVE FALSE
      BY <2>1, <2>2, FullLog, Publishing
    <2>3. beaconInfos' = beaconInfos
      BY <2>2, Frames
    <2> QED
      BY <1>1, <2>1, <2>3, TargetKept
  <1>2. CASE CollectBeaconNodeInfo(n)
    <2>1. /\ target' = [target EXCEPT ![n] = FirstWithMost(beaconInfos)]
          /\ beaconInfos' = beaconInfos /\ Len(beaconInfos) >= Cardinality(Beacon)
      BY <1>2 DEF CollectBeaconNodeInfo, sync
    <2> QED
      BY <2>1 DEF Types
  <1> QED
    BY <1>1, <1>2, ProgressStep DEF Progress, Node

LEMMA TargetsKept ==
  ASSUME Types, PhaseOfPC, [Next]_vars, NEW n \in Node, phase[n] >= 2
  PROVE  Targets(n)' = Targets(n)
  <1>1. CASE n \in Beacon
    BY <1>1 DEF Targets
  <1>2. CASE n \notin Beacon
    <2>1. n \in Attacker /\ Chosen(n)
      BY <1>2 DEF Node, Chosen
    <2> QED
      BY <1>2, <2>1, TargetKept DEF Targets
  <1> QED
    BY <1>1, <1>2

LEMMA TargetsType == ASSUME Types, NEW n \in Node PROVE Targets(n) \subseteq Beacon
  BY OutboundAssumption DEF Types, Targets, Node

LEMMA Dialling ==
  ASSUME Types, PhaseOfPC, NEW n \in Node, Dial(n)
  PROVE  /\ phase[n] = 2 /\ HasDialled(n)'
         /\ dialled' = dialled \cup ({n} \X Targets(n))
         /\ refused' = refused \cup ({n} \X (Targets(n) \ listening))
  <1>1. pc[n] = "dial" /\ phase[n] = 2
    BY DEF Dial, PhaseOfPC, Fits
  <1>2. pc' = [pc EXCEPT ![n] = "signal"] /\ phase' = phase /\ pc \in [Node -> PC]
    BY DEF Dial, Goto, Types
  <1>3. HasDialled(n)'
    BY <1>1, <1>2 DEF HasDialled
  <1> QED
    BY <1>1, <1>3 DEF Dial

LEMMA DialledStep ==
  ASSUME Types, PhaseOfPC, DialledInv, [Next]_vars
  PROVE  DialledInv'
  <1>0. /\ dialled \subseteq Node \X Beacon /\ phase \in [Node -> 0..4]
        /\ \A n \in Node : HasDialled(n) => phase[n] >= 2
    BY DEF Types, HasDialled
  <1>1. dialled \subseteq dialled'
    BY Frames, Dialling
  <1>2. ASSUME NEW n \in Node, HasDialled(n)' PROVE {n} \X Targets(n)' \subseteq dialled'
    <2>1. CASE HasDialled(n)
      <3>1. Targets(n)' = Targets(n) /\ {n} \X Targets(n) \subseteq dialled
        BY <1>0, <2>1, TargetsKept DEF DialledInv
      <3> QED
        BY <1>1, <3>1
    <2>2. CASE Dial(n)
      <3>1. phase[n] >= 2 /\ dialled' = dialled \cup ({n} \X Targets(n))
        BY <2>2, Dialling
      <3>2. Targets(n)' = Targets(n)
        BY <3>1, TargetsKept
      <3> QED
        BY <3>1, <3>2
    <2> QED
      BY <1>2, <2>1, <2>2, ProgressStep DEF Progress
  <1>3. ASSUME NEW d \in dialled' PROVE HasDialled(d[1])' /\ d[2] \in Targets(d[1])'
    <2>1. CASE d \in dialled
      <3>1. d[1] \in Node /\ HasDialled(d[1]) /\ d[2] \in Targets(d[1])
        BY <1>0, <2>1 DEF DialledInv
      <3>2. Targets(d[1])' = Targets(d[1])
        BY <1>0, <3>1, TargetsKept
      <3>3. HasDialled(d[1])'
        BY <3>1, ProgressStep DEF Progress
      <3> QED
        BY <3>1, <3>2, <3>3
    <2>2. CASE d \notin dialled
      <3>1. PICK n \in Node : Dial(n)
        BY <2>2, Frames
      <3>2. /\ phase[n] >= 2 /\ HasDialled(n)' /\ dialled' = dialled \cup ({n} \X Targets(n))
        BY <3>1, Dialling
      <3>3. d[1] = n /\ d[2] \in Targets(n)
        BY <2>2, <3>2
      <3>4. Targets(n)' = Targets(n)
        BY <3>2, TargetsKept
      <3> QED
        BY <3>2, <3>3, <3>4
    <2> QED
      BY <2>1, <2>2
  <1> QED
    BY <1>2, <1>3 DEF DialledInv

LEMMA ListeningStep ==
  ASSUME Types, PhaseOfPC, ListeningInv, [Next]_vars
  PROVE  ListeningInv'
  <1> SUFFICES ASSUME NEW n \in Node, Bound(n)' PROVE n \in listening'
    BY DEF ListeningInv
  <1>1. listening \subseteq listening'
    BY Frames DEF Listen
  <1>2. CASE Bound(n)
    BY <1>1, <1>2 DEF ListeningInv
  <1>3. CASE Listen(n)
    BY <1>3 DEF Listen
  <1> QED
    BY <1>2, <1>3, ProgressStep DEF Progress

\* An instance that dials is through the second barrier, to which the others have
\* come with their sockets bound.
LEMMA AcceptedStep ==
  ASSUME Types, PhaseOfPC, LockstepInv, ListeningInv, AllAccepted, [Next]_vars
  PROVE  AllAccepted'
  <1>1. ASSUME NEW n \in Node, Dial(n) PROVE refused' = {}
    <2>1. phase[n] = 2 /\ refused' = refused \cup ({n} \X (Targets(n) \ listening))
      BY <1>1, Dialling
    <2>2. ASSUME NEW m \in Node PROVE m \in listening
      <3>1. 2 <= Arrived(m) /\ phase[m] \in 0..4
        BY <2>1 DEF LockstepInv, Types
      <3>2. Bound(m)
        BY <3>1 DEF Arrived, Bound
      <3> QED
        BY <3>2 DEF ListeningInv
    <2>3. Targets(n) \subseteq Node
      BY TargetsType DEF Node
    <2> QED
      BY <2>1, <2>2, <2>3 DEF AllAccepted
  <1> QED
    BY <1>1, Frames DEF AllAccepted

LEMMA TypesStep ==
  ASSUME Types, PhaseOfPC, CountersExact, LogInv, [Next]_vars
  PROVE  Types'
  <1>1. /\ GossipsubTypeOK' /\ pc' \in [Node -> PC] /\ phase' \in [Node -> 0..4]
        /\ counter' \in [1..4 -> Nat] /\ beaconInfos' \in Seq(Beacon)
    BY GossipsubStep, PhaseStep, CountersStep, LogStep
  <1>2. target' \in [Attacker -> Beacon]
    <2>1. CASE target' = target
      BY <2>1 DEF Types
    <2>2. ASSUME NEW n \in Node, CollectBeaconNodeInfo(n) PROVE target' \in [Attacker -> Beacon]
      <3>1. /\ n \in Attacker /\ Len(beaconInfos) >= Cardinality(Beacon)
            /\ target' = [target EXCEPT ![n] = FirstWithMost(beaconInfos)]
        BY <2>2 DEF CollectBeaconNodeInfo
      <3>2. beaconInfos \in Seq(Beacon) /\ target \in [Attacker -> Beacon]
        BY DEF Types
      <3>3. Len(beaconInfos) >= 1
        <4>1. Len(beaconInfos) \in Nat
          BY <3>2
        <4> QED
          BY <3>1, <4>1, BeaconFinite
      <3>4. FirstWithMost(beaconInfos) \in Beacon
        BY <3>2, <3>3, FirstWithMostChoice
      <3> QED
        BY <3>1, <3>2, <3>4
    <2> QED
      BY <2>1, <2>2, Frames
  <1>3. attackerInfos' \subseteq Attacker
    BY Frames DEF Types
  <1>4. listening' \subseteq Node
    BY Frames DEF Types, Listen
  <1>5. dialled' \subseteq Node \X Beacon /\ refused' \subseteq dialled'
    <2>1. dialled \subseteq Node \X Beacon /\ refused \subseteq dialled
      BY DEF Types
    <2>2. ASSUME NEW n \in Node, Dial(n)
          PROVE  dialled' \subseteq Node \X Beacon /\ refused' \subseteq dialled'
      <3>1. /\ dialled' = dialled \cup ({n} \X Targets(n))
            /\ refused' = refused \cup ({n} \X (Targets(n) \ listening))
        BY <2>2, Dialling
      <3> QED
        BY <2>1, <3>1, TargetsType
    <2> QED
      BY <2>1, <2>2, Frames
  <1> QED
    BY <1>1, <1>2, <1>3, <1>4, <1>5 DEF Types

----------------------------------------------------------------------------
(* The theorems *)

LEMMA InitPlaces ==
  ASSUME Init
  PROVE  /\ \A n \in Node : pc[n] = "signal" /\ phase[n] = 0
         /\ AllPublished = {}
  <1>1. \A n \in Node : pc[n] = "signal" /\ phase[n] = 0
    BY DEF Init
  <1>2. \A n \in Beacon : ~Published(n)
    BY <1>1 DEF Published, Node
  <1> QED
    BY <1>1, <1>2 DEF AllPublished

LEMMA InitIInv == Init => IInv
  <1> SUFFICES ASSUME Init PROVE IInv
    OBVIOUS
  <1>0. \A n \in Node : pc[n] = "signal" /\ phase[n] = 0
    BY InitPlaces
  <1>1. Types
    <2>1. GossipsubTypeOK
      BY DEF Init, GossipsubInit, GossipsubTypeOK
    <2>2. pc \in [Node -> PC] /\ phase \in [Node -> 0..4]
      BY DEF Init, PC
    <2>3. target \in [Attacker -> Beacon] /\ counter \in [1..4 -> Nat]
      BY GroupsAssumption DEF Init, Barriers
    <2>4. /\ beaconInfos \in Seq(Beacon) /\ attackerInfos \subseteq Attacker
          /\ listening \subseteq Node /\ dialled \subseteq Node \X Beacon
          /\ refused \subseteq dialled
      BY DEF Init
    <2> QED
      BY <2>1, <2>2, <2>3, <2>4 DEF Types
  <1>2. PhaseOfPC
    BY <1>0 DEF PhaseOfPC, Fits
  <1>3. CountersExact
    <2>1. \A b \in 1..4 : AtBarrier(b) = {}
      BY <1>0 DEF AtBarrier, Arrived
    <2>2. \A b \in 1..4 : counter[b] = 0
      BY DEF Init, Barriers
    <2> QED
      BY <2>1, <2>2, FS_EmptySet DEF CountersExact
  <1>4. LockstepInv
    BY <1>0 DEF LockstepInv, Arrived
  <1>5. ListeningInv /\ TargetInv
    BY <1>0 DEF ListeningInv, TargetInv, Bound, Chosen, Node
  <1>6. AllAccepted
    BY DEF Init, AllAccepted
  <1>7. DialledInv
    BY <1>0 DEF Init, DialledInv, HasDialled
  <1>8. LogInv
    <2>1. beaconInfos = <<>> /\ Len(beaconInfos) = 0
      BY DEF Init
    <2>2. \A n \in Beacon : ~Published(n)
      BY InitPlaces DEF AllPublished
    <2>3. Cardinality(AllPublished) = 0
      BY InitPlaces, FS_EmptySet
    <2> QED
      BY <2>1, <2>2, <2>3 DEF LogInv
  <1> QED
    BY <1>1, <1>2, <1>3, <1>4, <1>5, <1>6, <1>7, <1>8 DEF IInv

LEMMA StepIInv == IInv /\ [Next]_vars => IInv'
  BY TypesStep, PhaseStep, CountersStep, LockstepStep, ListeningStep, AcceptedStep,
     DialledStep, LogStep, TargetStep DEF IInv

\* The inductive invariant: where the instances are, what they have published and
\* dialled, and what the sync service holds, fit together.
THEOREM Invariance == Spec => []IInv
  BY InitIInv, StepIInv, PTL DEF Spec

LEMMA IInvTypeOK == IInv => TypeOK
  <1> SUFFICES ASSUME IInv PROVE TypeOK
    OBVIOUS
  <1>1. \A b \in 1..4 : counter[b] \in 0..N
    <2> TAKE b \in 1..4
    <2>1. AtBarrier(b) \subseteq Node
      BY DEF AtBarrier
    <2>2. Cardinality(AtBarrier(b)) <= N /\ Cardinality(AtBarrier(b)) \in Nat
      BY <2>1, GroupsAssumption, FS_Subset, FS_CardinalityType DEF N
    <2> QED
      BY <2>2, Counts DEF IInv, CountersExact
  <1>2. counter \in [1..4 -> 0..N]
    BY <1>1 DEF IInv, Types
  <1> QED
    BY <1>2, BarriersValue DEF IInv, Types, TypeOK

\* Every variable keeps its type; in particular no barrier is signalled more
\* often than there are instances, and a target is always a beacon node.
THEOREM TypeCorrect == Spec => []TypeOK
  BY Invariance, IInvTypeOK, PTL

\* The attackers all dial the same beacon node and none has more validators,
\* whatever the order of the log and however many tie for the most.
THEOREM TargetUnique == Spec => []SingleTarget
  <1>1. IInv => SingleTarget
    <2> SUFFICES ASSUME IInv, NEW m \in Attacker, NEW t \in Beacon, <<m, t>> \in dialled
                 PROVE  /\ \A b \in Beacon : Validators[b] <= Validators[t]
                        /\ \A k \in Attacker, u \in Beacon : <<k, u>> \in dialled => u = t
      BY DEF SingleTarget
    <2>1. ASSUME NEW k \in Attacker, NEW u \in Beacon, <<k, u>> \in dialled
          PROVE  /\ Len(beaconInfos) >= Cardinality(Beacon)
                 /\ u = FirstWithMost(beaconInfos)
      <3>1. <<k, u>>[1] = k /\ <<k, u>>[2] = u
        OBVIOUS
      <3>2. HasDialled(k) /\ u \in Targets(k)
        BY <2>1, <3>1 DEF IInv, DialledInv
      <3>3. k \notin Beacon /\ k \in Node
        BY GroupsAssumption DEF Node
      <3>4. Chosen(k) /\ u = target[k]
        BY <3>2, <3>3, SMTT(30) DEF HasDialled, Chosen, Targets, IInv, Types
      <3> QED
        BY <3>4 DEF IInv, TargetInv
    <2>2. t = FirstWithMost(beaconInfos) /\ Len(beaconInfos) >= Cardinality(Beacon)
      BY <2>1
    <2>3. beaconInfos \in Seq(Beacon) /\ Len(beaconInfos) >= 1
      <3>1. beaconInfos \in Seq(Beacon) /\ Len(beaconInfos) \in Nat
        BY DEF IInv, Types
      <3> QED
        BY <2>2, <3>1, BeaconFinite
    <2>4. ASSUME NEW b \in Beacon PROVE Validators[b] <= Validators[t]
      <3>1. PICK i \in 1..Len(beaconInfos) : beaconInfos[i] = b
        BY <2>2, FullLog DEF IInv
      <3>2. Validators[beaconInfos[i]] <= Validators[FirstWithMost(beaconInfos)]
        BY <2>3, FirstWithMostChoice
      <3> QED
        BY <2>2, <3>1, <3>2
    <2> QED
      BY <2>1, <2>2, <2>4
  <1> QED
    BY <1>1, Invariance, PTL

\* When the first beacon node is through the third barrier, every instance of
\* both groups has made all its dials.
THEOREM DialsBeforeRun == Spec => []AllDialledBeforeRun
  <1>1. IInv => AllDialledBeforeRun
    <2> SUFFICES ASSUME IInv, NEW n \in Beacon, phase[n] >= 3, NEW m \in Node
                 PROVE  {m} \X Targets(m) \subseteq dialled
      BY DEF AllDialledBeforeRun
    <2>1. n \in Node
      BY DEF Node
    <2>2. phase[n] <= Arrived(m) /\ phase[m] \in 0..4 /\ phase[n] \in 0..4
      BY <2>1 DEF IInv, LockstepInv, Types
    <2>3. HasDialled(m)
      BY <2>2 DEF Arrived, HasDialled
    <2> QED
      BY <2>3 DEF IInv, DialledInv
  <1> QED
    BY <1>1, Invariance, PTL

\* No dial of either group is refused: nobody dials before all sockets are bound.
THEOREM DialsAccepted == Spec => [](refused = {})
  <1>1. IInv => refused = {}
    BY DEF IInv, AllAccepted
  <1> QED
    BY <1>1, Invariance, PTL

\* The two groups go through the same four barriers, for any number of both: each
\* step is an arrival, a passage or no step of BarrierRounds.
THEOREM BarriersRefined == Spec => ImplementsBarriers
  <1>1. Init => Rounds!Init
    BY DEF Init, Rounds!Init
  <1>2. IInv /\ [Next]_vars => [Rounds!Next]_(Rounds!vars)
    <2> SUFFICES ASSUME IInv, [Next]_vars PROVE [Rounds!Next]_(Rounds!vars)
      OBVIOUS
    <2>0. /\ Types /\ PhaseOfPC /\ CountersExact
          /\ pc \in [Node -> PC] /\ phase \in [Node -> 0..4]
      BY DEF IInv, Types
    <2>1. ASSUME NEW n \in Node, Signal(n) PROVE Rounds!Arrive(n)
      <3>1. /\ phase[n] \in 0..3 /\ pc[n] = "signal" /\ phase' = phase
            /\ pc' = [pc EXCEPT ![n] = "barrier"]
        BY <2>0, <2>1 DEF Signal, Goto, PhaseOfPC, Fits
      <3>2. Arrived(n) = phase[n] /\ Arrived(n) < Barriers
        BY <3>1 DEF Arrived, Barriers
      <3>3. \A m \in Node : Arrived(m)' = IF m = n THEN Arrived(m) + 1 ELSE Arrived(m)
        BY <2>0, <3>1 DEF Arrived
      <3> QED
        BY <3>1, <3>2, <3>3 DEF Rounds!Arrive, Arrived
    <2>2. ASSUME NEW n \in Node, PassBarrier(n) PROVE Rounds!Pass(n)
      <3>1. /\ phase[n] \in 0..3 /\ pc[n] = "barrier" /\ phase' = [phase EXCEPT ![n] = @ + 1]
            /\ counter[phase[n] + 1] >= N
        BY <2>0, <2>2 DEF PassBarrier, PhaseOfPC, Fits
      <3>2. \A m \in Node : Arrived(m)' = Arrived(m)
        BY <2>0, <2>2, PassKeepsArrived
      <3>3. phase[n] + 1 \in 1..4 /\ Arrived(n) = phase[n] + 1
        BY <3>1 DEF Arrived
      <3>4. \A m \in Node : Arrived(m) >= Arrived(n)
        BY <2>0, <3>1, <3>3, FullBarrier
      <3> QED
        BY <3>1, <3>2, <3>3, <3>4 DEF Rounds!Pass, Arrived
    <2>3. CASE Quiet \/ \E n \in Node : Moves(n)
      BY <2>0, <2>3, OthersKeepArrived DEF Rounds!vars, Arrived
    <2> QED
      BY <2>0, <2>1, <2>2, <2>3, Steps DEF Rounds!Next
  <1> QED
    BY <1>1, <1>2, Invariance, PTL DEF Spec, ImplementsBarriers

=============================================================================
