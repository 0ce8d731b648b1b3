------------------------- MODULE EthConsensusProofs -------------------------
(***************************************************************************)
(* What is proved of EthConsensus for every number of nodes, every         *)
(* topology and every number of publishers.                                *)
(*                                                                         *)
(* The third wait counts on a state that the first one has filled, so the  *)
(* counter of that state says nothing about the third; it still says what  *)
(* it should about the first, because a node that signals it again is      *)
(* through the second wait, which all must have come to (LockstepInv).     *)
(***************************************************************************)
EXTENDS EthConsensus, FiniteSetTheorems, TLAPS

AtBarrier(b) == {n \in Node : Arrived(n) >= b}

\* The types that need no counting.
Types ==
    /\ pc \in [Node -> PC]
    /\ phase \in [Node -> 0..3]
    /\ running \in [Node -> Nat]
    /\ finished \in [Node -> Nat]
    /\ toValidate \in [Node -> SUBSET (Node \X Node)]
    /\ infos \subseteq Node
    /\ counter \in [BarrierStates -> Nat]
    /\ listening \subseteq Node
    /\ dialled \subseteq Node \X Node
    /\ refused \subseteq dialled
    /\ GossipsubTypeOK

\* The counters hold the numbers of signals, over the waits on their state.
CountersExact ==
    /\ counter["Topology generated"] = Cardinality(AtBarrier(1)) + Cardinality(AtBarrier(3))
    /\ counter["Started libp2p"] = Cardinality(AtBarrier(2))

\* Where run() can be when k waits are behind it.
Fits(place, k) ==
    /\ place \in {"publish_info", "collect"} => k = 0
    /\ place = "listen" => k = 1
    /\ place = "dial" => k = 2
    /\ place \in {"subscribe", "run", "drain", "done"} => k = 3
    /\ place \in {"signal", "barrier"} => k \in 0..2

PhaseOfPC == \A n \in Node : Fits(pc[n], phase[n])

\* Nobody is through the first or the second wait that somebody has not signalled.
LockstepInv == \A n, m \in Node : Least(phase[n], 2) <= Arrived(m)

\* A node that is past start_libp2p listens.
ListeningInv == \A n \in Node : phase[n] >= 1 /\ pc[n] # "listen" => n \in listening

\* What gossipsub holds for n is queued, by a single entry each.
HeldBy(n) ==
    /\ unvalidated[n] = {x[1] : x \in toValidate[n]}
    /\ \A x, y \in toValidate[n] : x[1] = y[1] => x = y
    /\ unvalidated[n] \subseteq seen[n]

HeldInv == \A n \in Node : HeldBy(n)

\* The tasks: none before run_sim, none when run() has returned.
HandlesBy(n) ==
    /\ running[n] + finished[n] <= MaxHandles
    /\ phase[n] < 3 \/ pc[n] = "subscribe" => running[n] = 0 /\ finished[n] = 0
    /\ pc[n] = "done" => running[n] = 0

HandlesInv == \A n \in Node : HandlesBy(n)

IInv ==
    /\ Types
    /\ PhaseOfPC
    /\ CountersExact
    /\ LockstepInv
    /\ ListeningInv
    /\ NoDialRefused
    /\ HeldInv
    /\ HandlesInv

----------------------------------------------------------------------------

LEMMA Counts == N \in Nat \ {0}
  BY NodeAssumption, FS_CardinalityType, FS_EmptySet DEF N

LEMMA AfterBarrierValues ==
  AfterBarrier[1] = "listen" /\ AfterBarrier[2] = "dial" /\ AfterBarrier[3] = "subscribe"
  BY DEF AfterBarrier

LEMMA FitsAfterBarrier ==
  ASSUME NEW k \in {0, 1, 2}
  PROVE  Fits(AfterBarrier[k + 1], k + 1) /\ AfterBarrier[k + 1] \in PC
  <1>1. CASE k = 0
    <2>1. k + 1 = 1
      BY <1>1
    <2>2. AfterBarrier[k + 1] = "listen"
      BY <2>1, AfterBarrierValues, Zenon
    <2> QED
      BY <2>1, <2>2 DEF Fits, PC
  <1>2. CASE k = 1
    <2>1. k + 1 = 2
      BY <1>2
    <2>2. AfterBarrier[k + 1] = "dial"
      BY <2>1, AfterBarrierValues, Zenon
    <2> QED
      BY <2>1, <2>2 DEF Fits, PC
  <1>3. CASE k = 2
    <2>1. k + 1 = 3
      BY <1>3
    <2>2. AfterBarrier[k + 1] = "subscribe"
      BY <2>1, AfterBarrierValues, Zenon
    <2> QED
      BY <2>1, <2>2 DEF Fits, PC
  <1> QED
    BY <1>1, <1>2, <1>3

LEMMA BarrierStateValues ==
  /\ BarrierState[1] = "Topology generated"
  /\ BarrierState[2] = "Started libp2p"
  /\ BarrierState[3] = "Topology generated"
  BY DEF BarrierState

LEMMA ArrivedType ==
  ASSUME Types, PhaseOfPC, NEW n \in Node
  PROVE  /\ Arrived(n) \in 0..3 /\ phase[n] <= Arrived(n)
         /\ Arrived(n) <= phase[n] + 1
  <1>1. phase[n] \in 0..3
    BY DEF Types
  <1>2. pc[n] = "barrier" => phase[n] \in 0..2
    BY DEF PhaseOfPC, Fits
  <1> QED
    BY <1>1, <1>2 DEF Arrived

----------------------------------------------------------------------------
(* The waits *)

\* n moves within its phase.
Move(n, p) ==
    /\ pc[n] # "barrier" /\ p # "barrier" /\ Fits(p, phase[n])
    /\ pc' = [pc EXCEPT ![n] = p]

\* Every step signals a state, passes a wait, or leaves the waits alone.
LEMMA Steps ==
  ASSUME Types, PhaseOfPC, [Next]_vars
  PROVE  \/ \E n \in Node : Signal(n) \/ PassBarrier(n)
         \/ /\ phase' = phase /\ counter' = counter
            /\ pc' = pc \/ \E n \in Node : \E p \in PC : Move(n, p)
  <1> DEFINE Quiet == /\ phase' = phase /\ counter' = counter
                      /\ pc' = pc \/ \E n \in Node : \E p \in PC : Move(n, p)
  <1>0. \A n \in Node : Fits(pc[n], phase[n])
    BY DEF PhaseOfPC
  <1>1. CASE UNCHANGED vars
    BY <1>1 DEF vars, app, sync
  <1>2. ASSUME NEW n \in Node, PublishInfo(n) PROVE Quiet
    <2>1. Move(n, "collect") /\ "collect" \in PC
      BY <1>0, <1>2 DEF PublishInfo, Move, Fits, PC
    <2> QED
      BY <1>2, <2>1 DEF PublishInfo
  <1>3. ASSUME NEW n \in Node, Collect(n) PROVE Quiet
    <2>1. phase[n] = 0
      BY <1>0, <1>3 DEF Collect, Fits
    <2>2. Fits("signal", phase[n]) /\ "signal" \in PC
      BY <2>1 DEF Fits, PC
    <2>3. Move(n, "signal")
      BY <1>3, <2>2 DEF Collect, Move
    <2> QED
      BY <1>3, <2>2, <2>3 DEF Collect, sync
  <1>4. ASSUME NEW n \in Node, Listen(n) PROVE Quiet
    <2>1. phase[n] = 1
      BY <1>0, <1>4 DEF Listen, Fits
    <2>2. Fits("signal", phase[n]) /\ "signal" \in PC
      BY <2>1 DEF Fits, PC
    <2>3. Move(n, "signal")
      BY <1>4, <2>2 DEF Listen, Move
    <2> QED
      BY <1>4, <2>2, <2>3 DEF Listen, sync
  <1>5. ASSUME NEW n \in Node, Dial(n) PROVE Quiet
    <2>1. phase[n] = 2
      BY <1>0, <1>5 DEF Dial, Fits
    <2>2. Fits("signal", phase[n]) /\ "signal" \in PC
      BY <2>1 DEF Fits, PC
    <2>3. Move(n, "signal")
      BY <1>5, <2>2 DEF Dial, Move
    <2> QED
      BY <1>5, <2>2, <2>3 DEF Dial, sync
  <1>6. ASSUME NEW n \in Node, Subscribe(n) PROVE Quiet
    <2>1. phase[n] = 3
      BY <1>0, <1>6 DEF Subscribe, Fits
    <2>2. Fits("run", phase[n]) /\ "run" \in PC
      BY <2>1 DEF Fits, PC
    <2>3. Move(n, "run")
      BY <1>6, <2>2 DEF Subscribe, Move
    <2> QED
      BY <1>6, <2>2, <2>3 DEF Subscribe, sync
  <1>7. ASSUME NEW n \in Node, Deadline(n) PROVE Quiet
    <2>1. Move(n, "drain") /\ "drain" \in PC
      BY <1>0, <1>7 DEF Deadline, Running, Move, Fits, PC
    <2> QED
      BY <1>7, <2>1 DEF Deadline, sync
  <1>8. ASSUME NEW n \in Node, Drain(n) PROVE Quiet
    <2>1. pc' = pc \/ (Move(n, "done") /\ "done" \in PC)
      BY <1>0, <1>8 DEF Drain, Move, Fits, PC
    <2> QED
      BY <1>8, <2>1 DEF Drain, sync
  <1>9. ASSUME NEW n \in Node, Receive(n) \/ Validation(n) PROVE Quiet
    BY <1>9 DEF Receive, Validation, HandleOther, HandleMessage, Validate, app, sync
  <1>10. ASSUME NEW n \in Node,
                \/ Publish(n) \/ MetricsTick(n) \/ TaskEnds(n) \/ RemoveHandle(n)
                \/ \E m \in Node : Heartbeat(n, m)
         PROVE  Quiet
    BY <1>10 DEF Publish, MetricsTick, TaskEnds, RemoveHandle, Heartbeat, app, sync
  <1>11. ASSUME NEW d \in dialled, Connect(d) PROVE Quiet
    BY <1>11 DEF Connect, app, sync
  <1> QED
    BY <1>1, <1>2, <1>3, <1>4, <1>5, <1>6, <1>7, <1>8, <1>9, <1>10, <1>11
       DEF Next, Setup

LEMMA PhaseStep ==
  ASSUME Types, PhaseOfPC, [Next]_vars
  PROVE  PhaseOfPC' /\ pc' \in [Node -> PC] /\ phase' \in [Node -> 0..3]
  <1>0. /\ pc \in [Node -> PC] /\ phase \in [Node -> 0..3]
        /\ \A n \in Node : Fits(pc[n], phase[n])
    BY DEF PhaseOfPC, Types
  <1>1. ASSUME NEW n \in Node, NEW p \in PC, NEW k \in 0..3, Fits(p, k),
               pc' = [pc EXCEPT ![n] = p], phase' = [phase EXCEPT ![n] = k]
        PROVE  PhaseOfPC' /\ pc' \in [Node -> PC] /\ phase' \in [Node -> 0..3]
    <2>1. ASSUME NEW m \in Node PROVE Fits(pc'[m], phase'[m])
      <3>1. CASE m = n
        BY <1>0, <1>1, <3>1
      <3>2. CASE m # n
        BY <1>0, <1>1, <3>2
      <3> QED
        BY <3>1, <3>2
    <2> QED
      BY <1>0, <1>1, <2>1 DEF PhaseOfPC
  <1>2. ASSUME NEW n \in Node, Signal(n) PROVE PhaseOfPC' /\ pc' \in [Node -> PC] /\ phase' \in [Node -> 0..3]
    <2>1. Fits("barrier", phase[n]) /\ "barrier" \in PC
      BY <1>0, <1>2 DEF Signal, Fits, PC
    <2>2. phase' = [phase EXCEPT ![n] = phase[n]]
      BY <1>0, <1>2 DEF Signal
    <2> QED
      BY <1>0, <1>1, <1>2, <2>1, <2>2 DEF Signal
  <1>3. ASSUME NEW n \in Node, PassBarrier(n) PROVE PhaseOfPC' /\ pc' \in [Node -> PC] /\ phase' \in [Node -> 0..3]
    <2>0. phase[n] \in 0..2
      BY <1>0, <1>3 DEF PassBarrier, Fits
    <2>1. phase[n] \in {0, 1, 2}
      BY <2>0
    <2>2. Fits(AfterBarrier[phase[n] + 1], phase[n] + 1) /\ AfterBarrier[phase[n] + 1] \in PC
      BY <2>1, FitsAfterBarrier
    <2>3. phase[n] + 1 \in 0..3
      BY <2>1
    <2>4. /\ pc' = [pc EXCEPT ![n] = AfterBarrier[phase[n] + 1]]
          /\ phase' = [phase EXCEPT ![n] = phase[n] + 1]
      BY <1>3 DEF PassBarrier
    <2> QED
      BY <1>1, <2>2, <2>3, <2>4
  <1>4. ASSUME NEW n \in Node, NEW p \in PC, Move(n, p), phase' = phase
        PROVE  PhaseOfPC' /\ pc' \in [Node -> PC] /\ phase' \in [Node -> 0..3]
    <2>1. phase' = [phase EXCEPT ![n] = phase[n]]
      BY <1>0, <1>4
    <2> QED
      BY <1>0, <1>1, <1>4, <2>1 DEF Move
  <1>5. CASE phase' = phase /\ pc' = pc
    BY <1>0, <1>5 DEF PhaseOfPC
  <1> QED
    BY <1>2, <1>3, <1>4, <1>5, Steps

\* A state that has been signalled by all is one that all have arrived at: those
\* who have signalled the first one again are beyond the second.
LEMMA FullBarrier ==
  ASSUME Types, PhaseOfPC, CountersExact, LockstepInv, NEW b \in {1, 2},
         counter[BarrierState[b]] >= N
  PROVE  \A m \in Node : Arrived(m) >= b
  <1>1. ASSUME NEW c \in {1, 2}, Cardinality(AtBarrier(c)) >= N
        PROVE  \A m \in Node : Arrived(m) >= c
    <2>1. AtBarrier(c) \subseteq Node
      BY DEF AtBarrier
    <2>2. /\ Cardinality(AtBarrier(c)) <= N /\ Cardinality(AtBarrier(c)) \in Nat
          /\ N = Cardinality(AtBarrier(c)) => AtBarrier(c) = Node
      BY <2>1, NodeAssumption, FS_Subset, FS_CardinalityType DEF N
    <2>3. AtBarrier(c) = Node
      BY <1>1, <2>2, Counts
    <2> QED
      BY <2>3 DEF AtBarrier
  <1>2. CASE b = 2
    <2>1. Cardinality(AtBarrier(2)) >= N
      BY <1>2, BarrierStateValues DEF CountersExact
    <2> QED
      BY <1>1, <1>2, <2>1
  <1>3. CASE b = 1
    <2>1. Cardinality(AtBarrier(1)) + Cardinality(AtBarrier(3)) >= N
      BY <1>3, BarrierStateValues DEF CountersExact
    <2>2. CASE AtBarrier(3) = {}
      <3>1. Cardinality(AtBarrier(3)) = 0
        BY <2>2, FS_EmptySet
      <3>2. Cardinality(AtBarrier(1)) \in Nat
        <4>1. AtBarrier(1) \subseteq Node
          BY DEF AtBarrier
        <4> QED
          BY <4>1, NodeAssumption, FS_Subset, FS_CardinalityType
      <3> QED
        BY <1>1, <1>3, <2>1, <3>1, <3>2
    <2>3. CASE AtBarrier(3) # {}
      <3>1. PICK n \in Node : Arrived(n) >= 3
        BY <2>3 DEF AtBarrier
      <3>2. phase[n] >= 2 /\ phase[n] \in 0..3
        BY <3>1, ArrivedType DEF Types
      <3>3. ASSUME NEW m \in Node PROVE Arrived(m) >= 1
        <4>1. Least(phase[n], 2) = 2
          BY <3>2 DEF Least
        <4>2. 2 <= Arrived(m) /\ Arrived(m) \in 0..3
          BY <4>1, ArrivedType DEF LockstepInv
        <4> QED
          BY <4>2
      <3> QED
        BY <1>3, <3>3
    <2> QED
      BY <2>2, <2>3
  <1> QED
    BY <1>2, <1>3

LEMMA PassKeepsArrived ==
  ASSUME Types, PhaseOfPC, NEW n \in Node, PassBarrier(n)
  PROVE  \A m \in Node : Arrived(m)' = Arrived(m)
  <1>1. phase[n] \in 0..2 /\ pc[n] = "barrier"
    BY DEF PassBarrier, PhaseOfPC, Fits
  <1>2. phase[n] + 1 \in {1, 2, 3}
    BY <1>1
  <1>3. AfterBarrier[phase[n] + 1] # "barrier"
    BY <1>2, AfterBarrierValues
  <1>4. /\ phase' = [phase EXCEPT ![n] = @ + 1]
        /\ pc' = [pc EXCEPT ![n] = AfterBarrier[phase[n] + 1]]
        /\ pc \in [Node -> PC] /\ phase \in [Node -> 0..3]
    BY DEF PassBarrier, Types
  <1> QED
    BY <1>1, <1>3, <1>4 DEF Arrived

LEMMA CountersStep ==
  ASSUME Types, PhaseOfPC, CountersExact, [Next]_vars
  PROVE  CountersExact'
  <1>0. /\ pc \in [Node -> PC] /\ phase \in [Node -> 0..3]
        /\ counter \in [BarrierStates -> Nat]
    BY DEF Types
  <1>1. ASSUME NEW n \in Node, Signal(n) PROVE CountersExact'
    <2>0. phase[n] \in 0..2 /\ pc[n] = "signal"
      BY <1>1 DEF Signal, PhaseOfPC, Fits
    <2>1. PICK k \in {1, 2, 3} : k = phase[n] + 1
      BY <2>0
    <2>2. /\ pc' = [pc EXCEPT ![n] = "barrier"] /\ phase' = phase
          /\ counter' = [counter EXCEPT ![BarrierState[k]] = @ + 1]
      BY <1>1, <2>1 DEF Signal
    <2>3. ASSUME NEW b \in {1, 2, 3}, b # k PROVE AtBarrier(b)' = AtBarrier(b)
      BY <1>0, <2>0, <2>1, <2>2, <2>3 DEF AtBarrier, Arrived
    <2>4. AtBarrier(k)' = AtBarrier(k) \cup {n} /\ n \notin AtBarrier(k)
      BY <1>0, <2>0, <2>1, <2>2 DEF AtBarrier, Arrived
    <2>5. \A b \in {1, 2, 3} : IsFiniteSet(AtBarrier(b)) /\ Cardinality(AtBarrier(b)) \in Nat
      <3> TAKE b \in {1, 2, 3}
      <3>1. AtBarrier(b) \subseteq Node
        BY DEF AtBarrier
      <3> QED
        BY <3>1, NodeAssumption, FS_Subset, FS_CardinalityType
    <2>6. Cardinality(AtBarrier(k)') = Cardinality(AtBarrier(k)) + 1
      BY <2>4, <2>5, FS_AddElement
    <2>7. CASE k = 2
      <3>1. /\ counter'["Started libp2p"] = counter["Started libp2p"] + 1
            /\ counter'["Topology generated"] = counter["Topology generated"]
        BY <1>0, <2>2, <2>7, BarrierStateValues DEF BarrierStates
      <3>2. /\ Cardinality(AtBarrier(1)') = Cardinality(AtBarrier(1))
            /\ Cardinality(AtBarrier(3)') = Cardinality(AtBarrier(3))
        BY <2>3, <2>7
      <3> QED
        BY <2>6, <2>7, <3>1, <3>2 DEF CountersExact
    <2>8. CASE k # 2
      <3>1. /\ counter'["Topology generated"] = counter["Topology generated"] + 1
            /\ counter'["Started libp2p"] = counter["Started libp2p"]
        BY <1>0, <2>2, <2>8, BarrierStateValues DEF BarrierStates
      <3>2. Cardinality(AtBarrier(2)') = Cardinality(AtBarrier(2))
        BY <2>3, <2>8
      <3>3. \/ /\ Cardinality(AtBarrier(1)') = Cardinality(AtBarrier(1)) + 1
               /\ Cardinality(AtBarrier(3)') = Cardinality(AtBarrier(3))
            \/ /\ Cardinality(AtBarrier(1)') = Cardinality(AtBarrier(1))
               /\ Cardinality(AtBarrier(3)') = Cardinality(AtBarrier(3)) + 1
        <4>1. CASE k = 1
          BY <2>3, <2>6, <4>1
        <4>2. CASE k = 3
          BY <2>3, <2>6, <4>2
        <4> QED
          BY <2>8, <4>1, <4>2
      <3>4. Cardinality(AtBarrier(1)) \in Nat /\ Cardinality(AtBarrier(3)) \in Nat
        BY <2>5
      <3>5. /\ counter["Topology generated"]
               = Cardinality(AtBarrier(1)) + Cardinality(AtBarrier(3))
            /\ counter["Started libp2p"] = Cardinality(AtBarrier(2))
        BY DEF CountersExact
      <3>6. counter'["Topology generated"]
            = Cardinality(AtBarrier(1)') + Cardinality(AtBarrier(3)')
        <4> DEFINE a == Cardinality(AtBarrier(1))
                   b == Cardinality(AtBarrier(3))
                   a1 == Cardinality(AtBarrier(1)')
                   b1 == Cardinality(AtBarrier(3)')
        <4>1. /\ a \in Nat /\ b \in Nat
              /\ (a1 = a + 1 /\ b1 = b) \/ (a1 = a /\ b1 = b + 1)
          BY <3>3, <3>4, Zenon
        <4>2. counter'["Topology generated"] = (a + b) + 1
          BY <3>1, <3>5, Zenon
        <4> HIDE DEF a, b, a1, b1
        <4>3. a1 + b1 = (a + b) + 1
          BY <4>1
        <4>4. counter'["Topology generated"] = a1 + b1
          BY <4>2, <4>3
        <4> QED
          BY <4>4, Zenon DEF a1, b1
      <3> QED
        BY <3>1, <3>2, <3>5, <3>6 DEF CountersExact
    <2> QED
      BY <2>7, <2>8
  <1>2. ASSUME \A m \in Node : Arrived(m)' = Arrived(m), counter' = counter
        PROVE  CountersExact'
    BY <1>2 DEF CountersExact, AtBarrier
  <1>3. ASSUME NEW n \in Node, PassBarrier(n) PROVE CountersExact'
    BY <1>2, <1>3, PassKeepsArrived DEF PassBarrier, sync
  <1>4. CASE /\ phase' = phase /\ counter' = counter
             /\ pc' = pc \/ \E n \in Node : \E p \in PC : Move(n, p)
    <2>1. \A m \in Node : Arrived(m)' = Arrived(m)
      BY <1>0, <1>4 DEF Move, Arrived
    <2> QED
      BY <1>2, <1>4, <2>1
  <1> QED
    BY <1>1, <1>3, <1>4, Steps

LEMMA LockstepStep ==
  ASSUME Types, PhaseOfPC, CountersExact, LockstepInv, [Next]_vars
  PROVE  LockstepInv'
  <1>0. pc \in [Node -> PC] /\ phase \in [Node -> 0..3]
    BY DEF Types
  <1>1. ASSUME NEW n \in Node, Signal(n) PROVE LockstepInv'
    <2>1. \A m \in Node : Arrived(m)' >= Arrived(m) /\ Arrived(m)' \in Nat
      BY <1>0, <1>1 DEF Signal, Arrived
    <2>2. \A m \in Node : Least(phase[m], 2)' = Least(phase[m], 2) /\ Least(phase[m], 2) \in Nat
      BY <1>0, <1>1 DEF Signal, Least
    <2> QED
      BY <2>1, <2>2, ArrivedType DEF LockstepInv
  <1>2. ASSUME NEW n \in Node, PassBarrier(n) PROVE LockstepInv'
    <2>1. \A m \in Node : Arrived(m)' = Arrived(m)
      BY <1>2, PassKeepsArrived
    <2>2. phase[n] \in 0..2 /\ phase' = [phase EXCEPT ![n] = @ + 1]
      BY <1>2 DEF PassBarrier, PhaseOfPC, Fits
    <2>3. \A m \in Node : Least(phase[n] + 1, 2) <= Arrived(m)
      <3>1. CASE phase[n] = 2
        <4>1. Least(phase[n] + 1, 2) = Least(phase[n], 2)
          BY <3>1 DEF Least
        <4> QED
          BY <4>1 DEF LockstepInv
      <3>2. CASE phase[n] \in 0..1
        <4>1. phase[n] + 1 \in {1, 2} /\ counter[BarrierState[phase[n] + 1]] >= N
          BY <1>2, <3>2 DEF PassBarrier
        <4>2. Least(phase[n] + 1, 2) = phase[n] + 1
          BY <3>2 DEF Least
        <4> QED
          BY <4>1, <4>2, FullBarrier, ArrivedType
      <3> QED
        BY <2>2, <3>1, <3>2
    <2>4. ASSUME NEW a \in Node, NEW m \in Node PROVE Least(phase'[a], 2) <= Arrived(m)
      <3>1. CASE a = n
        BY <1>0, <2>2, <2>3, <3>1
      <3>2. CASE a # n
        BY <1>0, <2>2, <3>2 DEF LockstepInv
      <3> QED
        BY <3>1, <3>2
    <2> QED
      BY <2>1, <2>4 DEF LockstepInv, Least
  <1>3. CASE /\ phase' = phase /\ counter' = counter
             /\ pc' = pc \/ \E n \in Node : \E p \in PC : Move(n, p)
    <2>1. \A m \in Node : Arrived(m)' = Arrived(m)
      BY <1>0, <1>3 DEF Move, Arrived
    <2> QED
      BY <1>3, <2>1 DEF LockstepInv, Least
  <1> QED
    BY <1>1, <1>2, <1>3, Steps

----------------------------------------------------------------------------
(* The types *)

LEMMA PacketFields ==
  ASSUME NEW p \in Packet
  PROVE  /\ p.from \in Node /\ p.to \in Node
         /\ p.type = "message" => p.source \in Node
  BY DEF Packet

LEMMA PacketsMade ==
  ASSUME NEW a \in Node, NEW b \in Node, NEW s \in Node, NEW S, S \subseteq Node
  PROVE  Subscription(a, b) \in Packet /\ Messages(a, S, s) \subseteq Packet
  BY DEF Packet, Subscription, Messages

LEMMA ValidationPairs ==
  ASSUME Types, NEW n \in Node, NEW x \in toValidate[n]
  PROVE  /\ x[1] \in Node /\ x[2] \in Node /\ x = <<x[1], x[2]>>
  BY DEF Types

LEMMA GossipsubStep ==
  ASSUME Types, [Next]_vars
  PROVE  GossipsubTypeOK'
  <1> USE DEF GossipsubTypeOK
  <1>0. GossipsubTypeOK /\ dialled \subseteq Node \X Node
    BY DEF Types
  <1>1. CASE UNCHANGED gossipsub
    BY <1>0, <1>1 DEF gossipsub
  <1>2. ASSUME NEW d \in dialled, Connect(d) PROVE GossipsubTypeOK'
    <2>1. d[1] \in Node /\ d[2] \in Node /\ d \in Node \X Node
      BY <1>0
    <2>2. Subscription(d[1], d[2]) \in Packet /\ Subscription(d[2], d[1]) \in Packet
      BY <2>1, PacketsMade
    <2> QED
      BY <1>0, <1>2, <2>1, <2>2 DEF Connect, Establish
  <1>3. ASSUME NEW n \in Node, Receive(n) PROVE GossipsubTypeOK'
    <2>1. PICK p \in inflight : HandleOther(p) \/ HandleMessage(p)
      BY <1>3 DEF Receive
    <2>2. p.from \in Node /\ p.to \in Node /\ (p.type = "message" => p.source \in Node)
      BY <1>0, PacketFields
    <2> QED
      BY <1>0, <2>1, <2>2 DEF HandleOther, HandleMessage, LearnSubscription, DropSeen, Hold
  <1>4. ASSUME NEW n \in Node, Publish(n) PROVE GossipsubTypeOK'
    <2>1. Messages(n, topicPeers[n], n) \subseteq Packet
      BY <1>0, PacketsMade
    <2> QED
      BY <1>0, <1>4, <2>1 DEF Publish, Flood
  <1>5. ASSUME NEW n \in Node, Validation(n) PROVE GossipsubTypeOK'
    <2>1. PICK x \in toValidate[n] : Validate(n, x)
      BY <1>5 DEF Validation
    <2>2. Messages(n, topicPeers[n] \ {x[2]}, x[1]) \subseteq Packet
      BY <1>0, ValidationPairs, PacketsMade
    <2> QED
      BY <1>0, <2>1, <2>2 DEF Validate, ReportAccept
  <1>6. ASSUME NEW n \in Node, NEW m \in Node, Heartbeat(n, m) PROVE GossipsubTypeOK'
    <2>1. PICK s \in Node : Gossip(n, m, s)
      BY <1>6 DEF Heartbeat
    <2>2. Messages(n, {m}, s) \subseteq Packet
      BY PacketsMade
    <2> QED
      BY <1>0, <2>1, <2>2 DEF Gossip
  <1>7. ASSUME NEW n \in Node,
               Setup(n) \/ MetricsTick(n) \/ TaskEnds(n) \/ RemoveHandle(n) \/ Deadline(n)
        PROVE  UNCHANGED gossipsub
    <2> USE DEF gossipsub
    <2>1. CASE MetricsTick(n) \/ TaskEnds(n) \/ RemoveHandle(n) \/ Deadline(n)
      BY <2>1 DEF MetricsTick, TaskEnds, RemoveHandle, Deadline
    <2>2. CASE PublishInfo(n) \/ Collect(n) \/ Signal(n) \/ PassBarrier(n)
      BY <2>2 DEF PublishInfo, Collect, Signal, PassBarrier
    <2>3. CASE Listen(n) \/ Dial(n) \/ Subscribe(n) \/ Drain(n)
      BY <2>3 DEF Listen, Dial, Subscribe, Drain
    <2> QED
      BY <1>7, <2>1, <2>2, <2>3 DEF Setup
  <1> QED
    BY <1>1, <1>2, <1>3, <1>4, <1>5, <1>6, <1>7 DEF Next, vars

LEMMA TypesStep ==
  ASSUME Types, PhaseOfPC, [Next]_vars
  PROVE  Types'
  <1>1. GossipsubTypeOK' /\ pc' \in [Node -> PC] /\ phase' \in [Node -> 0..3]
    BY GossipsubStep, PhaseStep
  <1>2. /\ running \in [Node -> Nat] /\ finished \in [Node -> Nat]
        /\ toValidate \in [Node -> SUBSET (Node \X Node)]
        /\ infos \subseteq Node /\ counter \in [BarrierStates -> Nat]
        /\ listening \subseteq Node /\ dialled \subseteq Node \X Node
        /\ refused \subseteq dialled /\ inflight \subseteq Packet
    BY DEF Types, GossipsubTypeOK
  <1> DEFINE Tasks == running' \in [Node -> Nat] /\ finished' \in [Node -> Nat]
             Queue == toValidate' \in [Node -> SUBSET (Node \X Node)]
             Sync  == infos' \subseteq Node /\ counter' \in [BarrierStates -> Nat]
             Conns == /\ listening' \subseteq Node /\ dialled' \subseteq Node \X Node
                      /\ refused' \subseteq dialled'
  <1>3. CASE UNCHANGED vars
    BY <1>2, <1>3 DEF vars, app, sync, conns, Types, GossipsubTypeOK, gossipsub
  <1>4. ASSUME NEW n \in Node, PublishInfo(n) \/ Collect(n) \/ PassBarrier(n) \/ Deadline(n)
        PROVE  Tasks /\ Queue /\ Sync /\ Conns
    BY <1>2, <1>4 DEF PublishInfo, Collect, PassBarrier, Deadline, sync, conns
  <1>5. ASSUME NEW n \in Node, Signal(n) PROVE Tasks /\ Queue /\ Sync /\ Conns
    <2>1. PICK b : counter' = [counter EXCEPT ![b] = @ + 1]
      BY <1>5 DEF Signal
    <2>2. counter' \in [BarrierStates -> Nat]
      <3>1. CASE b \in BarrierStates
        BY <1>2, <2>1, <3>1
      <3>2. CASE b \notin BarrierStates
        BY <1>2, <2>1, <3>2
      <3> QED
        BY <3>1, <3>2
    <2> QED
      BY <1>2, <1>5, <2>2 DEF Signal, conns
  <1>6. ASSUME NEW n \in Node, Listen(n) PROVE Tasks /\ Queue /\ Sync /\ Conns
    BY <1>2, <1>6 DEF Listen, sync
  <1>7. ASSUME NEW n \in Node, Dial(n) PROVE Tasks /\ Queue /\ Sync /\ Conns
    <2>1. {n} \X Outbound[n] \subseteq Node \X Node
      BY OutboundAssumption
    <2> QED
      BY <1>2, <1>7, <2>1 DEF Dial, sync
  <1>8. ASSUME NEW n \in Node, Subscribe(n) \/ MetricsTick(n)
        PROVE  Tasks /\ Queue /\ Sync /\ Conns
    BY <1>2, <1>8 DEF Subscribe, MetricsTick, sync, conns
  <1>9. ASSUME NEW n \in Node, TaskEnds(n) \/ RemoveHandle(n) \/ Drain(n)
        PROVE  Tasks /\ Queue /\ Sync /\ Conns
    <2>1. Tasks
      <3>1. CASE TaskEnds(n)
        BY <1>2, <3>1 DEF TaskEnds
      <3>2. CASE RemoveHandle(n)
        BY <1>2, <3>2 DEF RemoveHandle
      <3>3. CASE Drain(n)
        BY <1>2, <3>3 DEF Drain
      <3> QED
        BY <1>9, <3>1, <3>2, <3>3
    <2> QED
      BY <1>2, <1>9, <2>1 DEF TaskEnds, RemoveHandle, Drain, sync, conns
  <1>10. ASSUME NEW n \in Node, Receive(n) PROVE Tasks /\ Queue /\ Sync /\ Conns
    <2>1. PICK p \in inflight : HandleOther(p) \/ HandleMessage(p)
      BY <1>10 DEF Receive
    <2>2. p.from \in Node /\ p.to \in Node /\ (p.type = "message" => p.source \in Node)
      BY <1>2, PacketFields
    <2>3. CASE HandleOther(p)
      BY <1>2, <2>3 DEF HandleOther, app, sync, conns
    <2>4. CASE HandleMessage(p)
      BY <1>2, <2>2, <2>4 DEF HandleMessage, Hold, CustomValidation, sync, conns
    <2> QED
      BY <2>1, <2>3, <2>4
  <1>11. ASSUME NEW n \in Node, Validation(n) PROVE Tasks /\ Queue /\ Sync /\ Conns
    BY <1>2, <1>11 DEF Validation, Validate, sync, conns
  <1>12. ASSUME NEW n \in Node, Publish(n) \/ \E m \in Node : Heartbeat(n, m)
         PROVE  Tasks /\ Queue /\ Sync /\ Conns
    BY <1>2, <1>12 DEF Publish, Heartbeat, app, sync, conns
  <1>13. ASSUME NEW d \in dialled, Connect(d) PROVE Tasks /\ Queue /\ Sync /\ Conns
    BY <1>2, <1>13 DEF Connect, app, sync, conns
  <1>14. CASE Next
    <2>1. Tasks /\ Queue /\ Sync /\ Conns
      BY <1>4, <1>5, <1>6, <1>7, <1>8, <1>9, <1>10, <1>11, <1>12, <1>13, <1>14
         DEF Next, Setup
    <2> QED
      BY <1>1, <2>1 DEF Types
  <1> QED
    BY <1>3, <1>14

----------------------------------------------------------------------------
(* The dials, the messages held, the tasks *)

LEMMA ListeningStep ==
  ASSUME Types, PhaseOfPC, ListeningInv, [Next]_vars
  PROVE  ListeningInv'
  <1>0. /\ pc \in [Node -> PC] /\ phase \in [Node -> 0..3]
        /\ \A m \in Node : Fits(pc[m], phase[m])
        /\ \A m \in Node : phase[m] >= 1 /\ pc[m] # "listen" => m \in listening
    BY DEF Types, PhaseOfPC, ListeningInv
  <1>1. ASSUME NEW n \in Node, NEW p, pc' = [pc EXCEPT ![n] = p],
               phase' = phase, listening \subseteq listening',
               phase[n] = 0 \/ n \in listening'
        PROVE  ListeningInv'
    BY <1>0, <1>1 DEF ListeningInv
  <1>2. CASE listening' = listening /\ pc' = pc /\ phase' = phase
    BY <1>0, <1>2 DEF ListeningInv
  <1>3. ASSUME NEW n \in Node, PublishInfo(n) \/ Collect(n) PROVE ListeningInv'
    <2>1. phase[n] = 0
      BY <1>0, <1>3 DEF PublishInfo, Collect, Fits
    <2> QED
      BY <1>1, <1>3, <2>1 DEF PublishInfo, Collect, conns
  <1>4. ASSUME NEW n \in Node,
               Signal(n) \/ Dial(n) \/ Subscribe(n) \/ Deadline(n)
        PROVE ListeningInv'
    <2>1. /\ phase[n] = 0 \/ n \in listening
          /\ listening' = listening /\ phase' = phase
      BY <1>0, <1>4 DEF Signal, Dial, Subscribe, Deadline, Running, conns
    <2>2. PICK p : pc' = [pc EXCEPT ![n] = p]
      BY <1>4 DEF Signal, Dial, Subscribe, Deadline
    <2> QED
      BY <1>1, <2>1, <2>2
  <1>5. ASSUME NEW n \in Node, PassBarrier(n) PROVE ListeningInv'
    <2>1. /\ phase[n] \in 0..2 /\ pc[n] = "barrier"
          /\ phase' = [phase EXCEPT ![n] = @ + 1] /\ listening' = listening
          /\ pc' = [pc EXCEPT ![n] = AfterBarrier[phase[n] + 1]]
      BY <1>0, <1>5 DEF PassBarrier, Fits, conns
    <2>2. CASE phase[n] = 0
      <3>1. phase[n] + 1 = 1
        BY <2>2
      <3>2. AfterBarrier[phase[n] + 1] = "listen"
        BY <3>1, AfterBarrierValues, Zenon
      <3> QED
        BY <1>0, <2>1, <3>2 DEF ListeningInv
    <2>3. CASE phase[n] >= 1
      <3>1. n \in listening
        BY <1>0, <2>1, <2>3
      <3> QED
        BY <1>0, <2>1, <3>1 DEF ListeningInv
    <2> QED
      BY <2>1, <2>2, <2>3
  <1>6. ASSUME NEW n \in Node, Listen(n) PROVE ListeningInv'
    BY <1>0, <1>6 DEF Listen, ListeningInv
  <1>7. ASSUME NEW n \in Node, Drain(n) PROVE ListeningInv'
    <2>1. phase[n] = 0 \/ n \in listening
      BY <1>0, <1>7 DEF Drain
    <2>2. /\ listening' = listening /\ phase' = phase
          /\ pc' = pc \/ pc' = [pc EXCEPT ![n] = "done"]
      BY <1>7 DEF Drain, conns
    <2> QED
      BY <1>1, <1>2, <2>1, <2>2
  <1>8. ASSUME NEW n \in Node, Receive(n) \/ Validation(n) PROVE ListeningInv'
    BY <1>2, <1>8
       DEF Receive, Validation, HandleOther, HandleMessage, Validate, app, conns
  <1>9. ASSUME NEW n \in Node,
               \/ Publish(n) \/ MetricsTick(n) \/ TaskEnds(n) \/ RemoveHandle(n)
               \/ \E m \in Node : Heartbeat(n, m)
        PROVE  ListeningInv'
    BY <1>2, <1>9 DEF Publish, MetricsTick, TaskEnds, RemoveHandle, Heartbeat, app, conns
  <1>10. ASSUME NEW d \in dialled, Connect(d) PROVE ListeningInv'
    BY <1>2, <1>10 DEF Connect, app, conns
  <1>11. CASE UNCHANGED vars
    BY <1>2, <1>11 DEF vars, app, conns
  <1> QED
    BY <1>3, <1>4, <1>5, <1>6, <1>7, <1>8, <1>9, <1>10, <1>11 DEF Next, Setup

\* A node that dials is through the second wait, which all others have come to
\* with their sockets bound.
LEMMA DialsStep ==
  ASSUME Types, PhaseOfPC, LockstepInv, ListeningInv, NoDialRefused, [Next]_vars
  PROVE  NoDialRefused'
  <1>1. ASSUME NEW n \in Node, Dial(n) PROVE NoDialRefused'
    <2>1. phase[n] = 2
      BY <1>1 DEF Dial, PhaseOfPC, Fits
    <2>2. ASSUME NEW m \in Node PROVE m \in listening
      <3>1. Least(phase[n], 2) = 2
        BY <2>1 DEF Least
      <3>2. 2 <= Arrived(m) /\ phase[m] \in 0..3
        BY <3>1 DEF LockstepInv, Types
      <3>3. phase[m] >= 1 /\ (phase[m] = 1 => pc[m] = "barrier")
        BY <3>2 DEF Arrived
      <3>4. pc[m] # "listen"
        BY <3>3 DEF PhaseOfPC, Fits
      <3> QED
        BY <3>3, <3>4 DEF ListeningInv
    <2>3. Outbound[n] \subseteq Node
      BY OutboundAssumption
    <2> QED
      BY <1>1, <2>2, <2>3 DEF Dial, NoDialRefused
  <1>2. CASE refused' = refused
    BY <1>2 DEF NoDialRefused
  <1>3. ASSUME NEW n \in Node,
               \/ PublishInfo(n) \/ Collect(n) \/ Signal(n) \/ PassBarrier(n) \/ Listen(n)
               \/ Subscribe(n) \/ Drain(n) \/ Deadline(n)
        PROVE  refused' = refused
    BY <1>3 DEF PublishInfo, Collect, Signal, PassBarrier, Listen, Subscribe, Drain,
                Deadline, conns
  <1>4. ASSUME NEW n \in Node,
               \/ Receive(n) \/ Validation(n) \/ Publish(n) \/ MetricsTick(n)
               \/ TaskEnds(n) \/ RemoveHandle(n) \/ \E m \in Node : Heartbeat(n, m)
        PROVE  refused' = refused
    BY <1>4 DEF Receive, Validation, HandleOther, HandleMessage, Validate, Publish,
                MetricsTick, TaskEnds, RemoveHandle, Heartbeat, conns
  <1>5. ASSUME NEW d \in dialled, Connect(d) PROVE refused' = refused
    BY <1>5 DEF Connect, conns
  <1> QED
    BY <1>1, <1>2, <1>3, <1>4, <1>5 DEF Next, Setup, vars, conns

\* One more pair adds its first component.
LEMMA FirstsOfUnion ==
  ASSUME NEW A, NEW e
  PROVE  {x[1] : x \in A \cup {e}} = {x[1] : x \in A} \cup {e[1]}
  <1>1. ASSUME NEW v PROVE v \in {x[1] : x \in A \cup {e}} <=> v \in {x[1] : x \in A} \cup {e[1]}
    OBVIOUS
  <1> QED
    BY <1>1

LEMMA HeldStep ==
  ASSUME Types, HeldInv, [Next]_vars
  PROVE  HeldInv'
  <1>0. /\ toValidate \in [Node -> SUBSET (Node \X Node)]
        /\ seen \in [Node -> SUBSET Node] /\ unvalidated \in [Node -> SUBSET Node]
        /\ inflight \subseteq Packet
        /\ \A n \in Node : HeldBy(n)
    BY DEF Types, GossipsubTypeOK, HeldInv
  <1>1. ASSUME toValidate' = toValidate, unvalidated' = unvalidated,
               \A n \in Node : seen[n] \subseteq seen'[n]
        PROVE  HeldInv'
    BY <1>0, <1>1 DEF HeldInv, HeldBy
  <1>2. ASSUME NEW p \in inflight, HandleMessage(p) PROVE HeldInv'
    <2> DEFINE n == p.to
               s == p.source
    <2>1. /\ n \in Node /\ s \in Node /\ p.from \in Node /\ s \notin seen[n]
          /\ toValidate' = [toValidate EXCEPT ![n] = @ \cup {<<s, p.from>>}]
          /\ unvalidated' = [unvalidated EXCEPT ![n] = @ \cup {s}]
          /\ seen' = [seen EXCEPT ![n] = @ \cup {s}]
      BY <1>0, <1>2, PacketFields DEF HandleMessage, Hold, CustomValidation
    <2> HIDE DEF n, s
    <2>2. HeldBy(n)'
      <3>1. /\ toValidate'[n] = toValidate[n] \cup {<<s, p.from>>}
            /\ unvalidated'[n] = unvalidated[n] \cup {s}
            /\ seen'[n] = seen[n] \cup {s}
        BY <1>0, <2>1
      <3>2. /\ unvalidated[n] = {x[1] : x \in toValidate[n]}
            /\ \A x, y \in toValidate[n] : x[1] = y[1] => x = y
            /\ unvalidated[n] \subseteq seen[n]
        BY <1>0, <2>1 DEF HeldBy
      <3>3. \A x \in toValidate[n] : x[1] # s
        BY <2>1, <3>2
      <3>4. <<s, p.from>>[1] = s
        OBVIOUS
      <3>5. unvalidated'[n] = {x[1] : x \in toValidate'[n]}
        <4>1. {x[1] : x \in toValidate[n] \cup {<<s, p.from>>}}
                = {x[1] : x \in toValidate[n]} \cup {<<s, p.from>>[1]}
          BY FirstsOfUnion
        <4> QED
          BY <3>1, <3>2, <3>4, <4>1
      <3>6. \A x, y \in toValidate'[n] : x[1] = y[1] => x = y
        BY <3>1, <3>2, <3>3, <3>4
      <3>7. unvalidated'[n] \subseteq seen'[n]
        BY <3>1, <3>2
      <3> QED
        BY <3>5, <3>6, <3>7 DEF HeldBy
    <2>3. ASSUME NEW m \in Node, m # n PROVE HeldBy(m)'
      <3>1. /\ toValidate'[m] = toValidate[m] /\ unvalidated'[m] = unvalidated[m]
            /\ seen'[m] = seen[m]
        BY <1>0, <2>1, <2>3
      <3> QED
        BY <1>0, <3>1 DEF HeldBy
    <2> QED
      BY <2>2, <2>3 DEF HeldInv
  <1>3. ASSUME NEW n \in Node, NEW x \in toValidate[n], Validate(n, x) PROVE HeldInv'
    <2>1. /\ toValidate' = [toValidate EXCEPT ![n] = @ \ {x}]
          /\ unvalidated' = [unvalidated EXCEPT ![n] = @ \ {x[1]}]
          /\ seen' = seen
      BY <1>3 DEF Validate, ReportAccept
    <2>2. HeldBy(n)'
      <3>1. /\ toValidate'[n] = toValidate[n] \ {x}
            /\ unvalidated'[n] = unvalidated[n] \ {x[1]}
        BY <1>0, <2>1
      <3>2. /\ unvalidated[n] = {y[1] : y \in toValidate[n]}
            /\ \A y, z \in toValidate[n] : y[1] = z[1] => y = z
            /\ unvalidated[n] \subseteq seen[n]
        BY <1>0 DEF HeldBy
      <3>3. unvalidated'[n] = {y[1] : y \in toValidate'[n]}
        BY <3>1, <3>2
      <3>4. \A y, z \in toValidate'[n] : y[1] = z[1] => y = z
        BY <3>1, <3>2
      <3> QED
        BY <2>1, <3>1, <3>2, <3>3, <3>4 DEF HeldBy
    <2>3. ASSUME NEW m \in Node, m # n PROVE HeldBy(m)'
      <3>1. /\ toValidate'[m] = toValidate[m] /\ unvalidated'[m] = unvalidated[m]
            /\ seen'[m] = seen[m]
        BY <1>0, <2>1, <2>3
      <3> QED
        BY <1>0, <3>1 DEF HeldBy
    <2> QED
      BY <2>2, <2>3 DEF HeldInv
  <1>4. ASSUME NEW n \in Node, Setup(n) PROVE HeldInv'
    <2>1. CASE PublishInfo(n) \/ Collect(n) \/ Signal(n) \/ PassBarrier(n)
      BY <1>1, <2>1 DEF PublishInfo, Collect, Signal, PassBarrier, gossipsub
    <2>2. CASE Listen(n) \/ Dial(n) \/ Subscribe(n) \/ Drain(n)
      BY <1>1, <2>2 DEF Listen, Dial, Subscribe, Drain, gossipsub
    <2> QED
      BY <1>4, <2>1, <2>2 DEF Setup
  <1>5. ASSUME NEW n \in Node,
               MetricsTick(n) \/ TaskEnds(n) \/ RemoveHandle(n) \/ Deadline(n)
        PROVE  HeldInv'
    BY <1>1, <1>5 DEF MetricsTick, TaskEnds, RemoveHandle, Deadline, gossipsub
  <1>6. ASSUME NEW p \in inflight, HandleOther(p) PROVE HeldInv'
    BY <1>1, <1>6 DEF HandleOther, LearnSubscription, DropSeen, app
  <1>7. ASSUME NEW n \in Node, Publish(n) PROVE HeldInv'
    <2>1. \A m \in Node : seen[m] \subseteq seen'[m]
      BY <1>0, <1>7 DEF Publish, Flood
    <2> QED
      BY <1>1, <1>7, <2>1 DEF Publish, Flood, app
  <1>8. ASSUME NEW n \in Node, NEW m \in Node, Heartbeat(n, m) PROVE HeldInv'
    BY <1>1, <1>8 DEF Heartbeat, Gossip, app
  <1>9. ASSUME NEW d \in dialled, Connect(d) PROVE HeldInv'
    BY <1>1, <1>9 DEF Connect, Establish, app
  <1>10. CASE UNCHANGED vars
    BY <1>1, <1>10 DEF vars, app, gossipsub
  <1> QED
    BY <1>2, <1>3, <1>4, <1>5, <1>6, <1>7, <1>8, <1>9, <1>10
       DEF Next, Receive, Validation

LEMMA HandlesStep ==
  ASSUME Types, PhaseOfPC, HandlesInv, [Next]_vars
  PROVE  HandlesInv'
  <1>0. /\ pc \in [Node -> PC] /\ phase \in [Node -> 0..3]
        /\ running \in [Node -> Nat] /\ finished \in [Node -> Nat]
        /\ \A n \in Node : Fits(pc[n], phase[n]) /\ HandlesBy(n)
    BY DEF Types, PhaseOfPC, HandlesInv
  <1>1. ASSUME NEW n \in Node, HandlesBy(n)',
               \A m \in Node \ {n} : /\ pc'[m] = pc[m] /\ phase'[m] = phase[m]
                                      /\ running'[m] = running[m]
                                      /\ finished'[m] = finished[m]
        PROVE  HandlesInv'
    <2>1. ASSUME NEW m \in Node \ {n} PROVE HandlesBy(m)'
      BY <1>0, <1>1 DEF HandlesBy
    <2> QED
      BY <1>1, <2>1 DEF HandlesInv
  <1>2. CASE UNCHANGED <<pc, phase, running, finished>>
    BY <1>0, <1>2 DEF HandlesInv, HandlesBy
  <1>3. ASSUME NEW n \in Node,
               \/ PublishInfo(n) \/ Collect(n) \/ Signal(n) \/ Listen(n) \/ Dial(n)
        PROVE  HandlesInv'
    <2>1. PICK p : pc' = [pc EXCEPT ![n] = p] /\ p \notin {"subscribe", "done"}
      BY <1>3 DEF PublishInfo, Collect, Signal, Listen, Dial
    <2>2. phase' = phase /\ running' = running /\ finished' = finished
      BY <1>3 DEF PublishInfo, Collect, Signal, Listen, Dial
    <2>3. HandlesBy(n)'
      BY <1>0, <2>1, <2>2 DEF HandlesBy
    <2> QED
      BY <1>0, <1>1, <2>1, <2>2, <2>3
  <1>4. ASSUME NEW n \in Node, PassBarrier(n) PROVE HandlesInv'
    <2>1. /\ pc[n] = "barrier" /\ phase[n] \in 0..2
          /\ pc' = [pc EXCEPT ![n] = AfterBarrier[phase[n] + 1]]
          /\ phase' = [phase EXCEPT ![n] = @ + 1]
          /\ running' = running /\ finished' = finished
      BY <1>0, <1>4 DEF PassBarrier, Fits
    <2>2. running[n] = 0 /\ finished[n] = 0
      BY <1>0, <2>1 DEF HandlesBy
    <2>3. HandlesBy(n)'
      BY <1>0, <2>1, <2>2, HandlesAssumption DEF HandlesBy
    <2> QED
      BY <1>0, <1>1, <2>1, <2>3
  <1>5. ASSUME NEW n \in Node, Subscribe(n) PROVE HandlesInv'
    <2>1. running[n] = 0 /\ finished[n] = 0 /\ phase[n] = 3
      BY <1>0, <1>5 DEF Subscribe, HandlesBy, Fits
    <2>2. HandlesBy(n)'
      BY <1>0, <1>5, <2>1, HandlesAssumption DEF Subscribe, HandlesBy
    <2> QED
      BY <1>0, <1>1, <1>5, <2>2 DEF Subscribe
  <1>6. ASSUME NEW n \in Node, Deadline(n) PROVE HandlesInv'
    <2>1. phase[n] = 3
      BY <1>0, <1>6 DEF Deadline, Running, Fits
    <2>2. HandlesBy(n)'
      BY <1>0, <1>6, <2>1 DEF Deadline, Running, HandlesBy
    <2> QED
      BY <1>0, <1>1, <1>6, <2>2 DEF Deadline
  <1>7. ASSUME NEW n \in Node, Drain(n) PROVE HandlesInv'
    <2>1. phase[n] = 3
      BY <1>0, <1>7 DEF Drain, Fits
    <2>2. CASE finished[n] > 0
      <3>1. /\ finished' = [finished EXCEPT ![n] = @ - 1]
            /\ pc' = pc /\ phase' = phase /\ running' = running
        BY <1>7, <2>2 DEF Drain
      <3>2. HandlesBy(n)'
        BY <1>0, <1>7, <2>1, <2>2, <3>1, HandlesAssumption DEF Drain, HandlesBy
      <3> QED
        BY <1>0, <1>1, <3>1, <3>2
    <2>3. CASE ~(finished[n] > 0)
      <3>1. /\ finished' = finished /\ running[n] = 0
            /\ pc' = [pc EXCEPT ![n] = "done"] /\ phase' = phase /\ running' = running
        BY <1>7, <2>3 DEF Drain
      <3>2. HandlesBy(n)'
        BY <1>0, <2>1, <3>1 DEF HandlesBy
      <3> QED
        BY <1>0, <1>1, <3>1, <3>2
    <2> QED
      BY <2>2, <2>3
  <1>8. ASSUME NEW n \in Node, MetricsTick(n) \/ RemoveHandle(n) PROVE HandlesInv'
    <2>1. phase[n] = 3
      BY <1>0, <1>8 DEF MetricsTick, RemoveHandle, Running, Fits
    <2>2. HandlesBy(n)'
      <3>1. CASE MetricsTick(n)
        BY <1>0, <2>1, <3>1, HandlesAssumption DEF MetricsTick, Running, HandlesBy
      <3>2. CASE RemoveHandle(n)
        BY <1>0, <2>1, <3>2, HandlesAssumption DEF RemoveHandle, Running, HandlesBy
      <3> QED
        BY <1>8, <3>1, <3>2
    <2> QED
      BY <1>0, <1>1, <1>8, <2>2 DEF MetricsTick, RemoveHandle
  <1>9. ASSUME NEW n \in Node, TaskEnds(n) PROVE HandlesInv'
    <2>1. phase[n] = 3 /\ pc[n] # "subscribe"
      BY <1>0, <1>9 DEF TaskEnds, HandlesBy
    <2>2. HandlesBy(n)'
      BY <1>0, <1>9, <2>1 DEF TaskEnds, HandlesBy
    <2> QED
      BY <1>0, <1>1, <1>9, <2>2 DEF TaskEnds
  <1>10. ASSUME NEW n \in Node, Receive(n) \/ Validation(n) PROVE HandlesInv'
    BY <1>2, <1>10 DEF Receive, Validation, HandleOther, HandleMessage, Validate, app
  <1>11. ASSUME NEW n \in Node, Publish(n) \/ \E m \in Node : Heartbeat(n, m)
         PROVE  HandlesInv'
    BY <1>2, <1>11 DEF Publish, Heartbeat, app
  <1>12. ASSUME NEW d \in dialled, Connect(d) PROVE HandlesInv'
    BY <1>2, <1>12 DEF Connect, app
  <1>13. CASE UNCHANGED vars
    BY <1>2, <1>13 DEF vars, app
  <1> QED
    BY <1>3, <1>4, <1>5, <1>6, <1>7, <1>8, <1>9, <1>10, <1>11, <1>12, <1>13
       DEF Next, Setup

----------------------------------------------------------------------------
(* The theorems *)

LEMMA InitPlaces ==
  ASSUME Init
  PROVE  \A n \in Node : pc[n] = "publish_info" /\ phase[n] = 0
  BY DEF Init

LEMMA InitIInv == Init => IInv
  <1> SUFFICES ASSUME Init PROVE IInv
    OBVIOUS
  <1>0. \A n \in Node : pc[n] = "publish_info" /\ phase[n] = 0
    BY InitPlaces
  <1>1. Types
    <2>1. GossipsubTypeOK
      BY DEF Init, GossipsubInit, GossipsubTypeOK
    <2>2. pc \in [Node -> PC]
      BY DEF Init, PC
    <2>3. phase \in [Node -> 0..3]
      BY DEF Init
    <2>4. running \in [Node -> Nat] /\ finished \in [Node -> Nat]
      BY DEF Init
    <2>5. /\ toValidate \in [Node -> SUBSET (Node \X Node)]
          /\ infos \subseteq Node /\ counter \in [BarrierStates -> Nat]
          /\ listening \subseteq Node /\ dialled \subseteq Node \X Node
          /\ refused \subseteq dialled
      BY DEF Init
    <2> QED
      BY <2>1, <2>2, <2>3, <2>4, <2>5 DEF Types
  <1>2. PhaseOfPC
    <2>1. Fits("publish_info", 0)
      BY DEF Fits
    <2> QED
      BY <1>0, <2>1 DEF PhaseOfPC
  <1>3. CountersExact
    <2>1. AtBarrier(1) = {} /\ AtBarrier(2) = {} /\ AtBarrier(3) = {}
      BY <1>0 DEF AtBarrier, Arrived
    <2>2. counter["Topology generated"] = 0 /\ counter["Started libp2p"] = 0
      BY DEF Init, BarrierStates
    <2>3. Cardinality({}) = 0
      BY FS_EmptySet
    <2>4. /\ Cardinality(AtBarrier(1)) = 0
          /\ Cardinality(AtBarrier(2)) = 0
          /\ Cardinality(AtBarrier(3)) = 0
          /\ 0 = 0 + 0
      BY <2>1, <2>3
    <2> QED
      BY <2>2, <2>4, Zenon DEF CountersExact
  <1>4. LockstepInv
    BY <1>0 DEF LockstepInv, Arrived, Least
  <1>5. ListeningInv
    BY <1>0 DEF ListeningInv
  <1>6. NoDialRefused
    BY DEF Init, NoDialRefused
  <1>7. HeldInv
    BY DEF Init, GossipsubInit, HeldInv, HeldBy
  <1>8. HandlesInv
    <2>1. \A n \in Node : running[n] = 0 /\ finished[n] = 0
      BY DEF Init
    <2> QED
      BY <2>1, HandlesAssumption DEF HandlesInv, HandlesBy
  <1> QED
    BY <1>1, <1>2, <1>3, <1>4, <1>5, <1>6, <1>7, <1>8 DEF IInv

LEMMA Twice == ASSUME NEW a \in 0..N, NEW b \in 0..N PROVE a + b \in 0 .. 2 * N /\ a \in 0 .. 2 * N
  BY Counts

LEMMA StepIInv == IInv /\ [Next]_vars => IInv'
  BY TypesStep, PhaseStep, CountersStep, LockstepStep, ListeningStep, DialsStep,
     HeldStep, HandlesStep DEF IInv

\* The inductive invariant: the state of the waits tells where every node may be,
\* and gossipsub's cache what the plan has queued.
THEOREM Invariance == Spec => []IInv
  BY InitIInv, StepIInv, PTL DEF Spec

LEMMA IInvTypeOK == IInv => TypeOK
  <1> SUFFICES ASSUME IInv PROVE TypeOK
    OBVIOUS
  <1>1. \A b \in {1, 2, 3} : Cardinality(AtBarrier(b)) \in 0..N
    <2> TAKE b \in {1, 2, 3}
    <2>1. AtBarrier(b) \subseteq Node
      BY DEF AtBarrier
    <2> QED
      BY <2>1, Counts, NodeAssumption, FS_Subset, FS_CardinalityType DEF N
  <1>2. counter["Topology generated"] \in 0 .. 2 * N /\ counter["Started libp2p"] \in 0 .. 2 * N
    <2>1. /\ Cardinality(AtBarrier(1)) + Cardinality(AtBarrier(3)) \in 0 .. 2 * N
          /\ Cardinality(AtBarrier(2)) \in 0 .. 2 * N
      BY <1>1, Twice
    <2>2. /\ counter["Topology generated"]
              = Cardinality(AtBarrier(1)) + Cardinality(AtBarrier(3))
          /\ counter["Started libp2p"] = Cardinality(AtBarrier(2))
      BY DEF IInv, CountersExact
    <2> QED
      BY <2>1, <2>2, Zenon
  <1>3. counter \in [BarrierStates -> 0 .. 2 * N]
    BY <1>2 DEF IInv, Types, BarrierStates
  <1>4. running \in [Node -> 0..MaxHandles] /\ finished \in [Node -> 0..MaxHandles]
    BY HandlesAssumption DEF IInv, Types, HandlesInv, HandlesBy
  <1> QED
    BY <1>3, <1>4 DEF IInv, Types, TypeOK

\* Every variable keeps its type: the state that two waits share is signalled
\* twice by each node at most, and influx_db_handles keeps its bound.
THEOREM TypeCorrect == Spec => []TypeOK
  BY Invariance, IInvTypeOK, PTL

\* For any topology and any number of nodes no dial of dial_peers is refused:
\* the wait between start_libp2p and dial_peers, the only one with a state of its
\* own, has seen every socket bound.
THEOREM DialsAccepted == Spec => []NoDialRefused
  <1>1. IInv => NoDialRefused
    BY DEF IInv
  <1> QED
    BY <1>1, Invariance, PTL

LEMMA HeldCardinality ==
  ASSUME IInv, NEW n \in Node
  PROVE  /\ unvalidated[n] = {x[1] : x \in toValidate[n]}
         /\ Cardinality(unvalidated[n]) = Cardinality(toValidate[n])
  <1> DEFINE S == toValidate[n]
             T == unvalidated[n]
             f == [x \in S |-> x[1]]
  <1>1. /\ T = {x[1] : x \in S}
        /\ \A x, y \in S : x[1] = y[1] => x = y
    BY DEF IInv, HeldInv, HeldBy
  <1>2. IsFiniteSet(S)
    <2>1. S \subseteq Node \X Node
      BY DEF IInv, Types
    <2> QED
      BY <2>1, NodeAssumption, FS_Product, FS_Subset
  <1>3. f \in Bijection(S, T)
    BY <1>1 DEF Bijection, Injection, Surjection, IsInjective
  <1>4. ExistsBijection(S, T)
    BY <1>3 DEF ExistsBijection
  <1>5. Cardinality(T) = Cardinality(S)
    BY <1>2, <1>4, FS_Bijection
  <1> QED
    BY <1>1, <1>5

\* Each message that gossipsub holds for a node is queued by custom_validation,
\* once: a message is new to the duplicate cache when it is queued, and it leaves
\* the queue when it is reported on.
THEOREM HeldQueued == Spec => []HeldIsQueued
  <1>1. IInv => HeldIsQueued
    BY HeldCardinality DEF HeldIsQueued
  <1> QED
    BY <1>1, Invariance, PTL

\* A node that records success has no task left that the end of main() would
\* cut off, however many metrics ticks there were.
THEOREM TasksFinish == Spec => []NoTaskCutOff
  <1>1. IInv => NoTaskCutOff
    BY DEF IInv, HandlesInv, HandlesBy, NoTaskCutOff
  <1> QED
    BY <1>1, Invariance, PTL

\* The first two waits are barriers for any number of nodes, although the state
\* of the first is signalled again by the third: each step of the plan is an
\* arrival, a passage or no step of two rounds of BarrierRounds.
THEOREM BarriersRefined == Spec => ImplementsBarriers
  <1>1. Init => Rounds!Init
    <2> SUFFICES ASSUME Init PROVE Rounds!Init
      OBVIOUS
    <2>1. \A n \in Node : Least(Arrived(n), 2) = 0 /\ Least(phase[n], 2) = 0
      BY InitPlaces DEF Arrived, Least
    <2> QED
      BY <2>1 DEF Rounds!Init
  <1>2. IInv /\ [Next]_vars => [Rounds!Next]_(Rounds!vars)
    <2> SUFFICES ASSUME IInv, [Next]_vars PROVE [Rounds!Next]_(Rounds!vars)
      OBVIOUS
    <2>0. /\ Types /\ PhaseOfPC /\ CountersExact /\ LockstepInv
          /\ pc \in [Node -> PC] /\ phase \in [Node -> 0..3]
      BY DEF IInv, Types
    <2>1. ASSUME NEW n \in Node, Signal(n) PROVE [Rounds!Next]_(Rounds!vars)
      <3>1. phase[n] \in 0..2
        BY <2>0, <2>1 DEF Signal, PhaseOfPC, Fits
      <3>2. pc[n] = "signal" /\ phase' = phase /\ pc' = [pc EXCEPT ![n] = "barrier"]
        BY <2>1 DEF Signal
      <3>3. \A m \in Node : Arrived(m)' = IF m = n THEN phase[n] + 1 ELSE Arrived(m)
        BY <2>0, <3>2 DEF Arrived
      <3>4. Arrived(n) = phase[n]
        BY <3>2, <2>0 DEF Arrived
      <3>5. CASE phase[n] = 2
        <4>1. \A m \in Node : Least(Arrived(m), 2)' = Least(Arrived(m), 2)
          BY <3>3, <3>4, <3>5 DEF Least
        <4> QED
          BY <3>2, <4>1 DEF Rounds!vars, Least
      <3>6. CASE phase[n] \in 0..1
        <4>1. /\ Least(Arrived(n), 2) = phase[n] /\ Least(phase[n], 2) = phase[n]
              /\ phase[n] < 2
          BY <3>4, <3>6 DEF Least
        <4>2. \A m \in Node : Least(Arrived(m)', 2)
                               = IF m = n THEN phase[n] + 1 ELSE Least(Arrived(m), 2)
          BY <3>3, <3>6 DEF Least
        <4>3. Rounds!Arrive(n)
          BY <3>2, <4>1, <4>2 DEF Rounds!Arrive, Least
        <4> QED
          BY <4>3 DEF Rounds!Next
      <3> QED
        BY <3>1, <3>5, <3>6
    <2>2. ASSUME NEW n \in Node, PassBarrier(n) PROVE [Rounds!Next]_(Rounds!vars)
      <3>1. phase[n] \in 0..2 /\ pc[n] = "barrier"
        BY <2>0, <2>2 DEF PassBarrier, PhaseOfPC, Fits
      <3>2. phase' = [phase EXCEPT ![n] = @ + 1] /\ counter[BarrierState[phase[n] + 1]] >= N
        BY <2>2 DEF PassBarrier
      <3>3. \A m \in Node : Arrived(m)' = Arrived(m)
        BY <2>0, <2>2, PassKeepsArrived
      <3>4. Arrived(n) = phase[n] + 1
        BY <3>1 DEF Arrived
      <3>5. CASE phase[n] = 2
        <4>1. \A m \in Node : Least(phase'[m], 2) = Least(phase[m], 2)
          BY <2>0, <3>2, <3>5 DEF Least
        <4> QED
          BY <3>3, <4>1 DEF Rounds!vars, Least
      <3>6. CASE phase[n] \in 0..1
        <4>1. phase[n] + 1 \in {1, 2}
          BY <3>6
        <4>2. \A m \in Node : Arrived(m) >= phase[n] + 1 /\ Arrived(m) \in 0..3
          BY <2>0, <3>2, <4>1, FullBarrier, ArrivedType
        <4>3. /\ Least(phase[n], 2) = phase[n] /\ Least(Arrived(n), 2) = phase[n] + 1
              /\ phase[n] < phase[n] + 1
          BY <3>4, <3>6 DEF Least
        <4>4. \A m \in Node : Least(Arrived(m), 2) >= phase[n] + 1
          BY <3>6, <4>2 DEF Least
        <4>5. \A m \in Node : Least(phase'[m], 2)
                               = IF m = n THEN phase[n] + 1 ELSE Least(phase[m], 2)
          BY <2>0, <3>2, <3>6 DEF Least
        <4>6. Rounds!Pass(n)
          BY <3>3, <4>3, <4>4, <4>5 DEF Rounds!Pass, Least
        <4> QED
          BY <4>6 DEF Rounds!Next
      <3> QED
        BY <3>1, <3>5, <3>6
    <2>3. CASE /\ phase' = phase /\ counter' = counter
               /\ pc' = pc \/ \E n \in Node : \E p \in PC : Move(n, p)
      <3>1. \A m \in Node : Arrived(m)' = Arrived(m)
        BY <2>0, <2>3 DEF Move, Arrived
      <3> QED
        BY <2>3, <3>1 DEF Rounds!vars, Least
    <2> QED
      BY <2>0, <2>1, <2>2, <2>3, Steps
  <1> QED
    BY <1>1, <1>2, Invariance, PTL DEF Spec, ImplementsBarriers

=============================================================================
