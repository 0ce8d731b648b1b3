-------------------------- MODULE CensoringProofs --------------------------
(***************************************************************************)
(* What is proved of Censoring for every number of publishers, lurkers and *)
(* attackers, and every length of the two sleeps.                          *)
(*                                                                         *)
(* The three roles wait in two ways at the same barriers, and are in       *)
(* lockstep (LockstepInv).  A command waits in the channel for as long as  *)
(* the network is busy, but behind the Subscribe that was sent before it   *)
(* (SubscribesFirst): what main() has sent says what the network may do.   *)
(***************************************************************************)
EXTENDS Censoring, FiniteSetTheorems, TLAPS

\* Barriers n has signalled.
Arrived(n) == phase[n] + (IF pc[n] = "barrier" THEN 1 ELSE 0)

AtBarrier(b) == {n \in Node : Arrived(n) >= b}

\* The types without the bounds.
BasicTypes ==
    /\ now \in Nat
    /\ pc \in [Node -> PC]
    /\ phase \in [Node -> 0..3]
    /\ wakeAt \in [Node -> Nat]
    /\ channel \in [Honest -> Seq(Command)]
    /\ subscribed \in [Honest -> BOOLEAN]
    /\ publishState \in [Honest -> {"Awaiting", "Started", "Stopped"}]
    /\ created \in [Honest -> Nat]
    /\ ticks \in [Honest -> Nat]
    /\ startedAt \in [Honest -> Nat]
    /\ infos \subseteq Node
    /\ counter \in [1..3 -> Nat]
    /\ listening \subseteq Node
    /\ dialled \subseteq Node \X Node
    /\ refused \subseteq dialled

\* The counters hold the numbers of instances that signalled them.
CountersExact == \A b \in 1..3 : counter[b] = Cardinality(AtBarrier(b))

\* Where the main() of n can be when k barriers are behind it.
Fits(n, place, k) ==
    /\ place \in {"publish_info", "collect", "listen"} => k = 0
    /\ place = "setup_discovery" => k = 0 /\ n \in Honest
    /\ place = "dial_victim" => k = 1 /\ n \in Attacker
    /\ place \in {"subscribe", "warmup"} => k = 1 /\ n \in Honest
    /\ place \in {"start_publishing", "publishing"} => k = 2 /\ n \in Honest
    /\ place \in {"signal", "barrier"} => k \in 0..2
    /\ place = "record_metrics" => k = 3 /\ n \in Honest
    /\ place = "done" => k = 3
    /\ place = "panicked" => k \in {0, 3}

PhaseOfPC == \A n \in Node : Fits(n, pc[n], phase[n])

\* Nobody is through a barrier that somebody has not signalled.
LockstepInv == \A n, m \in Node : phase[n] <= Arrived(m)

\* What n has behind it: listen_on; for an attacker the dial of the victim; for
\* an honest instance its request for a subscription.
Bound(n) == phase[n] >= 1 \/ pc[n] \in {"setup_discovery", "signal", "barrier", "panicked"}
HasDialled(n) == phase[n] >= 2 \/ (phase[n] = 1 /\ pc[n] # "dial_victim")
Asked(n) == phase[n] >= 2 \/ (phase[n] = 1 /\ pc[n] # "subscribe")
\* ... and the sleep of a publisher.
Started(n) == phase[n] >= 3 \/ (phase[n] = 2 /\ pc[n] # "start_publishing")

ListeningInv == \A n \in Node : Bound(n) => n \in listening

AttackersDialled == \A n \in Attacker : HasDialled(n) => <<n, Victim>> \in dialled

\* Until it is subscribed the network finds Subscribe at the head of its channel.
SubscribesFirst ==
    \A n \in Honest :
        /\ subscribed[n] \/ channel[n] = <<>> \/ Head(channel[n]) = "Subscribe"
        /\ publishState[n] # "Awaiting" => subscribed[n]
        /\ Asked(n) => subscribed[n] \/ channel[n] # <<>>

\* The other commands are sent, and obeyed, behind the second barrier.
CommandsInv ==
    \A n \in Honest :
        publishState[n] # "Awaiting" \/ (\E i \in DOMAIN channel[n] : channel[n][i] # "Subscribe")
            => phase[n] >= 2

Slept == {n \in Node : Asked(n)}
Ran == {n \in Node : Started(n)}

\* Time passes only in sleeps that have begun.
Budget == Warmup * Cardinality(Slept) + Run * Cardinality(Ran)

TimeInv == now <= Budget /\ \A n \in Node : wakeAt[n] <= Budget

\* One tick per interval since the interval was created, and one at its creation.
TicksInv ==
    \A n \in Honest :
        /\ created[n] <= now /\ startedAt[n] <= now
        /\ publishState[n] = "Awaiting" => ticks[n] = 0
        /\ ticks[n] <= now - created[n] + 1

IInv ==
    /\ BasicTypes
    /\ PhaseOfPC
    /\ CountersExact
    /\ LockstepInv
    /\ ListeningInv
    /\ VictimReached
    /\ AttackersDialled
    /\ SubscribesFirst
    /\ CommandsInv
    /\ TimeInv
    /\ TicksInv

----------------------------------------------------------------------------

LEMMA Counts == N \in Nat
  BY RolesAssumption, FS_CardinalityType DEF N

LEMMA Roles ==
  /\ Honest \subseteq Node /\ Attacker \subseteq Node /\ Publisher \subseteq Honest
  /\ Victim \in Honest
  /\ \A n \in Node : n \in Honest <=> n \notin Attacker
  BY RolesAssumption, VictimAssumption DEF Node, Honest

LEMMA BarriersValue == Barriers = 3
  BY DEF Barriers

\* All roles continue at a place that fits, and not at a barrier.
LEMMA AfterBarrierFits ==
  ASSUME NEW n \in Node, NEW k \in 0..2
  PROVE  /\ Fits(n, AfterBarrier(n, k + 1), k + 1)
         /\ AfterBarrier(n, k + 1) \in PC \ {"barrier"}
         /\ k + 1 = 1 /\ n \in Attacker => AfterBarrier(n, k + 1) = "dial_victim"
         /\ k + 1 = 1 /\ n \in Honest => AfterBarrier(n, k + 1) = "subscribe"
  <1> DEFINE p == AfterBarrier(n, k + 1)
  <1>1. k + 1 \in {1, 2, 3}
    OBVIOUS
  <1>2. n \in Honest <=> n \notin Attacker
    BY Roles
  <1>3. CASE n \in Attacker
    <2>0. p = <<"dial_victim", "signal", "done">>[k + 1]
      BY <1>3 DEF AfterBarrier
    <2> HIDE DEF p
    <2>1. /\ k + 1 = 1 => p = "dial_victim"
          /\ k + 1 = 2 => p = "signal"
          /\ k + 1 = 3 => p = "done"
      BY <2>0
    <2> QED
      BY <1>1, <1>2, <1>3, <2>1 DEF p, Fits, PC
  <1>4. CASE n \notin Attacker /\ n \in Publisher
    <2>0. p = <<"subscribe", "start_publishing", "record_metrics">>[k + 1]
      BY <1>4 DEF AfterBarrier
    <2> HIDE DEF p
    <2>1. /\ k + 1 = 1 => p = "subscribe"
          /\ k + 1 = 2 => p = "start_publishing"
          /\ k + 1 = 3 => p = "record_metrics"
      BY <2>0
    <2> QED
      BY <1>1, <1>2, <1>4, <2>1 DEF p, Fits, PC
  <1>5. CASE n \notin Attacker /\ n \notin Publisher
    <2>0. p = <<"subscribe", "signal", "record_metrics">>[k + 1]
      BY <1>5 DEF AfterBarrier
    <2> HIDE DEF p
    <2>1. /\ k + 1 = 1 => p = "subscribe"
          /\ k + 1 = 2 => p = "signal"
          /\ k + 1 = 3 => p = "record_metrics"
      BY <2>0
    <2> QED
      BY <1>1, <1>2, <1>5, <2>1 DEF p, Fits, PC
  <1> QED
    BY <1>3, <1>4, <1>5

LEMMA ArrivedType ==
  ASSUME BasicTypes, PhaseOfPC, NEW n \in Node
  PROVE  Arrived(n) \in 0..3 /\ phase[n] <= Arrived(n) /\ phase[n] \in 0..3
  <1>1. phase[n] \in 0..3
    BY DEF BasicTypes
  <1>2. pc[n] = "barrier" => phase[n] \in 0..2
    BY DEF PhaseOfPC, Fits
  <1> QED
    BY <1>1, <1>2 DEF Arrived

----------------------------------------------------------------------------
(* Where main() is *)

\* The steps of main() that are no step of a barrier.
Moves(n) ==
    \/ PublishInfo(n) \/ Collect(n) \/ Listen(n) \/ DialVictim(n) \/ SetupDiscovery(n)
    \/ SendSubscribe(n) \/ WarmupEnds(n) \/ SendStart(n) \/ SendStop(n) \/ RecordMetrics(n)

\* A move is within a phase, to a place that fits and is no barrier.
LEMMA MovePlaces ==
  ASSUME BasicTypes, PhaseOfPC, NEW n \in Node, Moves(n)
  PROVE  /\ pc[n] # "barrier"
         /\ \E p \in PC : /\ p # "barrier" /\ Fits(n, p, phase[n])
                          /\ pc' = [pc EXCEPT ![n] = p]
         /\ phase' = phase /\ counter' = counter
  <1>0. Fits(n, pc[n], phase[n])
    BY DEF PhaseOfPC
  <1> DEFINE Result(p) == /\ pc[n] # "barrier"
                          /\ p \in PC /\ p # "barrier" /\ Fits(n, p, phase[n])
                          /\ pc' = [pc EXCEPT ![n] = p]
                          /\ phase' = phase /\ counter' = counter
  <1> SUFFICES \E p : Result(p)
    OBVIOUS
  <1>1. CASE PublishInfo(n)
    <2>1. Result("collect")
      BY <1>0, <1>1 DEF PublishInfo, Goto, Fits, PC
    <2> QED
      BY <2>1
  <1>2. CASE Collect(n)
    <2>1. Result("listen")
      BY <1>0, <1>2 DEF Collect, Goto, Fits, PC, sync
    <2> QED
      BY <2>1
  <1>3. CASE Listen(n)
    <2>1. Result(IF n \in Honest THEN "setup_discovery" ELSE "signal")
      BY <1>0, <1>3 DEF Listen, Goto, Fits, PC, sync
    <2> QED
      BY <2>1
  <1>4. CASE DialVictim(n)
    <2>1. Result("signal")
      BY <1>0, <1>4 DEF DialVictim, Goto, Fits, PC, sync
    <2> QED
      BY <2>1
  <1>5. CASE SetupDiscovery(n)
    <2>1. Result("signal") \/ Result("panicked")
      BY <1>0, <1>5 DEF SetupDiscovery, Goto, Fits, PC, sync
    <2> QED
      BY <2>1
  <1>6. CASE SendSubscribe(n)
    <2>1. Result("warmup")
      BY <1>0, <1>6 DEF SendSubscribe, Goto, Fits, PC, sync
    <2> QED
      BY <2>1
  <1>7. CASE WarmupEnds(n)
    <2>1. Result("signal")
      BY <1>0, <1>7 DEF WarmupEnds, Goto, Fits, PC, sync
    <2> QED
      BY <2>1
  <1>8. CASE SendStart(n)
    <2>1. Result("publishing")
      BY <1>0, <1>8 DEF SendStart, Goto, Fits, PC, sync
    <2> QED
      BY <2>1
  <1>9. CASE SendStop(n)
    <2>1. Result("signal")
      BY <1>0, <1>9 DEF SendStop, Goto, Fits, PC, sync
    <2> QED
      BY <2>1
  <1>10. CASE RecordMetrics(n)
    <2>1. Result(IF Recordable(CensoringArms) THEN "done" ELSE "panicked")
      BY <1>0, <1>10 DEF RecordMetrics, Goto, Fits, PC, sync
    <2> QED
      BY <2>1
  <1> QED
    BY <1>1, <1>2, <1>3, <1>4, <1>5, <1>6, <1>7, <1>8, <1>9, <1>10 DEF Moves

\* main() does not move.
Quiet == UNCHANGED <<main, sync, conns>>

\* ... but the network task or the clock.
Elsewhere == (\E n \in Honest : Receive(n) \/ PublishTick(n)) \/ TimePasses \/ UNCHANGED vars

LEMMA Steps ==
  ASSUME [Next]_vars
  PROVE  Elsewhere \/ \E n \in Node : Signal(n) \/ PassBarrier(n) \/ Moves(n)
  <1>1. ASSUME NEW n \in Node, Main(n) PROVE Signal(n) \/ PassBarrier(n) \/ Moves(n)
    BY <1>1 DEF Main, Moves
  <1> QED
    BY <1>1 DEF Next, Elsewhere

LEMMA ElsewhereQuiet == Elsewhere => Quiet
  <1>1. ASSUME NEW n \in Honest, Receive(n) PROVE Quiet
    BY <1>1 DEF Receive, Quiet
  <1>2. ASSUME NEW n \in Honest, PublishTick(n) PROVE Quiet
    BY <1>2 DEF PublishTick, Quiet
  <1>3. CASE TimePasses
    BY <1>3 DEF TimePasses, Quiet
  <1>4. CASE UNCHANGED vars
    BY <1>4 DEF vars, Quiet
  <1> QED
    BY <1>1, <1>2, <1>3, <1>4 DEF Elsewhere

\* Every step leaves all but one instance where they are.
LEMMA PhaseStep ==
  ASSUME BasicTypes, PhaseOfPC, [Next]_vars
  PROVE  PhaseOfPC' /\ pc' \in [Node -> PC] /\ phase' \in [Node -> 0..3]
  <1> DEFINE Goal == PhaseOfPC' /\ pc' \in [Node -> PC] /\ phase' \in [Node -> 0..3]
  <1>0. /\ pc \in [Node -> PC] /\ phase \in [Node -> 0..3]
        /\ \A n \in Node : Fits(n, pc[n], phase[n])
    BY DEF PhaseOfPC, BasicTypes
  <1>1. ASSUME NEW n \in Node, NEW p \in PC, NEW k \in 0..3, Fits(n, p, k),
               pc' = [pc EXCEPT ![n] = p], phase' = [phase EXCEPT ![n] = k]
        PROVE  Goal
    <2>1. ASSUME NEW m \in Node PROVE Fits(m, pc'[m], phase'[m])
      <3>1. CASE m = n
        BY <1>0, <1>1, <3>1
      <3>2. CASE m # n
        BY <1>0, <1>1, <3>2
      <3> QED
        BY <3>1, <3>2
    <2>2. PhaseOfPC'
      BY <2>1 DEF PhaseOfPC, Fits
    <2> QED
      BY <1>0, <1>1, <2>2
  <1>2. ASSUME NEW n \in Node, Signal(n) PROVE Goal
    <2>1. Fits(n, "barrier", phase[n]) /\ "barrier" \in PC /\ phase[n] \in 0..3
      BY <1>0, <1>2 DEF Signal, Fits, PC
    <2>2. phase' = [phase EXCEPT ![n] = phase[n]]
      BY <1>0, <1>2 DEF Signal
    <2> QED
      BY <1>1, <1>2, <2>1, <2>2 DEF Signal, Goto
  <1>3. ASSUME NEW n \in Node, PassBarrier(n) PROVE Goal
    <2>1. phase[n] \in 0..2
      BY <1>0, <1>3 DEF PassBarrier, Fits
    <2>2. /\ Fits(n, AfterBarrier(n, phase[n] + 1), phase[n] + 1)
          /\ AfterBarrier(n, phase[n] + 1) \in PC
      BY <2>1, AfterBarrierFits
    <2>3. phase[n] + 1 \in 0..3
      BY <2>1
    <2> QED
      BY <1>1, <1>3, <2>2, <2>3 DEF PassBarrier, Goto
  <1>4. ASSUME NEW n \in Node, Moves(n) PROVE Goal
    <2>1. PICK p \in PC : /\ Fits(n, p, phase[n]) /\ pc' = [pc EXCEPT ![n] = p]
                          /\ phase' = phase
      BY <1>4, MovePlaces
    <2>2. phase' = [phase EXCEPT ![n] = phase[n]] /\ phase[n] \in 0..3
      BY <1>0, <2>1
    <2> QED
      BY <1>1, <2>1, <2>2
  <1>5. CASE Quiet
    BY <1>0, <1>5 DEF Quiet, main, PhaseOfPC
  <1> QED
    BY <1>2, <1>3, <1>4, <1>5, Steps, ElsewhereQuiet

----------------------------------------------------------------------------
(* The barriers *)

LEMMA PassKeepsArrived ==
  ASSUME BasicTypes, PhaseOfPC, NEW n \in Node, PassBarrier(n)
  PROVE  \A m \in Node : Arrived(m)' = Arrived(m)
  <1>1. phase[n] \in 0..2 /\ pc[n] = "barrier"
    BY DEF PassBarrier, PhaseOfPC, Fits
  <1>2. AfterBarrier(n, phase[n] + 1) # "barrier"
    BY <1>1, AfterBarrierFits
  <1>3. /\ phase' = [phase EXCEPT ![n] = @ + 1]
        /\ pc' = [pc EXCEPT ![n] = AfterBarrier(n, phase[n] + 1)]
        /\ pc \in [Node -> PC] /\ phase \in [Node -> 0..3]
    BY DEF PassBarrier, Goto, BasicTypes
  <1> QED
    BY <1>1, <1>2, <1>3 DEF Arrived

LEMMA OthersKeepArrived ==
  ASSUME BasicTypes, PhaseOfPC, Quiet \/ \E n \in Node : Moves(n)
  PROVE  phase' = phase /\ counter' = counter /\ \A m \in Node : Arrived(m)' = Arrived(m)
  <1>1. CASE Quiet
    BY <1>1 DEF Quiet, main, sync, Arrived
  <1>2. ASSUME NEW n \in Node, Moves(n)
        PROVE  phase' = phase /\ counter' = counter /\ \A m \in Node : Arrived(m)' = Arrived(m)
    <2>1. PICK p : /\ pc[n] # "barrier" /\ p # "barrier"
                   /\ pc' = [pc EXCEPT ![n] = p] /\ phase' = phase /\ counter' = counter
      BY <1>2, MovePlaces
    <2> QED
      BY <2>1 DEF Arrived, BasicTypes
  <1> QED
    BY <1>1, <1>2

LEMMA FullBarrier ==
  ASSUME BasicTypes, CountersExact, NEW b \in 1..3, counter[b] >= N
  PROVE  \A m \in Node : Arrived(m) >= b
  <1>1. AtBarrier(b) \subseteq Node /\ counter[b] = Cardinality(AtBarrier(b))
    BY DEF AtBarrier, CountersExact
  <1>2. /\ Cardinality(AtBarrier(b)) <= N /\ Cardinality(AtBarrier(b)) \in Nat
        /\ N = Cardinality(AtBarrier(b)) => Node = AtBarrier(b)
    BY <1>1, RolesAssumption, FS_Subset, FS_CardinalityType DEF N
  <1>3. AtBarrier(b) = Node
    BY <1>1, <1>2, Counts
  <1> QED
    BY <1>3 DEF AtBarrier

LEMMA CountersStep ==
  ASSUME BasicTypes, PhaseOfPC, CountersExact, [Next]_vars
  PROVE  CountersExact' /\ counter' \in [1..3 -> Nat]
  <1>0. /\ pc \in [Node -> PC] /\ phase \in [Node -> 0..3]
        /\ counter \in [1..3 -> Nat]
    BY DEF BasicTypes
  <1>1. ASSUME NEW n \in Node, Signal(n) PROVE CountersExact' /\ counter' \in [1..3 -> Nat]
    <2>0. phase[n] \in 0..2 /\ pc[n] = "signal"
      BY <1>1 DEF Signal, PhaseOfPC, Fits
    <2>1. PICK k \in 1..3 : k = phase[n] + 1
      BY <2>0
    <2>2. /\ pc' = [pc EXCEPT ![n] = "barrier"] /\ phase' = phase
          /\ counter' = [counter EXCEPT ![k] = @ + 1]
      BY <1>1, <2>1 DEF Signal, Goto
    <2>3. ASSUME NEW b \in 1..3, b # k PROVE AtBarrier(b)' = AtBarrier(b)
      BY <1>0, <2>0, <2>1, <2>2, <2>3 DEF AtBarrier, Arrived
    <2>4. AtBarrier(k)' = AtBarrier(k) \cup {n} /\ n \notin AtBarrier(k)
      BY <1>0, <2>0, <2>1, <2>2 DEF AtBarrier, Arrived
    <2>5. AtBarrier(k) \subseteq Node
      BY DEF AtBarrier
    <2>6. IsFiniteSet(AtBarrier(k))
      BY <2>5, RolesAssumption, FS_Subset
    <2>7. Cardinality(AtBarrier(k)') = Cardinality(AtBarrier(k)) + 1
      BY <2>4, <2>6, FS_AddElement
    <2>8. ASSUME NEW b \in 1..3 PROVE counter'[b] = Cardinality(AtBarrier(b)')
      <3>1. CASE b = k
        <4>1. counter'[k] = counter[k] + 1 /\ counter[k] = Cardinality(AtBarrier(k))
          BY <1>0, <2>2 DEF CountersExact
        <4> QED
          BY <2>7, <3>1, <4>1
      <3>2. CASE b # k
        BY <1>0, <2>2, <2>3, <3>2 DEF CountersExact
      <3> QED
        BY <3>1, <3>2
    <2> QED
      BY <1>0, <2>2, <2>8 DEF CountersExact
  <1>2. ASSUME \A m \in Node : Arrived(m)' = Arrived(m), counter' = counter
        PROVE  CountersExact' /\ counter' \in [1..3 -> Nat]
    BY <1>0, <1>2 DEF CountersExact, AtBarrier
  <1>3. ASSUME NEW n \in Node, PassBarrier(n) PROVE CountersExact' /\ counter' \in [1..3 -> Nat]
    BY <1>2, <1>3, PassKeepsArrived DEF PassBarrier, sync
  <1> QED
    BY <1>1, <1>2, <1>3, OthersKeepArrived, Steps, ElsewhereQuiet

LEMMA LockstepStep ==
  ASSUME BasicTypes, PhaseOfPC, CountersExact, LockstepInv, [Next]_vars
  PROVE  LockstepInv'
  <1>0. pc \in [Node -> PC] /\ phase \in [Node -> 0..3]
    BY DEF BasicTypes
  <1>1. ASSUME NEW n \in Node, Signal(n) PROVE LockstepInv'
    BY <1>0, <1>1 DEF Signal, Goto, LockstepInv, Arrived
  <1>2. ASSUME NEW n \in Node, PassBarrier(n) PROVE LockstepInv'
    <2>1. \A m \in Node : Arrived(m)' = Arrived(m)
      BY <1>2, PassKeepsArrived
    <2>2. phase[n] \in 0..2 /\ counter[phase[n] + 1] >= N
      BY <1>2 DEF PassBarrier, PhaseOfPC, Fits
    <2>3. \A m \in Node : Arrived(m) >= phase[n] + 1
      BY <2>2, FullBarrier
    <2>4. \A m \in Node : phase'[m] = IF m = n THEN phase[n] + 1 ELSE phase[m]
      BY <1>0, <1>2 DEF PassBarrier
    <2> QED
      BY <1>0, <2>1, <2>3, <2>4, ArrivedType DEF LockstepInv
  <1>3. CASE Quiet \/ \E n \in Node : Moves(n)
    BY <1>3, OthersKeepArrived DEF LockstepInv
  <1> QED
    BY <1>1, <1>2, <1>3, Steps, ElsewhereQuiet

----------------------------------------------------------------------------
(* Which actions change what *)

LEMMA Frames ==
  ASSUME [Next]_vars
  PROVE  /\ now' = now \/ TimePasses
         /\ wakeAt' = wakeAt \/ \E n \in Node : SendSubscribe(n) \/ SendStart(n)
         /\ infos' = infos \/ \E n \in Node : PublishInfo(n)
         /\ listening' = listening \/ \E n \in Node : Listen(n)
         /\ \/ dialled' = dialled /\ refused' = refused
            \/ \E n \in Node : DialVictim(n) \/ SetupDiscovery(n)
  <1>1. CASE Elsewhere
    <2>1. now' = now \/ TimePasses
      BY <1>1 DEF Elsewhere, Receive, PublishTick, vars
    <2> QED
      BY <1>1, <2>1, ElsewhereQuiet DEF Quiet, main, sync, conns
  <1>2. ASSUME NEW n \in Node, Signal(n) \/ PassBarrier(n)
        PROVE  UNCHANGED <<now, wakeAt, infos, conns>>
    BY <1>2 DEF Signal, PassBarrier, sync
  <1>3. ASSUME NEW n \in Node, Collect(n) \/ WarmupEnds(n) \/ RecordMetrics(n) \/ SendStop(n)
        PROVE  UNCHANGED <<now, wakeAt, infos, conns>>
    BY <1>3 DEF Collect, WarmupEnds, RecordMetrics, SendStop, sync
  <1>4. ASSUME NEW n \in Node, PublishInfo(n) PROVE UNCHANGED <<now, wakeAt, conns>>
    BY <1>4 DEF PublishInfo
  <1>5. ASSUME NEW n \in Node, Listen(n)
        PROVE  UNCHANGED <<now, wakeAt, infos, dialled, refused>>
    BY <1>5 DEF Listen, sync
  <1>6. ASSUME NEW n \in Node, DialVictim(n) \/ SetupDiscovery(n)
        PROVE  UNCHANGED <<now, wakeAt, infos, listening>>
    BY <1>6 DEF DialVictim, SetupDiscovery, sync
  <1>7. ASSUME NEW n \in Node, SendSubscribe(n) \/ SendStart(n)
        PROVE  UNCHANGED <<now, infos, conns>>
    BY <1>7 DEF SendSubscribe, SendStart, sync
  <1> QED
    BY <1>1, <1>2, <1>3, <1>4, <1>5, <1>6, <1>7, Steps DEF Moves, conns

LEMMA NetworkFrames ==
  ASSUME [Next]_vars
  PROVE  /\ \/ channel' = channel
            \/ \E n \in Node : SendSubscribe(n) \/ SendStart(n) \/ SendStop(n)
            \/ \E n \in Honest : Receive(n)
         /\ \/ UNCHANGED <<subscribed, publishState, startedAt>>
            \/ \E n \in Honest : Receive(n)
         /\ created' = created \/ \E n \in Node : Listen(n)
         /\ ticks' = ticks \/ \E n \in Honest : PublishTick(n)
  <1>1. ASSUME NEW n \in Honest, Receive(n) PROVE UNCHANGED <<created, ticks>>
    BY <1>1 DEF Receive
  <1>2. ASSUME NEW n \in Honest, PublishTick(n)
        PROVE  UNCHANGED <<channel, subscribed, publishState, created, startedAt>>
    BY <1>2 DEF PublishTick
  <1>3. CASE TimePasses \/ UNCHANGED vars
    BY <1>3 DEF TimePasses, vars, network
  <1>4. ASSUME NEW n \in Node, Signal(n) \/ PassBarrier(n) \/ PublishInfo(n) \/ Collect(n)
        PROVE  UNCHANGED network
    BY <1>4 DEF Signal, PassBarrier, PublishInfo, Collect
  <1>5. ASSUME NEW n \in Node,
               DialVictim(n) \/ SetupDiscovery(n) \/ WarmupEnds(n) \/ RecordMetrics(n)
        PROVE  UNCHANGED network
    BY <1>5 DEF DialVictim, SetupDiscovery, WarmupEnds, RecordMetrics
  <1>6. ASSUME NEW n \in Node, Listen(n)
        PROVE  UNCHANGED <<channel, subscribed, publishState, ticks, startedAt>>
    BY <1>6 DEF Listen
  <1>7. ASSUME NEW n \in Node, SendSubscribe(n) \/ SendStart(n) \/ SendStop(n)
        PROVE  UNCHANGED <<subscribed, publishState, created, ticks, startedAt>>
    BY <1>7 DEF SendSubscribe, SendStart, SendStop
  <1> QED
    BY <1>1, <1>2, <1>3, <1>4, <1>5, <1>6, <1>7, Steps DEF Moves, Elsewhere, network

\* What one step adds to what m has behind it.
Progress(m) ==
    /\ Bound(m)' => Bound(m) \/ Listen(m)
    /\ Bound(m) => Bound(m)'
    /\ HasDialled(m) => HasDialled(m)'
    /\ m \in Attacker /\ HasDialled(m)' => HasDialled(m) \/ DialVictim(m)
    /\ Asked(m) => Asked(m)'
    /\ m \in Honest /\ Asked(m)' => Asked(m) \/ SendSubscribe(m)
    /\ Started(m) => Started(m)'
    /\ phase[m] <= phase'[m]

LEMMA ProgressStep ==
  ASSUME BasicTypes, PhaseOfPC, [Next]_vars, NEW m \in Node
  PROVE  Progress(m)
  <1> DEFINE Stays == pc'[m] = pc[m] /\ phase'[m] = phase[m]
  <1> USE DEF Progress, Bound, HasDialled, Asked, Started
  <1>0. /\ pc \in [Node -> PC] /\ phase \in [Node -> 0..3]
        /\ Fits(m, pc[m], phase[m]) /\ phase[m] \in 0..3
        /\ m \in Honest <=> m \notin Attacker
    BY Roles DEF BasicTypes, PhaseOfPC
  <1>1. CASE Stays
    BY <1>0, <1>1
  <1>2. ASSUME NEW n \in Node, n # m, Signal(n) \/ PassBarrier(n) \/ Moves(n) PROVE Stays
    <2>1. CASE Signal(n) \/ PassBarrier(n)
      BY <1>0, <1>2, <2>1 DEF Signal, PassBarrier, Goto
    <2>2. CASE Moves(n)
      BY <1>0, <1>2, <2>2, MovePlaces
    <2> QED
      BY <1>2, <2>1, <2>2
  <1>3. CASE Quiet
    BY <1>1, <1>3 DEF Quiet, main
  <1>4. CASE Signal(m)
    <2>1. pc[m] = "signal" /\ pc'[m] = "barrier" /\ phase'[m] = phase[m]
      BY <1>0, <1>4 DEF Signal, Goto
    <2> QED
      BY <1>0, <2>1
  <1>5. CASE PassBarrier(m)
    <2>1. /\ pc[m] = "barrier" /\ pc'[m] = AfterBarrier(m, phase[m] + 1)
          /\ phase'[m] = phase[m] + 1 /\ phase[m] \in 0..2
      BY <1>0, <1>5 DEF PassBarrier, Goto, Fits
    <2>2. /\ phase'[m] = 1 /\ m \in Attacker => pc'[m] = "dial_victim"
          /\ phase'[m] = 1 /\ m \in Honest => pc'[m] = "subscribe"
      BY <2>1, AfterBarrierFits
    <2> QED
      BY <1>0, <2>1, <2>2
  <1>6. CASE Listen(m)
    <2>1. pc[m] = "listen" /\ phase[m] = 0 /\ phase'[m] = 0
      BY <1>0, <1>6 DEF Listen, Fits
    <2> QED
      BY <1>6, <2>1
  <1>7. CASE PublishInfo(m) \/ Collect(m)
    <2>1. /\ pc[m] \in {"publish_info", "collect"} /\ pc'[m] \in {"collect", "listen"}
          /\ phase[m] = 0 /\ phase'[m] = 0
      BY <1>0, <1>7 DEF PublishInfo, Collect, Goto, Fits
    <2> QED
      BY <2>1
  <1>8. CASE SetupDiscovery(m)
    <2>1. /\ pc[m] = "setup_discovery" /\ phase[m] = 0 /\ phase'[m] = 0
          /\ pc'[m] \in {"signal", "panicked"}
      BY <1>0, <1>8 DEF SetupDiscovery, Goto, Fits
    <2> QED
      BY <2>1
  <1>9. CASE DialVictim(m)
    <2>1. /\ pc[m] = "dial_victim" /\ phase[m] = 1 /\ phase'[m] = 1 /\ m \in Attacker
          /\ pc'[m] = "signal"
      BY <1>0, <1>9 DEF DialVictim, Goto, Fits
    <2> QED
      BY <1>0, <1>9, <2>1
  <1>10. CASE SendSubscribe(m)
    <2>1. /\ pc[m] = "subscribe" /\ phase[m] = 1 /\ phase'[m] = 1 /\ m \in Honest
          /\ pc'[m] = "warmup"
      BY <1>0, <1>10 DEF SendSubscribe, Goto, Fits
    <2> QED
      BY <1>0, <1>10, <2>1
  <1>11. CASE WarmupEnds(m)
    <2>1. /\ pc[m] = "warmup" /\ phase[m] = 1 /\ phase'[m] = 1 /\ m \in Honest
          /\ pc'[m] = "signal"
      BY <1>0, <1>11 DEF WarmupEnds, Goto, Fits
    <2> QED
      BY <1>0, <2>1
  <1>12. CASE SendStart(m) \/ SendStop(m)
    <2>1. /\ phase[m] = 2 /\ phase'[m] = 2
          /\ pc'[m] \in {"publishing", "signal"}
      BY <1>0, <1>12 DEF SendStart, SendStop, Goto, Fits
    <2> QED
      BY <2>1
  <1>13. CASE RecordMetrics(m)
    <2>1. phase[m] = 3 /\ phase'[m] = 3
      BY <1>0, <1>13 DEF RecordMetrics, Fits
    <2> QED
      BY <2>1
  <1>14. CASE Moves(m)
    BY <1>6, <1>7, <1>8, <1>9, <1>10, <1>11, <1>12, <1>13, <1>14 DEF Moves
  <1>15. CASE \E n \in Node \ {m} : Signal(n) \/ PassBarrier(n) \/ Moves(n)
    BY <1>1, <1>2, <1>15
  <1> QED
    BY <1>3, <1>4, <1>5, <1>14, <1>15, Steps, ElsewhereQuiet

----------------------------------------------------------------------------
(* The sockets and the dials *)

LEMMA ListeningStep ==
  ASSUME BasicTypes, PhaseOfPC, ListeningInv, [Next]_vars
  PROVE  ListeningInv'
  <1> SUFFICES ASSUME NEW n \in Node, Bound(n)' PROVE n \in listening'
    BY DEF ListeningInv
  <1>1. listening \subseteq listening'
    BY Frames DEF Listen
  <1>2. CASE Bound(n)
    BY <1>1, <1>2 DEF ListeningInv
  <1>3. CASE Listen(n)
    BY <1>3 DEF Listen
  <1> QED
    BY <1>2, <1>3, ProgressStep DEF Progress

\* The dials of an attacker are of the victim; those of the others are their own.
LEMMA Dialling ==
  ASSUME BasicTypes, PhaseOfPC, [Next]_vars
  PROVE  \/ dialled' = dialled /\ refused' = refused
         \/ \E n \in Attacker : DialVictim(n) /\ phase[n] = 1 /\ Dials(n, {Victim})
         \/ \E n \in Honest, peers \in SUBSET Honest : Dials(n, peers)
  <1>1. ASSUME NEW n \in Node, DialVictim(n)
        PROVE  n \in Attacker /\ phase[n] = 1 /\ Dials(n, {Victim})
    BY <1>1 DEF DialVictim, PhaseOfPC, Fits
  <1>2. ASSUME NEW n \in Node, SetupDiscovery(n)
        PROVE  \/ dialled' = dialled /\ refused' = refused
               \/ n \in Honest /\ \E peers \in SUBSET Honest : Dials(n, peers)
    <2>1. n \in Honest
      BY <1>2 DEF SetupDiscovery, PhaseOfPC, Fits
    <2> HIDE DEF Dials
    <2> QED
      BY <1>2, <2>1 DEF SetupDiscovery
  <1> QED
    BY <1>1, <1>2, Frames

LEMMA DialledStep ==
  ASSUME BasicTypes, PhaseOfPC, AttackersDialled, [Next]_vars
  PROVE  AttackersDialled'
  <1> SUFFICES ASSUME NEW n \in Attacker, HasDialled(n)' PROVE <<n, Victim>> \in dialled'
    BY DEF AttackersDialled
  <1>1. dialled \subseteq dialled'
    BY Dialling DEF Dials
  <1>2. CASE HasDialled(n)
    BY <1>1, <1>2 DEF AttackersDialled
  <1>3. CASE DialVictim(n)
    BY <1>3 DEF DialVictim, Dials
  <1> QED
    BY <1>2, <1>3, ProgressStep, Roles DEF Progress

\* An attacker that dials is through the first barrier, at which the victim has
\* arrived with its socket bound.
LEMMA ReachedStep ==
  ASSUME BasicTypes, PhaseOfPC, LockstepInv, ListeningInv, VictimReached, [Next]_vars
  PROVE  VictimReached'
  <1>1. ASSUME NEW n \in Attacker, phase[n] = 1, Dials(n, {Victim}) PROVE refused' = refused
    <2>1. n \in Node /\ Victim \in Node
      BY Roles
    <2>2. 1 <= Arrived(Victim) /\ phase[Victim] \in 0..3
      BY <1>1, <2>1 DEF LockstepInv, BasicTypes
    <2>3. Victim \in listening
      BY <2>1, <2>2 DEF Arrived, Bound, ListeningInv
    <2> QED
      BY <1>1, <2>3 DEF Dials
  <1>2. ASSUME NEW n \in Honest, NEW peers \in SUBSET Honest, Dials(n, peers),
               NEW m \in Attacker
        PROVE  <<m, Victim>> \notin refused'
    <2>1. m # n
      BY RolesAssumption
    <2> QED
      BY <1>2, <2>1 DEF Dials, VictimReached
  <1>3. CASE \E n \in Attacker : DialVictim(n) /\ phase[n] = 1 /\ Dials(n, {Victim})
    BY <1>1, <1>3 DEF VictimReached
  <1>4. CASE \E n \in Honest, peers \in SUBSET Honest : Dials(n, peers)
    BY <1>2, <1>4 DEF VictimReached
  <1>5. CASE refused' = refused
    BY <1>5 DEF VictimReached
  <1> QED
    BY <1>3, <1>4, <1>5, Dialling

----------------------------------------------------------------------------
(* The channel *)

LEMMA ChannelFacts ==
  ASSUME NEW q \in Seq(Command), NEW x \in Command
  PROVE  /\ Append(q, x) \in Seq(Command) /\ Append(q, x) # <<>>
         /\ q = <<>> => Head(Append(q, x)) = x
         /\ q # <<>> => Head(Append(q, x)) = Head(q)
         /\ \A i \in DOMAIN Append(q, x) :
                Append(q, x)[i] = x \/ (i \in DOMAIN q /\ Append(q, x)[i] = q[i])
  <1> DEFINE r == Append(q, x)
  <1>1. /\ r \in Seq(Command) /\ Len(r) = Len(q) + 1 /\ Len(q) \in Nat
        /\ r[Len(q) + 1] = x /\ \A i \in 1..Len(q) : r[i] = q[i]
        /\ DOMAIN q = 1..Len(q) /\ DOMAIN r = 1..(Len(q) + 1)
    OBVIOUS
  <1>2. q # <<>> => Len(q) >= 1
    OBVIOUS
  <1>3. q = <<>> => Len(q) = 0
    OBVIOUS
  <1>4. r # <<>> /\ Head(r) = r[1]
    OBVIOUS
  <1>5. q # <<>> => Head(q) = q[1]
    OBVIOUS
  <1> HIDE DEF r
  <1>6. \A i \in DOMAIN r : r[i] = x \/ (i \in DOMAIN q /\ r[i] = q[i])
    <2> TAKE i \in DOMAIN r
    <2>1. i \in 1..Len(q) \/ i = Len(q) + 1
      BY <1>1
    <2> QED
      BY <1>1, <2>1
  <1>7. q = <<>> => r[1] = x
    BY <1>1, <1>3
  <1>8. q # <<>> => r[1] = q[1]
    BY <1>1, <1>2
  <1> QED
    BY <1>1, <1>4, <1>5, <1>6, <1>7, <1>8 DEF r

LEMMA TailFacts ==
  ASSUME NEW q \in Seq(Command), q # <<>>
  PROVE  /\ Tail(q) \in Seq(Command) /\ Head(q) \in Command
         /\ 1 \in DOMAIN q /\ Head(q) = q[1]
         /\ \A i \in DOMAIN Tail(q) : i + 1 \in DOMAIN q /\ Tail(q)[i] = q[i + 1]
  OBVIOUS

\* What a step of main() appends to the channel of its network.
Sends(n, command) ==
    /\ channel' = [channel EXCEPT ![n] = Append(channel[n], command)]
    /\ UNCHANGED <<subscribed, publishState>>

LEMMA Sending ==
  ASSUME BasicTypes, PhaseOfPC, NEW n \in Node,
         SendSubscribe(n) \/ SendStart(n) \/ SendStop(n)
  PROVE  /\ n \in Honest
         /\ \E x \in Command : Sends(n, x) /\ (x # "Subscribe" => phase[n] = 2 /\ Asked(n))
         /\ SendSubscribe(n) => Sends(n, "Subscribe")
  <1>0. Fits(n, pc[n], phase[n])
    BY DEF PhaseOfPC
  <1>1. CASE SendSubscribe(n)
    <2>1. Sends(n, "Subscribe") /\ n \in Honest /\ "Subscribe" \in Command
      BY <1>0, <1>1 DEF SendSubscribe, SendCommand, Fits, Sends, Command
    <2> QED
      BY <2>1
  <1>2. CASE SendStart(n)
    <2>1. Sends(n, "StartPublishing") /\ n \in Honest /\ "StartPublishing" \in Command
      BY <1>0, <1>2 DEF SendStart, SendCommand, Fits, Sends, Command
    <2>2. phase[n] = 2 /\ Asked(n) /\ ~SendSubscribe(n)
      BY <1>0, <1>2 DEF SendStart, SendSubscribe, Fits, Asked
    <2> QED
      BY <2>1, <2>2
  <1>3. CASE SendStop(n)
    <2>1. Sends(n, "StopPublishing") /\ n \in Honest /\ "StopPublishing" \in Command
      BY <1>0, <1>3 DEF SendStop, SendCommand, Fits, Sends, Command
    <2>2. phase[n] = 2 /\ Asked(n) /\ ~SendSubscribe(n)
      BY <1>0, <1>3 DEF SendStop, SendSubscribe, Fits, Asked
    <2> QED
      BY <2>1, <2>2
  <1> QED
    BY <1>1, <1>2, <1>3

LEMMA Receiving ==
  ASSUME BasicTypes, NEW n \in Honest, Receive(n)
  PROVE  \E c \in Command :
           /\ channel[n] # <<>> /\ c = Head(channel[n])
           /\ channel' = [channel EXCEPT ![n] = Tail(channel[n])]
           /\ subscribed' = [subscribed EXCEPT ![n] = subscribed[n] \/ c = "Subscribe"]
           /\ publishState' = [publishState EXCEPT ![n] =
                                  IF c = "StartPublishing" THEN "Started"
                                  ELSE IF c = "StopPublishing" THEN "Stopped"
                                  ELSE publishState[n]]
  <1>1. channel[n] \in Seq(Command) /\ channel[n] # <<>>
    BY DEF BasicTypes, Receive
  <1>2. Head(channel[n]) \in Command
    BY <1>1, TailFacts
  <1> QED
    BY <1>1, <1>2 DEF Receive

LEMMA SubscribesFirstStep ==
  ASSUME BasicTypes, PhaseOfPC, SubscribesFirst, [Next]_vars
  PROVE  SubscribesFirst'
  <1> DEFINE Holds(n) ==
               /\ subscribed[n] \/ channel[n] = <<>> \/ Head(channel[n]) = "Subscribe"
               /\ publishState[n] # "Awaiting" => subscribed[n]
               /\ Asked(n) => subscribed[n] \/ channel[n] # <<>>
  <1>0. /\ channel \in [Honest -> Seq(Command)] /\ subscribed \in [Honest -> BOOLEAN]
        /\ publishState \in [Honest -> {"Awaiting", "Started", "Stopped"}]
        /\ \A n \in Honest : Holds(n)
    BY DEF BasicTypes, SubscribesFirst
  <1> SUFFICES ASSUME NEW n \in Honest PROVE Holds(n)'
    BY DEF SubscribesFirst
  <1>1. n \in Node /\ (Asked(n)' => Asked(n) \/ SendSubscribe(n))
    BY Roles, ProgressStep DEF Progress
  <1>2. CASE SendSubscribe(n) \/ SendStart(n) \/ SendStop(n)
    <2>1. PICK x \in Command : /\ Sends(n, x) /\ (x # "Subscribe" => Asked(n))
      BY <1>1, <1>2, Sending
    <2>2. /\ channel'[n] = Append(channel[n], x) /\ subscribed' = subscribed
          /\ publishState' = publishState /\ channel[n] \in Seq(Command)
      BY <1>0, <2>1 DEF Sends
    <2>3. /\ channel'[n] # <<>>
          /\ channel[n] = <<>> => Head(channel'[n]) = x
          /\ channel[n] # <<>> => Head(channel'[n]) = Head(channel[n])
      BY <2>2, ChannelFacts
    <2> QED
      BY <1>0, <2>1, <2>2, <2>3
  <1>3. CASE Receive(n)
    <2>1. PICK c \in Command :
           /\ channel[n] # <<>> /\ c = Head(channel[n])
           /\ subscribed' = [subscribed EXCEPT ![n] = subscribed[n] \/ c = "Subscribe"]
      BY <1>3, Receiving
    <2>2. subscribed'[n] = TRUE
      BY <1>0, <2>1
    <2> QED
      BY <2>2
  <1>4. CASE \E m \in Node \ {n} : SendSubscribe(m) \/ SendStart(m) \/ SendStop(m)
    <2>1. channel'[n] = channel[n] /\ subscribed' = subscribed /\ publishState' = publishState
      BY <1>0, <1>4, Sending DEF Sends
    <2>2. SendSubscribe(n) => channel'[n] # <<>>
      BY <1>0, <1>1, Sending, ChannelFacts DEF Sends
    <2> QED
      BY <1>0, <1>1, <2>1, <2>2
  <1>5. CASE \E m \in Honest \ {n} : Receive(m)
    <2>1. /\ channel'[n] = channel[n] /\ subscribed'[n] = subscribed[n]
          /\ publishState'[n] = publishState[n]
      BY <1>0, <1>5, Receiving
    <2>2. SendSubscribe(n) => channel'[n] # <<>>
      BY <1>0, <1>1, Sending, ChannelFacts DEF Sends
    <2> QED
      BY <1>0, <1>1, <2>1, <2>2
  <1>6. CASE channel' = channel /\ UNCHANGED <<subscribed, publishState>>
    <2>1. SendSubscribe(n) => channel'[n] # <<>>
      BY <1>0, <1>1, Sending, ChannelFacts DEF Sends
    <2> QED
      BY <1>0, <1>1, <1>6, <2>1
  <1> QED
    BY <1>2, <1>3, <1>4, <1>5, <1>6, NetworkFrames

LEMMA CommandsStep ==
  ASSUME BasicTypes, PhaseOfPC, CommandsInv, [Next]_vars
  PROVE  CommandsInv'
  <1> DEFINE Other(n) == \E i \in DOMAIN channel[n] : channel[n][i] # "Subscribe"
             Holds(n) == publishState[n] # "Awaiting" \/ Other(n) => phase[n] >= 2
  <1>0. /\ channel \in [Honest -> Seq(Command)]
        /\ publishState \in [Honest -> {"Awaiting", "Started", "Stopped"}]
        /\ \A n \in Honest : Holds(n)
    BY DEF BasicTypes, CommandsInv
  <1> SUFFICES ASSUME NEW n \in Honest PROVE Holds(n)'
    BY DEF CommandsInv
  <1>1. n \in Node /\ phase[n] <= phase'[n] /\ phase[n] \in 0..3 /\ phase'[n] \in 0..3
    BY Roles, ProgressStep, PhaseStep DEF Progress, BasicTypes
  <1>2. CASE SendSubscribe(n) \/ SendStart(n) \/ SendStop(n)
    <2>1. PICK x \in Command : Sends(n, x) /\ (x # "Subscribe" => phase[n] = 2)
      BY <1>1, <1>2, Sending
    <2>2. /\ channel'[n] = Append(channel[n], x) /\ publishState' = publishState
          /\ channel[n] \in Seq(Command)
      BY <1>0, <2>1 DEF Sends
    <2>3. Other(n)' => x # "Subscribe" \/ Other(n)
      BY <2>2, ChannelFacts
    <2> HIDE DEF Other
    <2> QED
      BY <1>0, <1>1, <2>1, <2>2, <2>3
  <1>3. CASE Receive(n)
    <2>1. PICK c \in Command :
           /\ channel[n] # <<>> /\ c = Head(channel[n])
           /\ channel' = [channel EXCEPT ![n] = Tail(channel[n])]
           /\ publishState' = [publishState EXCEPT ![n] =
                                  IF c = "StartPublishing" THEN "Started"
                                  ELSE IF c = "StopPublishing" THEN "Stopped"
                                  ELSE publishState[n]]
      BY <1>3, Receiving
    <2>2. channel[n] \in Seq(Command) /\ channel'[n] = Tail(channel[n])
      BY <1>0, <2>1
    <2>3. Other(n)' => Other(n)
      BY <2>1, <2>2, TailFacts
    <2>4. publishState'[n] # publishState[n] => c # "Subscribe"
      BY <1>0, <2>1
    <2>5. c # "Subscribe" => Other(n)
      BY <2>1, <2>2, TailFacts
    <2> HIDE DEF Other
    <2> QED
      BY <1>0, <1>1, <2>3, <2>4, <2>5
  <1>4. CASE channel'[n] = channel[n] /\ publishState'[n] = publishState[n]
    <2>1. Other(n)' = Other(n)
      BY <1>4
    <2> HIDE DEF Other
    <2> QED
      BY <1>0, <1>1, <1>4, <2>1
  <1>5. ASSUME NEW m \in Node \ {n}, SendSubscribe(m) \/ SendStart(m) \/ SendStop(m)
        PROVE  channel'[n] = channel[n] /\ publishState'[n] = publishState[n]
    BY <1>0, <1>5, Sending DEF Sends
  <1>6. ASSUME NEW m \in Honest \ {n}, Receive(m)
        PROVE  channel'[n] = channel[n] /\ publishState'[n] = publishState[n]
    BY <1>0, <1>6, Receiving
  <1> HIDE DEF Holds
  <1> QED
    BY <1>2, <1>3, <1>4, <1>5, <1>6, NetworkFrames

----------------------------------------------------------------------------
(* The clock *)

LEMMA Weight ==
  ASSUME NEW w \in Nat, NEW a \in Nat, NEW b \in Nat
  PROVE  /\ w * a \in Nat
         /\ a <= b => w * a <= w * b
         /\ a + 1 <= b => w * a + w <= w * b
  OBVIOUS

LEMMA Subsets ==
  ASSUME NEW A, NEW B, A \subseteq B, B \subseteq Node
  PROVE  /\ Cardinality(A) \in Nat /\ Cardinality(B) \in Nat
         /\ Cardinality(A) <= Cardinality(B) /\ Cardinality(B) <= N
         /\ A # B => Cardinality(A) + 1 <= Cardinality(B)
  <1>1. IsFiniteSet(B) /\ Cardinality(B) <= Cardinality(Node)
    BY RolesAssumption, FS_Subset
  <1>2. /\ IsFiniteSet(A) /\ Cardinality(A) <= Cardinality(B)
        /\ Cardinality(A) = Cardinality(B) => A = B
    BY <1>1, FS_Subset
  <1>3. Cardinality(A) \in Nat /\ Cardinality(B) \in Nat
    BY <1>1, <1>2, FS_CardinalityType
  <1> QED
    BY <1>1, <1>2, <1>3 DEF N

\* The budget grows by a sleep when the sleep begins.
LEMMA BudgetStep ==
  ASSUME BasicTypes, PhaseOfPC, [Next]_vars
  PROVE  /\ Budget \in Nat /\ Budget' \in Nat /\ Budget <= Budget'
         /\ \A n \in Node : SendSubscribe(n) => Budget + Warmup <= Budget'
         /\ \A n \in Node : SendStart(n) => Budget + Run <= Budget'
  <1> DEFINE a == Cardinality(Slept)
             b == Cardinality(Ran)
             c == Cardinality(Slept')
             d == Cardinality(Ran')
  <1>1. /\ Slept \subseteq Slept' /\ Ran \subseteq Ran'
        /\ Slept' \subseteq Node /\ Ran' \subseteq Node
    BY ProgressStep DEF Progress, Slept, Ran
  <1>2. /\ a \in Nat /\ b \in Nat /\ c \in Nat /\ d \in Nat /\ a <= c /\ b <= d
        /\ Slept # Slept' => a + 1 <= c
        /\ Ran # Ran' => b + 1 <= d
    BY <1>1, Subsets
  <1>3. ASSUME NEW n \in Node, SendSubscribe(n) PROVE a + 1 <= c
    <2>1. pc[n] = "subscribe" /\ phase[n] = 1 /\ phase'[n] = 1 /\ pc'[n] = "warmup"
      BY <1>3 DEF SendSubscribe, PhaseOfPC, Fits, Goto, BasicTypes
    <2>2. n \notin Slept /\ n \in Slept'
      BY <2>1 DEF Slept, Asked
    <2> QED
      BY <1>2, <2>2
  <1>4. ASSUME NEW n \in Node, SendStart(n) PROVE b + 1 <= d
    <2>1. pc[n] = "start_publishing" /\ phase[n] = 2 /\ phase'[n] = 2 /\ pc'[n] = "publishing"
      BY <1>4 DEF SendStart, PhaseOfPC, Fits, Goto, BasicTypes
    <2>2. n \notin Ran /\ n \in Ran'
      BY <2>1 DEF Ran, Started
    <2> QED
      BY <1>2, <2>2
  <1>5. Budget = Warmup * a + Run * b /\ Budget' = Warmup * c + Run * d
    BY DEF Budget
  <1>6. Warmup \in Nat /\ Run \in Nat
    BY ParamsAssumption
  <1> HIDE DEF a, b, c, d
  <1>7. /\ Warmup * a \in Nat /\ Warmup * c \in Nat /\ Warmup * a <= Warmup * c
        /\ a + 1 <= c => Warmup * a + Warmup <= Warmup * c
    BY <1>2, <1>6, Weight
  <1>8. /\ Run * b \in Nat /\ Run * d \in Nat /\ Run * b <= Run * d
        /\ b + 1 <= d => Run * b + Run <= Run * d
    BY <1>2, <1>6, Weight
  <1> DEFINE wa == Warmup * a
             wc == Warmup * c
             rb == Run * b
             rd == Run * d
  <1>9. /\ wa \in Nat /\ wc \in Nat /\ wa <= wc /\ rb \in Nat /\ rd \in Nat /\ rb <= rd
        /\ a + 1 <= c => wa + Warmup <= wc
        /\ b + 1 <= d => rb + Run <= rd
        /\ Budget = wa + rb /\ Budget' = wc + rd
    BY <1>5, <1>7, <1>8
  <1> HIDE DEF wa, wc, rb, rd
  <1> QED
    BY <1>3, <1>4, <1>6, <1>9

LEMMA TimeStep ==
  ASSUME BasicTypes, PhaseOfPC, TimeInv, [Next]_vars
  PROVE  TimeInv' /\ now' \in Nat /\ now <= now' /\ wakeAt' \in [Node -> Nat]
  <1>0. /\ now \in Nat /\ wakeAt \in [Node -> Nat] /\ Warmup \in Nat /\ Run \in Nat
        /\ now <= Budget /\ \A n \in Node : wakeAt[n] <= Budget
    BY ParamsAssumption DEF BasicTypes, TimeInv
  <1>1. now' \in Nat /\ now <= now' /\ now' <= Budget
    <2>1. ASSUME TimePasses PROVE now' = now + 1 /\ now + 1 <= Budget
      <3>1. PICK n \in Node : now < wakeAt[n]
        BY <2>1 DEF TimePasses, Sleeping
      <3> QED
        BY <1>0, <2>1, <3>1, BudgetStep DEF TimePasses
    <2> QED
      BY <1>0, <2>1, Frames
  <1>2. ASSUME NEW n \in Node, SendSubscribe(n) \/ SendStart(n)
        PROVE  \E w \in Nat : w <= Budget' /\ wakeAt' = [wakeAt EXCEPT ![n] = w]
    <2>1. CASE SendSubscribe(n)
      <3>1. wakeAt' = [wakeAt EXCEPT ![n] = now + Warmup]
        BY <2>1 DEF SendSubscribe
      <3>2. Budget + Warmup <= Budget' /\ Budget \in Nat /\ Budget' \in Nat
        BY <2>1, BudgetStep
      <3>3. now + Warmup \in Nat /\ now + Warmup <= Budget'
        BY <1>0, <3>2
      <3> QED
        BY <3>1, <3>3
    <2>2. CASE SendStart(n)
      <3>1. wakeAt' = [wakeAt EXCEPT ![n] = now + Run]
        BY <2>2 DEF SendStart
      <3>2. Budget + Run <= Budget' /\ Budget \in Nat /\ Budget' \in Nat
        BY <2>2, BudgetStep
      <3>3. now + Run \in Nat /\ now + Run <= Budget'
        BY <1>0, <3>2
      <3> QED
        BY <3>1, <3>3
    <2> QED
      BY <1>2, <2>1, <2>2
  <1>3. wakeAt' \in [Node -> Nat] /\ \A n \in Node : wakeAt'[n] <= Budget'
    <2>1. Budget \in Nat /\ Budget' \in Nat /\ Budget <= Budget'
      BY BudgetStep
    <2>2. \A n \in Node : wakeAt[n] <= Budget'
      BY <1>0, <2>1
    <2> QED
      BY <1>0, <1>2, <2>2, Frames
  <1> QED
    BY <1>1, <1>3, BudgetStep DEF TimeInv

\* The ticks of an interval are counted from its creation.
LEMMA TicksStep ==
  ASSUME BasicTypes, PhaseOfPC, CommandsInv, TimeInv, TicksInv, [Next]_vars
  PROVE  /\ TicksInv' /\ created' \in [Honest -> Nat] /\ ticks' \in [Honest -> Nat]
         /\ startedAt' \in [Honest -> Nat]
  <1>0. /\ created \in [Honest -> Nat] /\ ticks \in [Honest -> Nat]
        /\ startedAt \in [Honest -> Nat] /\ now \in Nat
        /\ publishState \in [Honest -> {"Awaiting", "Started", "Stopped"}]
        /\ phase \in [Node -> 0..3]
    BY DEF BasicTypes
  <1>1. now' \in Nat /\ now <= now'
    BY TimeStep
  <1>2. ASSUME NEW n \in Node, Listen(n)
        PROVE  /\ UNCHANGED <<now, ticks, publishState, startedAt>>
               /\ created' = IF n \in Honest THEN [created EXCEPT ![n] = now] ELSE created
               /\ n \in Honest => ticks[n] = 0
    <2>1. pc[n] = "listen" /\ phase[n] = 0
      BY <1>2 DEF Listen, PhaseOfPC, Fits
    <2>2. n \in Honest => publishState[n] = "Awaiting"
      BY <2>1 DEF CommandsInv
    <2> QED
      BY <1>2, <2>2 DEF Listen, TicksInv
  <1>3. ASSUME NEW n \in Honest, Receive(n)
        PROVE  /\ UNCHANGED <<now, ticks, created>>
               /\ startedAt' = startedAt \/ startedAt' = [startedAt EXCEPT ![n] = now]
               /\ \A m \in Honest : publishState'[m] = "Awaiting" => publishState[m] = "Awaiting"
    <2>1. UNCHANGED <<now, ticks, created>>
          /\ (startedAt' = startedAt \/ startedAt' = [startedAt EXCEPT ![n] = now])
      BY <1>3 DEF Receive
    <2>2. PICK c \in Command : publishState' = [publishState EXCEPT ![n] =
                                  IF c = "StartPublishing" THEN "Started"
                                  ELSE IF c = "StopPublishing" THEN "Stopped"
                                  ELSE publishState[n]]
      BY <1>3, Receiving
    <2> QED
      BY <1>0, <2>1, <2>2
  <1>4. ASSUME NEW n \in Honest, PublishTick(n)
        PROVE  /\ UNCHANGED <<now, created, startedAt, publishState>>
               /\ publishState[n] = "Started" /\ ticks[n] <= now - created[n]
               /\ ticks' = [ticks EXCEPT ![n] = ticks[n] + 1]
    BY <1>4 DEF PublishTick
  <1>5. CASE UNCHANGED <<ticks, created, startedAt, publishState>>
    BY <1>0, <1>1, <1>5 DEF TicksInv
  <1>6. CASE \E n \in Node : Listen(n)
    BY <1>0, <1>2, <1>6 DEF TicksInv
  <1>7. CASE \E n \in Honest : Receive(n)
    BY <1>0, <1>3, <1>7 DEF TicksInv
  <1>8. CASE \E n \in Honest : PublishTick(n)
    BY <1>0, <1>4, <1>8 DEF TicksInv
  <1> QED
    BY <1>5, <1>6, <1>7, <1>8, NetworkFrames

----------------------------------------------------------------------------
(* The theorems *)

LEMMA TypesStep ==
  ASSUME IInv, [Next]_vars
  PROVE  BasicTypes'
  <1> USE DEF IInv
  <1>0. BasicTypes
    OBVIOUS
  <1>1. /\ pc' \in [Node -> PC] /\ phase' \in [Node -> 0..3] /\ counter' \in [1..3 -> Nat]
        /\ now' \in Nat /\ wakeAt' \in [Node -> Nat]
        /\ created' \in [Honest -> Nat] /\ ticks' \in [Honest -> Nat]
        /\ startedAt' \in [Honest -> Nat]
    BY PhaseStep, CountersStep, TimeStep, TicksStep
  <1>2. channel' \in [Honest -> Seq(Command)]
    <2>0. channel \in [Honest -> Seq(Command)]
      BY DEF BasicTypes
    <2>1. ASSUME NEW n \in Node, SendSubscribe(n) \/ SendStart(n) \/ SendStop(n)
          PROVE  channel' \in [Honest -> Seq(Command)]
      <3>1. PICK x \in Command : n \in Honest /\ Sends(n, x)
        BY <2>1, Sending
      <3>2. Append(channel[n], x) \in Seq(Command)
        BY <2>0, <3>1, ChannelFacts
      <3>3. channel' = [channel EXCEPT ![n] = Append(channel[n], x)]
        BY <3>1 DEF Sends
      <3> QED
        BY <2>0, <3>2, <3>3
    <2>2. ASSUME NEW n \in Honest, Receive(n) PROVE channel' \in [Honest -> Seq(Command)]
      <3>1. channel[n] # <<>> /\ channel' = [channel EXCEPT ![n] = Tail(channel[n])]
        BY <2>2, Receiving
      <3>2. Tail(channel[n]) \in Seq(Command)
        BY <2>0, <3>1, TailFacts
      <3> QED
        BY <2>0, <3>1, <3>2
    <2> QED
      BY <2>0, <2>1, <2>2, NetworkFrames
  <1>3. /\ subscribed' \in [Honest -> BOOLEAN]
        /\ publishState' \in [Honest -> {"Awaiting", "Started", "Stopped"}]
    <2>0. /\ subscribed \in [Honest -> BOOLEAN]
          /\ publishState \in [Honest -> {"Awaiting", "Started", "Stopped"}]
      BY DEF BasicTypes
    <2>1. ASSUME NEW n \in Honest, Receive(n)
          PROVE  /\ subscribed' \in [Honest -> BOOLEAN]
                 /\ publishState' \in [Honest -> {"Awaiting", "Started", "Stopped"}]
      BY <1>0, <2>0, <2>1, Receiving
    <2> QED
      BY <2>0, <2>1, NetworkFrames
  <1>4. infos' \subseteq Node /\ listening' \subseteq Node
    BY <1>0, Frames DEF BasicTypes, PublishInfo, Listen
  <1>5. dialled' \subseteq Node \X Node /\ refused' \subseteq dialled'
    <2>0. dialled \subseteq Node \X Node /\ refused \subseteq dialled
      BY DEF BasicTypes
    <2>1. ASSUME NEW n \in Node, NEW peers \in SUBSET Node, Dials(n, peers)
          PROVE  dialled' \subseteq Node \X Node /\ refused' \subseteq dialled'
      BY <2>0, <2>1 DEF Dials
    <2>2. {Victim} \in SUBSET Node /\ Honest \subseteq Node /\ Attacker \subseteq Node
      BY Roles
    <2> HIDE DEF IInv
    <2> QED
      BY <1>0, <2>0, <2>1, <2>2, Dialling DEF IInv
  <1> QED
    BY <1>1, <1>2, <1>3, <1>4, <1>5 DEF BasicTypes

LEMMA InitIInv == Init => IInv
  <1> SUFFICES ASSUME Init PROVE IInv
    OBVIOUS
  <1>0. \A n \in Node : pc[n] = "publish_info" /\ phase[n] = 0
    BY DEF Init
  <1>1. BasicTypes
    <2>1. pc \in [Node -> PC] /\ phase \in [Node -> 0..3] /\ wakeAt \in [Node -> Nat]
      BY DEF Init, PC
    <2>2. counter \in [1..3 -> Nat] /\ now \in Nat
      BY DEF Init, Barriers
    <2>3. channel \in [Honest -> Seq(Command)]
      BY DEF Init
    <2>4. /\ subscribed \in [Honest -> BOOLEAN] /\ created \in [Honest -> Nat]
          /\ ticks \in [Honest -> Nat] /\ startedAt \in [Honest -> Nat]
          /\ publishState \in [Honest -> {"Awaiting", "Started", "Stopped"}]
      BY DEF Init
    <2>5. /\ infos \subseteq Node /\ listening \subseteq Node
          /\ dialled \subseteq Node \X Node /\ refused \subseteq dialled
      BY DEF Init
    <2> QED
      BY <2>1, <2>2, <2>3, <2>4, <2>5 DEF BasicTypes
  <1>2. PhaseOfPC
    BY <1>0 DEF PhaseOfPC, Fits
  <1>3. CountersExact
    <2>1. \A b \in 1..3 : AtBarrier(b) = {}
      BY <1>0 DEF AtBarrier, Arrived
    <2>2. \A b \in 1..3 : counter[b] = 0
      BY DEF Init, Barriers
    <2> QED
      BY <2>1, <2>2, FS_EmptySet DEF CountersExact
  <1>4. LockstepInv
    BY <1>0 DEF LockstepInv, Arrived
  <1>5. ListeningInv /\ AttackersDialled /\ VictimReached
    BY <1>0, Roles DEF Init, ListeningInv, AttackersDialled, VictimReached, Bound, HasDialled
  <1>6. SubscribesFirst
    BY <1>0, Roles DEF Init, SubscribesFirst, Asked
  <1>7. CommandsInv
    BY DEF Init, CommandsInv
  <1>8. TimeInv
    <2>1. Slept = {} /\ Ran = {}
      BY <1>0 DEF Slept, Ran, Asked, Started
    <2>2. Cardinality(Slept) = 0 /\ Cardinality(Ran) = 0
      BY <2>1, FS_EmptySet
    <2>3. Budget = 0
      BY <2>2, ParamsAssumption DEF Budget
    <2> QED
      BY <2>3 DEF Init, TimeInv
  <1>9. TicksInv
    BY DEF Init, TicksInv
  <1> QED
    BY <1>1, <1>2, <1>3, <1>4, <1>5, <1>6, <1>7, <1>8, <1>9 DEF IInv

LEMMA StepIInv == IInv /\ [Next]_vars => IInv'
  BY TypesStep, PhaseStep, CountersStep, LockstepStep, ListeningStep, ReachedStep,
     DialledStep, SubscribesFirstStep, CommandsStep, TimeStep, TicksStep DEF IInv

\* The inductive invariant: where the instances are, what waits in their channels,
\* what they have dialled and how much time has passed fit together.
THEOREM Invariance == Spec => []IInv
  BY InitIInv, StepIInv, PTL DEF Spec

LEMMA IInvTypeOK == IInv => TypeOK
  <1> SUFFICES ASSUME IInv PROVE TypeOK
    OBVIOUS
  <1> USE DEF IInv
  <1>1. counter \in [1..Barriers -> 0..N]
    <2>1. ASSUME NEW b \in 1..3 PROVE counter[b] \in 0..N
      <3>1. AtBarrier(b) \subseteq Node
        BY DEF AtBarrier
      <3>2. Cardinality(AtBarrier(b)) <= N /\ Cardinality(AtBarrier(b)) \in Nat
        BY <3>1, Subsets
      <3> QED
        BY <3>2, Counts DEF CountersExact
    <2> QED
      BY <2>1, BarriersValue DEF BasicTypes
  <1>2. Horizon \in Nat /\ Budget \in Nat /\ Budget <= Horizon
    <2> DEFINE a == Cardinality(Slept)
               b == Cardinality(Ran)
    <2>1. a \in Nat /\ b \in Nat /\ a <= N /\ b <= N /\ N \in Nat
      BY Subsets, Counts DEF Slept, Ran
    <2>2. Warmup \in Nat /\ Run \in Nat
      BY ParamsAssumption
    <2>3. Budget = Warmup * a + Run * b /\ Horizon = N * Warmup + N * Run
      BY DEF Budget, Horizon
    <2> HIDE DEF a, b
    <2>4. /\ Warmup * a \in Nat /\ Warmup * N \in Nat /\ Warmup * a <= Warmup * N
          /\ Run * b \in Nat /\ Run * N \in Nat /\ Run * b <= Run * N
      BY <2>1, <2>2, Weight
    <2>5. N * Warmup = Warmup * N /\ N * Run = Run * N
      BY <2>1, <2>2
    <2> QED
      BY <2>3, <2>4, <2>5
  <1>3. /\ now \in 0..Horizon
        /\ wakeAt \in [Node -> 0 .. Horizon + Warmup + Run]
        /\ created \in [Honest -> 0..Horizon]
        /\ ticks \in [Honest -> 0 .. Horizon + 1]
        /\ startedAt \in [Honest -> 0..Horizon]
    <2>1. /\ now \in Nat /\ wakeAt \in [Node -> Nat] /\ created \in [Honest -> Nat]
          /\ ticks \in [Honest -> Nat] /\ startedAt \in [Honest -> Nat]
          /\ now <= Budget /\ \A n \in Node : wakeAt[n] <= Budget
      BY DEF BasicTypes, TimeInv
    <2>2. now <= Horizon
      BY <1>2, <2>1
    <2>3. ASSUME NEW n \in Node PROVE wakeAt[n] \in 0 .. Horizon + Warmup + Run
      BY <1>2, <2>1, ParamsAssumption
    <2>4. ASSUME NEW n \in Honest
          PROVE  /\ created[n] \in 0..Horizon /\ startedAt[n] \in 0..Horizon
                 /\ ticks[n] \in 0 .. Horizon + 1
      BY <1>2, <2>1, <2>2 DEF TicksInv
    <2> QED
      BY <1>2, <2>1, <2>2, <2>3, <2>4
  <1> QED
    BY <1>1, <1>3, BarriersValue DEF BasicTypes, TypeOK

\* Every variable keeps its type: no barrier is signalled more often than there are
\* instances, and the run takes no longer than all its sleeps one after the other.
THEOREM TypeCorrect == Spec => []TypeOK
  BY Invariance, IInvTypeOK, PTL

\* However long commands wait in the channels, a network publishes only when it is
\* subscribed and every other instance has asked to be, or has dialled the victim.
THEOREM WarmupFirst == Spec => []PublishAfterWarmup
  <1>1. IInv => PublishAfterWarmup
    <2> SUFFICES ASSUME IInv, NEW n \in Honest, publishState[n] # "Awaiting"
                 PROVE  /\ subscribed[n]
                        /\ \A m \in Honest : subscribed[m] \/ channel[m] # <<>>
                        /\ \A m \in Attacker : <<m, Victim>> \in dialled
      BY DEF PublishAfterWarmup
    <2>1. phase[n] >= 2 /\ n \in Node
      BY Roles DEF IInv, CommandsInv
    <2>2. ASSUME NEW m \in Node PROVE Asked(m) /\ HasDialled(m)
      <3>1. phase[n] <= Arrived(m) /\ phase[m] \in 0..3 /\ phase[n] \in 0..3
        BY <2>1, <2>2 DEF IInv, LockstepInv, BasicTypes
      <3> QED
        BY <2>1, <3>1 DEF Arrived, Asked, HasDialled
    <2> QED
      BY <2>2, Roles DEF IInv, SubscribesFirst, AttackersDialled
  <1> QED
    BY <1>1, Invariance, PTL

\* No dial of an attacker is refused: the victim, like every instance, has bound
\* its socket before the first barrier lets anybody through.
THEOREM VictimListens == Spec => []VictimReached
  <1>1. IInv => VictimReached
    BY DEF IInv
  <1> QED
    BY <1>1, Invariance, PTL

\* What the publish interval does keep: one message per interval since it was
\* created, and one at its creation.  (Since publishing started it is RateKept.)
THEOREM RateSinceCreation == Spec => [](\A n \in Honest : ticks[n] <= now - created[n] + 1)
  <1>1. IInv => \A n \in Honest : ticks[n] <= now - created[n] + 1
    BY DEF IInv, TicksInv
  <1> QED
    BY <1>1, Invariance, PTL

\* The three roles go through the same three barriers, whichever way they wait:
\* each step is an arrival, a passage or no step of BarrierRounds.
THEOREM BarriersRefined == Spec => ImplementsBarriers
  <1>1. Init => Rounds!Init
    BY DEF Init, Rounds!Init
  <1>2. IInv /\ [Next]_vars => [Rounds!Next]_(Rounds!vars)
    <2> SUFFICES ASSUME IInv, [Next]_vars PROVE [Rounds!Next]_(Rounds!vars)
      OBVIOUS
    <2>0. /\ BasicTypes /\ PhaseOfPC /\ CountersExact
          /\ pc \in [Node -> PC] /\ phase \in [Node -> 0..3]
      BY DEF IInv, BasicTypes
    <2>1. ASSUME NEW n \in Node, Signal(n) PROVE Rounds!Arrive(n)
      <3>1. /\ phase[n] \in 0..2 /\ pc[n] = "signal" /\ phase' = phase
            /\ pc' = [pc EXCEPT ![n] = "barrier"]
        BY <2>0, <2>1 DEF Signal, Goto, PhaseOfPC, Fits
      <3>2. Arrived(n) = phase[n] /\ Arrived(n) < Barriers
        BY <3>1 DEF Arrived, Barriers
      <3>3. \A m \in Node : Arrived(m)' = IF m = n THEN Arrived(m) + 1 ELSE Arrived(m)
        BY <2>0, <3>1 DEF Arrived
      <3> QED
        BY <3>1, <3>2, <3>3 DEF Rounds!Arrive, Arrived
    <2>2. ASSUME NEW n \in Node, PassBarrier(n) PROVE Rounds!Pass(n)
      <3>1. /\ phase[n] \in 0..2 /\ pc[n] = "barrier" /\ phase' = [phase EXCEPT ![n] = @ + 1]
            /\ counter[phase[n] + 1] >= N
        BY <2>0, <2>2 DEF PassBarrier, PhaseOfPC, Fits
      <3>2. \A m \in Node : Arrived(m)' = Arrived(m)
        BY <2>0, <2>2, PassKeepsArrived
      <3>3. phase[n] + 1 \in 1..3 /\ Arrived(n) = phase[n] + 1
        BY <3>1 DEF Arrived
      <3>4. \A m \in Node : Arrived(m) >= Arrived(n)
        BY <2>0, <3>1, <3>3, FullBarrier
      <3> QED
        BY <3>1, <3>2, <3>3, <3>4 DEF Rounds!Pass, Arrived
    <2>3. CASE Quiet \/ \E n \in Node : Moves(n)
      BY <2>0, <2>3, OthersKeepArrived DEF Rounds!vars, Arrived
    <2> QED
      BY <2>0, <2>1, <2>2, <2>3, Steps, ElsewhereQuiet DEF Rounds!Next
  <1> QED
    BY <1>1, <1>2, Invariance, PTL DEF Spec, ImplementsBarriers

=============================================================================
