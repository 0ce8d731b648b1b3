----------------------------- MODULE Censoring -----------------------------
(***************************************************************************)
(* The censoring test plan: censoring/src, main.rs, honest.rs and the      *)
(* run() of attacker.rs.                                                   *)
(*                                                                         *)
(* An honest instance runs two tasks: main() goes through the stages of    *)
(* the plan, sleeps, and commands through an unbounded channel the task    *)
(* spawned for the network, which publishes at every tick of an interval.  *)
(* An attacker polls its swarm itself while it waits at the barriers.      *)
(* What is EXTERNAL is modelled by what the plan uses of it.               *)
(***************************************************************************)
EXTENDS Integers, Sequences, FiniteSets, MetricFamilies

CONSTANTS
    Publisher, Lurker, Attacker,    \* the instances, by role
    Victim,             \* the publisher whose group_seq is 1
    PeersToConnect,     \* peers_to_connect
    Warmup, Run         \* the two sleeps, in publish intervals

Honest == Publisher \cup Lurker
Node == Honest \cup Attacker
N == Cardinality(Node)      \* test_instance_count

ASSUME RolesAssumption ==
    /\ IsFiniteSet(Node)
    /\ Publisher \cap Lurker = {} /\ Honest \cap Attacker = {}
ASSUME VictimAssumption == Victim \in Publisher
ASSUME ParamsAssumption == PeersToConnect \in Nat /\ Warmup \in Nat /\ Run \in Nat

VARIABLES
    now,            \* time, in publish intervals
    \* the state of main()
    pc,             \* where it is
    phase,          \* how many barriers it has passed
    wakeAt,         \* when its sleep ends
    \* the state of HonestNetwork, and of its channel
    channel,        \* commands sent and not received
    subscribed,     \* it has subscribed to the topic
    publishState,   \* publish_state
    created,        \* when publish_interval was created
    ticks,          \* how many of its ticks were taken: messages published
    startedAt,      \* when it received StartPublishing
    \* EXTERNAL: the sync service, and the sockets
    infos,          \* instances whose info was published
    counter,        \* counter[b]: signals received for barrier b
    listening,      \* instances whose socket is bound
    dialled,        \* dials made, as pairs of dialer and target
    refused         \* those that were refused

main == <<pc, phase, wakeAt>>
network == <<channel, subscribed, publishState, created, ticks, startedAt>>
sync == <<infos, counter>>
conns == <<listening, dialled, refused>>
vars == <<now, main, network, sync, conns>>

\* Started libp2p, Warmup, Done
Barriers == 3

PC == {"publish_info", "collect", "listen", "setup_discovery", "signal", "barrier",
       "subscribe", "warmup", "start_publishing", "publishing", "dial_victim",
       "record_metrics", "done", "panicked"}

Command == {"Subscribe", "StartPublishing", "StopPublishing"}

Horizon == N * Warmup + N * Run     \* time passes only while a sleep lasts

TypeOK ==
    /\ now \in 0..Horizon
    /\ pc \in [Node -> PC]
    /\ phase \in [Node -> 0..Barriers]
    /\ wakeAt \in [Node -> 0 .. Horizon + Warmup + Run]
    /\ channel \in [Honest -> Seq(Command)]
    /\ subscribed \in [Honest -> BOOLEAN]
    /\ publishState \in [Honest -> {"Awaiting", "Started", "Stopped"}]
    /\ created \in [Honest -> 0..Horizon]
    /\ ticks \in [Honest -> 0 .. Horizon + 1]
    /\ startedAt \in [Honest -> 0..Horizon]
    /\ infos \subseteq Node
    /\ counter \in [1..Barriers -> 0..N]
    /\ listening \subseteq Node
    /\ dialled \subseteq Node \X Node
    /\ refused \subseteq dialled

Init ==
    /\ now = 0
    /\ pc = [n \in Node |-> "publish_info"]
    /\ phase = [n \in Node |-> 0]
    /\ wakeAt = [n \in Node |-> 0]
    /\ channel = [n \in Honest |-> <<>>]
    /\ subscribed = [n \in Honest |-> FALSE]
    /\ publishState = [n \in Honest |-> "Awaiting"]
    /\ created = [n \in Honest |-> 0]
    /\ ticks = [n \in Honest |-> 0]
    /\ startedAt = [n \in Honest |-> 0]
    /\ infos = {}
    /\ counter = [b \in 1..Barriers |-> 0]
    /\ listening = {} /\ dialled = {} /\ refused = {}

Goto(n, place) == pc' = [pc EXCEPT ![n] = place]

----------------------------------------------------------------------------
(* All roles *)

PublishInfo(n) ==
    /\ pc[n] = "publish_info"
    /\ infos' = infos \cup {n}
    /\ Goto(n, "collect")
    /\ UNCHANGED <<now, phase, wakeAt, network, counter, conns>>

Collect(n) ==
    /\ pc[n] = "collect"
    /\ infos = Node
    /\ Goto(n, "listen")
    /\ UNCHANGED <<now, phase, wakeAt, network, sync, conns>>

\* The network of an honest instance is built: its interval starts to tick.
\* listen_on, up to the NewListenAddr event.
Listen(n) ==
    /\ pc[n] = "listen"
    /\ created' = IF n \in Honest THEN [created EXCEPT ![n] = now] ELSE created
    /\ listening' = listening \cup {n}
    /\ Goto(n, IF n \in Honest THEN "setup_discovery" ELSE "signal")
    /\ UNCHANGED <<now, phase, wakeAt, channel, subscribed, publishState, ticks,
                   startedAt, sync, dialled, refused>>

\* Mutant: the signal is sent again each time the wait is polled.
SignalAgain(n) ==
    /\ pc[n] \in {"signal", "barrier"}
    /\ counter' = [counter EXCEPT ![phase[n] + 1] = @ + 1]
    /\ Goto(n, "barrier")
    /\ UNCHANGED <<now, phase, wakeAt, network, infos, conns>>

Signal(n) ==
    /\ pc[n] = "signal"
    /\ counter' = [counter EXCEPT ![phase[n] + 1] = @ + 1]
    /\ Goto(n, "barrier")
    /\ UNCHANGED <<now, phase, wakeAt, network, infos, conns>>

\* Mutant: a lurker has nothing to publish and skips the last barrier.
AfterBarrierLurkerEnds(n, k) ==
    IF n \in Attacker THEN <<"dial_victim", "signal", "done">>[k]
    ELSE IF n \in Publisher THEN <<"subscribe", "start_publishing", "record_metrics">>[k]
    ELSE <<"subscribe", "record_metrics", "record_metrics">>[k]

\* Where main() continues after its k-th barrier.
AfterBarrier(n, k) ==
    IF n \in Attacker THEN <<"dial_victim", "signal", "done">>[k]
    ELSE IF n \in Publisher THEN <<"subscribe", "start_publishing", "record_metrics">>[k]
    ELSE <<"subscribe", "signal", "record_metrics">>[k]

\* Mutant: goes on when one instance is still missing.
PassBarrierEarly(n) ==
    /\ pc[n] = "barrier"
    /\ counter[phase[n] + 1] >= N - 1
    /\ phase' = [phase EXCEPT ![n] = @ + 1]
    /\ Goto(n, AfterBarrier(n, phase[n] + 1))
    /\ UNCHANGED <<now, wakeAt, network, sync, conns>>

PassBarrier(n) ==
    /\ pc[n] = "barrier"
    /\ counter[phase[n] + 1] >= N
    /\ phase' = [phase EXCEPT ![n] = @ + 1]
    /\ Goto(n, AfterBarrier(n, phase[n] + 1))
    /\ UNCHANGED <<now, wakeAt, network, sync, conns>>

Dials(n, targets) ==
    /\ dialled' = dialled \cup ({n} \X targets)
    /\ refused' = refused \cup ({n} \X (targets \ listening))

\* An attacker dials the victim.
DialVictim(n) ==
    /\ pc[n] = "dial_victim"
    /\ Dials(n, {Victim})
    /\ Goto(n, "signal")
    /\ UNCHANGED <<now, phase, wakeAt, network, sync, listening>>

----------------------------------------------------------------------------
(* The main() of an honest instance *)

\* The first peers_to_connect of the other honest instances, shuffled: the
\* slice panics if there are fewer.  The dials start connecting at once.
SetupDiscovery(n) ==
    /\ pc[n] = "setup_discovery"
    /\ IF PeersToConnect > Cardinality(Honest \ {n})
       THEN Goto(n, "panicked") /\ UNCHANGED <<dialled, refused>>
       ELSE /\ \E peers \in SUBSET (Honest \ {n}) :
                  Cardinality(peers) = PeersToConnect /\ Dials(n, peers)
            /\ Goto(n, "signal")
    /\ UNCHANGED <<now, phase, wakeAt, network, sync, listening>>

SendCommand(n, command) == channel' = [channel EXCEPT ![n] = Append(@, command)]

SendSubscribe(n) ==
    /\ pc[n] = "subscribe"
    /\ SendCommand(n, "Subscribe")
    /\ wakeAt' = [wakeAt EXCEPT ![n] = now + Warmup]
    /\ Goto(n, "warmup")
    /\ UNCHANGED <<now, phase, subscribed, publishState, created, ticks, startedAt,
                   sync, conns>>

WarmupEnds(n) ==
    /\ pc[n] = "warmup"
    /\ now >= wakeAt[n]
    /\ Goto(n, "signal")
    /\ UNCHANGED <<now, phase, wakeAt, network, sync, conns>>

SendStart(n) ==
    /\ pc[n] = "start_publishing"
    /\ SendCommand(n, "StartPublishing")
    /\ wakeAt' = [wakeAt EXCEPT ![n] = now + Run]
    /\ Goto(n, "publishing")
    /\ UNCHANGED <<now, phase, subscribed, publishState, created, ticks, startedAt,
                   sync, conns>>

SendStop(n) ==
    /\ pc[n] = "publishing"
    /\ now >= wakeAt[n]
    /\ SendCommand(n, "StopPublishing")
    /\ Goto(n, "signal")
    /\ UNCHANGED <<now, phase, wakeAt, subscribed, publishState, created, ticks,
                   startedAt, sync, conns>>

\* The metrics are encoded, turned to queries by a match over the families of
\* the registry, and recorded; and main() ends, the network with it.
RecordMetrics(n) ==
    /\ pc[n] = "record_metrics"
    /\ Goto(n, IF Recordable(CensoringArms) THEN "done" ELSE "panicked")
    /\ UNCHANGED <<now, phase, wakeAt, network, sync, conns>>

----------------------------------------------------------------------------
(* The network task.  It may be busy for as long as record_peer_scores takes, *)
(* so it takes its steps at any time.                                         *)

\* spawn() was called and main() has not returned.
Spawned(n) ==
    pc[n] \notin {"publish_info", "collect", "listen", "setup_discovery", "done", "panicked"}

Receive(n) ==
    LET command == Head(channel[n]) IN
    /\ Spawned(n)
    /\ channel[n] # <<>>
    /\ channel' = [channel EXCEPT ![n] = Tail(@)]
    /\ subscribed' = [subscribed EXCEPT ![n] = @ \/ command = "Subscribe"]
    /\ publishState' = [publishState EXCEPT ![n] =
                           IF command = "StartPublishing" THEN "Started"
                           ELSE IF command = "StopPublishing" THEN "Stopped" ELSE @]
    /\ startedAt' = IF command = "StartPublishing" THEN [startedAt EXCEPT ![n] = now]
                    ELSE startedAt
    /\ UNCHANGED <<now, main, created, ticks, sync, conns>>

\* The k-th tick is ready k intervals after the creation of the interval, and
\* those that were missed while nobody took them are ready at once (Burst).
PublishTick(n) ==
    /\ Spawned(n)
    /\ publishState[n] = "Started"
    /\ ticks[n] <= now - created[n]
    /\ ticks' = [ticks EXCEPT ![n] = @ + 1]
    /\ UNCHANGED <<now, main, channel, subscribed, publishState, created, startedAt,
                   sync, conns>>

----------------------------------------------------------------------------

Sleeping(n) == pc[n] \in {"warmup", "publishing"} /\ now < wakeAt[n]

\* EXTERNAL: the clock.
TimePasses ==
    /\ \E n \in Node : Sleeping(n)
    /\ now' = now + 1
    /\ UNCHANGED <<main, network, sync, conns>>

Main(n) ==
    \/ PublishInfo(n) \/ Collect(n) \/ Listen(n) \/ Signal(n) \/ PassBarrier(n)
    \/ DialVictim(n) \/ SetupDiscovery(n) \/ SendSubscribe(n) \/ WarmupEnds(n)
    \/ SendStart(n) \/ SendStop(n) \/ RecordMetrics(n)

Next ==
    \/ \E n \in Node : Main(n)
    \/ \E n \in Honest : Receive(n) \/ PublishTick(n)
    \/ TimePasses

\* Both tasks run, and time passes.
Fairness ==
    /\ \A n \in Node : WF_vars(Main(n))
    /\ \A n \in Honest : WF_vars(Receive(n))
    /\ WF_vars(TimePasses)

Spec == Init /\ [][Next]_vars /\ Fairness

----------------------------------------------------------------------------
(* Properties *)

\* A network publishes only when every instance has been through its warmup:
\* each honest one has asked for its subscription, each attacker has dialled. The
\* commands wait in a channel while the network is busy; it takes them in the order
\* main() sends them, so that it is itself subscribed before it publishes.
PublishAfterWarmup ==
    \A n \in Honest : publishState[n] # "Awaiting" =>
        /\ subscribed[n]
        /\ \A m \in Honest : subscribed[m] \/ channel[m] # <<>>
        /\ \A m \in Attacker : <<m, Victim>> \in dialled

\* An attacker dials the victim, once, and records no failure: the victim must
\* be listening although the honest instances do not wait for each other.
VictimReached == \A m \in Attacker : <<m, Victim>> \notin refused

Rounds == INSTANCE BarrierRounds WITH
            arrived <- [n \in Node |-> phase[n] + (IF pc[n] = "barrier" THEN 1 ELSE 0)],
            passed <- phase

\* "Sets a barrier on the supplied state that fires when it reaches all
\* participants." (utils.rs:66), for the two roles that wait in different ways.
ImplementsBarriers == Rounds!Init /\ [][Rounds!Next]_(Rounds!vars)

\* No role waits at a barrier another skips: every instance gets past all of
\* them, to the end of its main() or to the recording of its metrics.
AllPassBarriers == <>(\A n \in Node : phase[n] = Barriers /\ pc[n] \in {"done", "panicked"})

\* "The number of messages to publish per 1 second." (manifest.toml:18): one in
\* each interval since publishing started, and one at its start.
RateKept ==
    \A n \in Honest : publishState[n] = "Started" => ticks[n] <= now - startedAt[n] + 1

\* "Connect to some of the honest nodes" (README.md:24): the dials of the honest
\* instances find their targets listening.
HonestReached == refused = {}

\* `_ => unreachable!()` (honest.rs:264), the last arm of the match over the
\* metric families: no instance panics before it has recorded its metrics.
NoPanic == \A n \in Node : pc[n] # "panicked"

============================================================================
