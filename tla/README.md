# Specifications of the gossipsub testground plans

TLA+ specifications of the programs in this repository: three simulations of
gossipsub networks (`eth_consensus`, `censoring`, `scoring`), a `smoke` test, and
the generator of the topologies two of them run on. Each plan is a program that
testground starts once per instance, in many containers at the same time. The
instances share nothing but the testground sync service (published infos, and
barriers that are counters) and the libp2p connections they make. What can go
wrong is therefore in how the instances' steps interleave: who listens when whom
dials, who is past which barrier, which event is taken off the swarm by which
loop. Those are the questions the modules ask.

Lines are given as `file:line` below the plan's `src/`, or its directory.

## 1. Inventory

| Component | State | Operations | What makes it correct |
|---|---|---|---|
| **smoke** `main()` (`smoke/src/main.rs`) | where main() is; `event_subscribed`, `event_message`; `all_peers` | listen, publish and collect addresses, choose and dial a peer, subscribe, wait for subscriptions, publish, wait for messages, four barriers that poll the swarm | every instance succeeds; no event is lost between its event loops; no message reaches the loop that panics on one |
| **topology generator** (`eth_consensus/utils/gen_topology/src/lib.rs`) | validator assignments, connection map, outbound peers | `Network::generate`, `Network::new` | degrees in range, each edge dialled once, validators at the first nodes, a bad network refused |
| **eth_consensus simulation** (`eth_consensus/simulation/src`) | `messages_to_validate`, `influx_db_handles`, the swarm, the message generator | setup with three waits; `run_sim`: publish, handle events, validate after a delay, spawn metrics tasks, deadline | no dial is refused, messages propagate, no task is cut off |
| **metrics**, in `network/metrics.rs` and `utils.rs` of eth_consensus, `beacon_node.rs` and `utils.rs` of scoring, `honest.rs` and `utils.rs` of censoring | gossipsub's registry; one task per tick, each with its snapshot; scoring: messages received by topic and epoch | match each family to its type, turn counters into Influx queries, join two counters into a third, write | no point replaces another, no series goes back, the duplicates and the counts per epoch are right, no family is without an arm |
| **censoring** honest instances (`honest.rs`) | two tasks and the channel between them; `publish_state`, `publish_interval` | spawn network, dial, three barriers, two sleeps, commands | commands take effect in order; the publishing rate; all succeed |
| **censoring** attacker (`attacker.rs`) | swarm; queue of events; delayed grafts | dial the victim, GRAFT what it announces in fragments of limited size, answer PRUNE by a delayed GRAFT, drop messages | the victim is reached; no topic is forgotten; the backoff is obeyed; the attacker gets back into the mesh |
| **scoring** beacon node (`beacon_node.rs`) | as eth_consensus, and counts of messages per epoch | as eth_consensus, with attackers to collect and a final barrier | no deadlock between the groups, propagation, the counts |
| **scoring** attacker (`attacker.rs`) | target; the network behaviour as in censoring | collect beacon nodes, choose a target, dial it | all attackers choose the node with the most validators |
| parameters, transports, records, dashboards, Docker, `gen_topology_files` | - | parsing, formatting, I/O | - |

Interactions: each plan calls the sync service (`publish`, `subscribe`,
`signal_and_wait`, `barrier`), and drives a libp2p `Swarm` by polling it. A barrier
is passed when its state has been signalled by at least as many as
`test_instance_count`; it is never reset. A swarm that nobody polls makes no
progress, which matters because three kinds of wait exist: the smoke plan and the
attackers poll their swarm while they wait (`barrier_and_drive_swarm`), the
eth_consensus and beacon nodes do not (`signal_and_wait`), and the honest
instances of censoring have a task of their own that polls.

The behaviours that are hard to test are listed, at their lines, under `hazards`
in `PROJECT.json`. In short: events that arrive in another loop than the one that
counts them; waits that were meant for all and return for fewer; dials that are
made once and never retried; messages held until a report; tasks at the end of a
run; an interval that is created before it is polled; unsigned subtractions and
slices at a boundary.

## 2. Modules

| Module | Models | Instantiated by |
|---|---|---|
| `BarrierRounds` | abstract: participants that arrive at and pass rounds of barriers | all the plans, as the specification they implement |
| `Smoke` | `smoke/src/main.rs` with the swarm and the sync service it uses | `Smoke3.cfg` |
| `SmokeProofs` | theorems about `Smoke` | - |
| `GenTopology` | `lib.rs`, `Network::generate` and `Network::new` | `GenTopology4.cfg` |
| `GenTopologyProofs` | theorems about `GenTopology` | - |
| `Gossipsub` | external: connections, subscriptions and messages held for validation | `EthConsensus`, `Scoring` |
| `EthConsensus` | `run.rs`, `network.rs`, `main.rs` of the simulation | `MCEthConsensus` with `EthLine.cfg`, `EthDialled.cfg` |
| `Censoring` | `main.rs`, `honest.rs`, `utils.rs`, `run()` of `attacker.rs` | `Censoring3.cfg`, `CensoringRate.cfg`, `CensoringDials.cfg`, `CensoringMetrics.cfg` |
| `Scoring` | `main.rs`, `beacon_node.rs`, `run()` of `attacker.rs` | `MCScoring` with `ScoringTwoGroups.cfg`, `ScoringPropagation.cfg` |
| `MaliciousBehaviour` | the network behaviour of both attackers (`censoring/src/attacker.rs:132-447`, `scoring/src/attacker.rs:207-551`), with an external swarm and victim | `MCMaliciousBehaviour` with `Malicious.cfg` |
| `MaliciousBehaviourProofs` | theorems about `MaliciousBehaviour` | - |
| `EthConsensusProofs`, `CensoringProofs`, `ScoringProofs`, `RecordingProofs` | theorems about `EthConsensus`, `Censoring`, `Scoring`, `Recording` | - |
| `NaturalLemmas` | lemmas about rank, bounded induction and recursive functions on the naturals | the proofs of `GenTopology`, `MaliciousBehaviour`, `Recording` |
| `MetricFamilies` | the metric families gossipsub registers (external) and the arms of each plan's `record_metrics` | `Censoring`, `Recording` |
| `Recording` | `metrics.rs` and `utils.rs` of eth_consensus; the counts and the recording of `beacon_node.rs` and `utils.rs` of scoring | `MCRecording` with `Recording.cfg` |

### State and actions

In every plan `pc[n]` is where instance `n` is in its `main()` or `run()`, named by
what it does next, and `phase[n]` counts the barriers it is through. `counter` and
the topics (`addresses`, `infos`, `beaconInfos`, `attackerInfos`) are the sync service.
A topic is a sequence where its order matters to the reader, a set otherwise. An
action runs from one suspension point (`.await`) to the next; what an instance does in between is
not visible to another. The `signal` and the wait of a barrier are two actions,
so that other instances come between them.

`Smoke`. `dial`, `eventSubscribed`, `allPeers` and `eventMessage` are the locals of
`main()`. `chan[<<m, n>>]` are the packets on the connection between `m` and `n`, in
their order; `accepted` and `reported` separate the moments at which the target
of a dial accepts it and is told of it. `Receives` is the set of loops a
`ConnectionEstablished` or a gossipsub event may arrive in: the same packet is
handled by `HandleSubscribed` and `HandleMessage` in each of the loops, with the
effect that loop has. `PeerAddr` is the choice of the peer to dial: each instance shuffles the
same log with the same seed, so all permute positions in the same way; the
constant `Slot` is where the permutation puts the last position, and nothing else
of it is observable.

`GenTopology`. The steps of `generate()`: `AssignValidators` (the cuts and windows),
`ExpectConnections` (the draws of the degrees), `AddConnection` and `SkipConnection` (one
iteration of the loop over the shuffled candidates), `StopConnecting`, and `Check`
(`Network::new`). The random draws are choices: whatever the generator returns for
any seed is among them. `CutCount` wraps below zero as `usize` does in a release build.

`EthConsensus`. The branches of `select!` in `run_sim` are one action each: `Publish`,
`MetricsTick`, `RemoveHandle`, `HandleMessage` / `HandleOther`, `Validate`, `Deadline`. `toValidate`
is `messages_to_validate`, a delay queue whose entries come out in any order.
`running` and `finished` are the tasks in `influx_db_handles`. Topics are one topic,
and the message of a node stands for the messages of its validators.

`Censoring`. An honest instance has a `pc` for `main()` and, for the spawned
`HonestNetwork`, the `channel` of commands, `publishState` and the interval, which is
given by when it was `created` and how many `ticks` were taken. `now` is the time in
intervals; it moves only while an instance sleeps and stops at the next wake-up. An
honest instance ends in `done`, or in `panicked` if a metric family has no arm.

`Scoring`. The two groups as in the code: `Targets(n)` is the outbound peers of a
beacon node and the `target` of an attacker; the attackers choose theirs with
`FirstWithMost`, the fold over the log of infos. `HandleEvent` reports nothing to
gossipsub, as the code does not.

`MaliciousBehaviour`. `events` is the queue of that name, and `regraft` the delay set with the
time each of its timers has left; both are per topic, since the attacker has one
peer. `InjectEvent` is `inject_event` with an RPC: `HandleReceivedSubscriptions` queues one message of
GRAFTs, cut by `FragmentMessage`; `Regraft` is `handle_prune`. `PollEvent` and `PollRegraft` are the two ways
through `poll()`: an event is yielded if there is one, and only an empty queue lets it look
at the delay set, whose due GRAFTs it queues and then returns `Pending`. The swarm is external, in
libp2p's order: it polls the `behaviour` until that is pending, then the connections (`pool`),
and is `asleep` until a timer or a packet wakes it. `PollRegraft` leaves `events` non-empty in a swarm
that may go to sleep on it: that is what `Regrafted` is about. The victim is external too: a gossipsub
node that announces topics, takes in or refuses the attacker, prunes it at any heartbeat, grafts it
by itself, and keeps a backoff for each topic.

`Recording`. `log` is what gossipsub has published and received; its counters are functions of it
(`RecvCounts`, `RecvCountsUnfiltered`), and the time of a snapshot is its length. `Tick` is the branch of
`run_sim` that encodes the registry and spawns a task: a sequence of points with the `next`
one to be written. `Write` and `FailToWrite` of different tasks interleave. `received` is the maps and
sets the beacon node counts in, fed by `HandleEvent`, and written by `Deadline` once the loop is
`over`. `db` is a function from series and time to a value: a point replaces one with the same
tags and time, as in InfluxDB.

## 3. Runs

Every passing run checks the module's type invariant and the properties below on
all the reachable states. "Mutant" is the change to the code that each property
is known to catch; they are in the modules, under the name `PROJECT.json` gives.

| Run | Instance and bounds | What it shows |
|---|---|---|
| `smoke_three` | 3 instances | `UnreachableNeverHit`, `NoMessageLost`, `SuccessMeansAllReceived`, `DialsFormTree`, `ImplementsBarriers`, and that all succeed |
| `topology_four` | 4 nodes, 3 validators, 2 nodes with validators, degrees 1-2 | `DegreeBound`, `OneDialPerConnection`, `NothingLeftToConnect`, `RefusedOnlyIfIsolated` for every draw |
| `eth_line` | 3 nodes in a line, 2 publish, 1 metrics task at a time | `NoDialRefused`, `HeldIsQueued`, `NoTaskCutOff`, `ImplementsBarriers` (two rounds), `Propagates`, `AllSucceed` |
| `eth_dialled` | the same line, all publish | **violated** `AllDialledBeforeRun`: the third wait reuses the state of the first |
| `censoring_three` | one publisher, one lurker, one attacker | `PublishAfterWarmup`, `VictimReached`, `ImplementsBarriers`, `AllPassBarriers` |
| `censoring_rate` | one publisher, one lurker, a warmup of two intervals | **violated** `RateKept`: a burst at the start |
| `censoring_dials` | as `censoring_three` | **violated** `HonestReached`: dials before the barrier |
| `censoring_metrics` | as `censoring_three` | **violated** `NoPanic`: four metric families have no arm in the match |
| `scoring_groups` | 3 beacon nodes in a line, 2 tied for the most validators, 2 attackers, the messages of one node followed | `SingleTarget`, `AllDialledBeforeRun`, `ImplementsBarriers`, `AllSucceed` |
| `scoring_propagation` | the same, 1 attacker | **violated** `Propagates`: messages are never reported as validated |
| `attacker` | two topics whose GRAFTs do not fit into one message | `NoTopicForgotten`, `DelayCoversBackoff`, `QueuedOrWaiting`, `Regrafted`, and no deadlock |
| `recording` | either plan, four messages around the boundary of two epochs | `EpochCounts`, `DuplicatesExact`, `SeriesMonotone`, `NothingOverwritten`, `SeriesInitialised` |

A violated run states what a comment, a README or a manifest of the repository
says; the disagreement is quoted in `findings` of `PROJECT.json`. Two of them concern what
the simulations measure and two how they connect; `censoring_metrics` concerns their end: an
honest instance of the censoring plan does not record success, since it
panics on the first family it has no arm for. That is why `censoring_three`
states `AllPassBarriers` where the other plans state `AllSucceed`.

Some properties are about the waits a plan makes in order to be allowed to
continue (that `publish` finds a subscribed peer, that no `Subscribed` event goes uncounted).
Where breaking such a wait would stop an instance or end it with an error, `AllSucceed` says
so already and there is no property of its own.

### Bounds, and why they are enough

* Three instances give every kind of pair (dialer and dialled, one hop and two
  hops, ahead and behind at a barrier) and a third party to come between. A barrier
  depends only on whether the counter is below the number of instances, so more
  instances add no case; for `Smoke` this is proved. That the dials form a tree is proved for
  every number of instances too.
* `MaxHandles` bounds the metrics tasks of a node that are not removed yet. One is
  enough for a task that ends before, at and after the deadline, since the tasks do
  not interact.
* One message per publisher: messages do not interact in the loops other than by
  their order in the swarm, and three nodes with two messages have all those orders.
  `Publishers` of `Scoring` bounds whose messages are followed.
* `Horizon` of `Censoring` bounds the clock by the sum of the sleeps, which is
  reached only if the instances sleep one after the other.
* The topologies of `MCEthConsensus` and `MCScoring` are lines: the sparsest the
  generator accepts, with a node whose message has to be forwarded.
* `Malicious.cfg`: the sizes (GRAFTs of 40 and 45 bytes, messages of at most 90) are scaled so that
  two topics, not a thousand, are split. `MaxInFlight` is 2: a PRUNE and a GRAFT can cross, and a
  second PRUNE follow. `VictimSends`, which the attacker ignores, is only taken when nothing is
  on the way, as it matters only for waking a swarm that sleeps. A backoff of two units and
  a margin of one tell "within", "in the margin" and "after" apart.
* `Recording.cfg`: `MaxLog` is 3, so a message, its duplicate and another, of the same or the next
  epoch; `MaxTasks` 2, so that in both plans two snapshots of the loop overtake each other, next to the
  zeros of `initialise_metrics` (eth_consensus) or the counts at the end (scoring); `MaxFailures` 1.
  There is no block among the messages: that its count is exact too is shown by the theorem
  `EpochsCounted` only. This is the longest run, about two minutes. The families come in hash order. Of the
  two that are joined one order is fixed: the join depends on their relative order only, and
  the other one is in every order.
* `GenTopology` with four nodes has networks that are accepted and refused, full
  nodes in every order, and nodes left short.

### Fairness

* `WF` of each instance's own steps (`Main`, `Setup`): the runtime polls a task that is
  ready. A wait is enabled only once its condition holds, and then stays so.
* `WF` of the branches of `run_sim` separately (`Receive`, `Publish`, `Validation`,
  `RemoveHandle`): `tokio::select!` chooses at random among the branches that are ready,
  none of them is disabled by the others, and none is given priority.
* `WF` of `Connect` and of the receipt of a packet: a connection over TCP delivers. The
  plans configure no loss.
* `WF` of `TaskEnds`: a metrics task ends, since a write to the database returns.
* `WF` of `TimePasses` in `Censoring`.
* `MaliciousBehaviour`: `WF` of `Swarm` (the executor polls a task that was woken), `Tick` (time passes),
  `VictimHandlesGraft` (the connection delivers, the victim reads), and `VictimSends`. The last is an
  assumption about the environment: a gossipsub victim sends something every heartbeat. Without
  it `Regrafted` is false, since the GRAFT `poll()` queued before it returned `Pending` stays where it is.
  No fairness of what the victim does by choice: subscribing, pruning, grafting.
* `Recording` states none: its properties are invariants.
* No fairness of `Deadline`, `Heartbeat` and `MetricsTick`. Runs may be as long as they
  like, so `Propagates` excuses only those a deadline has cut short, and `AllSucceed`
  of `EthConsensus` and `Scoring` says first that every node gets to its loop and then
  that if all the deadlines come, all succeed.
* `Smoke` counts on the heartbeat's IHAVE/IWANT for a message whose forwarding came
  before a link was in the mesh: `Gossip` is part of `Swarm(n)`, which is fair.

`CHECK_DEADLOCK FALSE` in every run but `attacker`: the programs end, and there is no step then.
That no wait hangs is what `AllSucceed` and `AllPassBarriers` say. The attacker's behaviour has no
end, so there deadlock is checked.

## 4. Proofs

Every safety invariant a passing run checks is proved for all values of the constants,
and so is `ImplementsBarriers` in all four plans: any number of instances, every shuffle, every value
of the generator's parameters, every topology, every length of a sleep, every set of messages, topics and
sizes, every backoff. The theorems assume only the named assumptions of the modules, which TLC
evaluates on every run:

| Module | Assumptions |
|---|---|
| `Smoke` | `NodeAssumption` (a finite set of at least two instances), `SlotAssumption` (where the shuffle puts the last one) |
| `GenTopology` | `ParamsAssumption`: what `Params::new` lets through |
| `EthConsensus` | `NodeAssumption`, `OutboundAssumption` (each connection is dialled from one end; `OutboundAsAssumed` proves it of the generator), `PublishersAssumption`, `HandlesAssumption` |
| `Censoring` | `RolesAssumption` (a finite set of instances, each of one role), `VictimAssumption` (a publisher), `ParamsAssumption` |
| `Scoring` | `GroupsAssumption` (two disjoint groups, one beacon node at least), `ValidatorsAssumption`, `PublishersAssumption`, `OutboundAssumption` |
| `MaliciousBehaviour` | `TopicsAssumption` (a finite set), `SizesAssumption` (a GRAFT has a length), `BackoffAssumption` (a positive backoff, any margin) |
| `Recording` | `MessageAssumption`, `NamesAssumption` (no topic has the name of a counter's measurement, and the blocks are counted in a set), `GeneratorAssumption` (one proposer to a slot, one attestation of a validator to an epoch) |

One theorem has a hypothesis of its own, `RPCsFit` of `TopicsKept`, and that is discussed with it.

### The barriers, and what rests on them

`Smoke`, `EthConsensus`, `Censoring` and `Scoring` have the same core. In each, `IInv` holds

1. `Types`, the types the other parts need;
2. `PhaseOfPC`: where an instance is determines how many barriers are behind it;
3. `CountersExact`: the counter of a barrier is the number of instances that have signalled it;
4. `LockstepInv`: nobody is through a barrier that somebody has not signalled.

(3) gives (4): a full counter is a set of arrivals of the cardinality of `Node`, hence `Node`. From
them follow `TypeCorrect` (a counter never exceeds the number of instances) and `BarriersRefined`: the
plan implements `BarrierRounds` step by step, a step of `Signal` being an arrival, a step of `PassBarrier`
a passage, any other a stutter. In `EthConsensus` the state of the first wait is signalled again by the third:
there `CountersExact` says that its counter is the sum of two sets of arrivals, which is full too
early for the third wait; `LockstepInv` is for the first two, and `BarriersRefined` for two rounds.

`SmokeProofs`. `UnreachableNeverHit` is not inductive: to know that no message reaches an instance in the
subscription loop one must know that a message exists only after its source has passed the third
barrier, and that nobody has passed it while an instance is in that loop. `IInv` therefore adds
`MessagesAfterBarrier`, for the messages on a connection or in a duplicate cache; with (4) it excludes a
message at the head of a channel to an instance with `phase` 2 (`UnreachableSafe`). `MessagesRecorded`
(`NoMessageLost`) adds `RecordedInv`: what is in a duplicate cache or on the way comes from a source that has its own message
in its cache, so that nothing comes back to it as new. `SuccessComplete` (`SuccessMeansAllReceived`) adds
`CompleteInv`: who is through the message loop has counted as many sources as there are
others, and by the lockstep that is everybody when one is done. `DialsConnect` proves `DialsFormTree` from
`DialInv`: the log of addresses has no duplicates, everybody who chooses a peer has seen all of it, and the dials
are then the choice made from the full log. The peer at one place of the permutation and the next
one dial each other, and all others dial the first or the second: a tree, in which any two
instances are at most three hops apart.

`EthConsensusProofs`. `ListeningInv` (who is past `start_libp2p` listens) and the lockstep give `DialsAccepted`
(`NoDialRefused`): the wait before `dial_peers` is the one whose state nobody else uses. `HeldQueued`
(`HeldIsQueued`) needs, besides, that a message gossipsub holds is queued once and is in the duplicate cache
(`HeldInv`), or a second copy could be queued. `TasksFinish` (`NoTaskCutOff`) rests on `HandlesInv`: no task before the
loop, none running when `run()` has returned.

`ScoringProofs`. An instance that is through its dials has made all of them, and nobody else has made any
(`DialledInv`); with the lockstep, `DialsBeforeRun` (`AllDialledBeforeRun`), and with `ListeningInv`,
`DialsAccepted` (no dial is refused; no run states it). `TargetUnique` (`SingleTarget`) needs that an
attacker chooses from a log that is complete (`TargetInv`) and that a complete log does not change any more
(`LogInv`: it lists those that have published, each once). That `FirstWithMost` returns a node with the most validators is
proved for every log.

`CensoringProofs`. A command may wait in the channel for any time, so `WarmupFirst` (`PublishAfterWarmup`) needs to know what
is in it: until a network is subscribed `Subscribe` is at the head (`SubscribesFirst`), and another command is sent
only behind the second barrier (`CommandsInv`), which all have signalled after asking for their subscription or after dialling
the victim (`AttackersDialled`). `TimeInv` bounds the clock, and so `TypeOK`: time passes only in sleeps that have begun, and each
has its budget. `VictimListens` is `VictimReached`. `RateSinceCreation` is what remains of the rate: the ticks are at most one per
interval since the interval was *created*, which is long before publishing starts; since the start it is `RateKept`,
which `censoring_rate` shows violated.

### The components

`GenTopologyProofs`. `IInv` says that the connection map is symmetric and irreflexive, that the outbound
lists hold each connection exactly once over both of its ends, that a pair still among the candidates is
not connected (and before the loop all are there and none is connected), that no degree exceeds what is
expected, and that a pair no longer among the candidates is connected or has a saturated end.
`DegreesBounded`, `OneDial` and `LoopComplete` are its consequences. `RefusedForIsolation` (`RefusedOnlyIfIsolated`) adds `CheckInv`: the
windows between the sorted cuts cover all the validators, each once (by induction on the rank of a cut), so
that what `Network::new` counts as assigned is right and a network is refused only for a node without a connection.
`OutboundAsAssumed` is the `OutboundAssumption` of `EthConsensus` and `Scoring`, proved of what the generator returns.

`MaliciousBehaviourProofs`. `DelayCoversBackoff` is stated only for the topics of which no PRUNE is on the way; to keep it
through the arrival of a PRUNE one must know more about those that are. `IInv` is `Types` and `Covered(t)` for every
topic: unless a PRUNE of `t` is on the way, a timer of `t` has at least the victim's backoff and the margin left. The victim
starts a backoff only in a step that sends a PRUNE (lemma `VictimSpeaks`), the attacker takes a PRUNE in only in the step
that starts the timer anew (`InjectEventKeeps`), and time takes as much from the one as from the other
(`TickKeeps`), down to zero: `BackoffObeyed`. `TypeCorrect` and `NeverQueuedAndWaiting` (`QueuedOrWaiting`) add `QueueInv`, about what
`FragmentMessage` returns: sequences of the topics it was given, whatever their sizes, by induction on its recursion.

`TopicsKept` (`NoTopicForgotten`) follows a topic from the announcement to the mesh (`KeptInv`: it is somewhere). A message the handler cannot
encode is dropped with all its GRAFTs, so it can only be proved where that does not happen, and `RPCsFit` says
so: every fragment of an announcement can be encoded. The theorem would be false without it: `create_or_add_rpc` reserves 5% of the size of a
GRAFT for its prefix. `SizesSuffice` shows what it takes, by way of `FragmentsFit`: GRAFTs of 40 bytes and more that fit into a
message of their own; a limit that is not just above a power of 128, where the prefix of the control message grows by a byte
the 5% do not cover (`LimitClear`: 64 KiB, the default the censoring attacker has, and 10 MiB, the scoring attacker's, are clear of it); and
no announcement whose control message, with the 2 bytes `fragment_message` allows for its prefix, ends within 2 bytes
below the limit, since the prefix takes up to 5. The names of the topics decide the last one. The run has its own, smaller
sizes, for which `RPCsFit` holds as well.

`RecordingProofs`. The key is that every point is true: `TruePoint(q)` says that `q` is the value a counter had in the prefix of the log that its time
names, or the count of an epoch once the loop is over. `IInv` says so of every query of every task (`TasksTrue`) and of every
point of the database (`DbTrue`), and that what a task is past was written or failed (`WrittenInv`). A true point stays true, since a counter of a
prefix does not depend on what comes after it (`CountersKept`); and a series and a time determine its count (`OneCount`), since
the tags tell the topics apart and the names the counters. So it does not matter in which order tasks write: `PointsKept` (`NothingOverwritten`),
`NeverBack` (`SeriesMonotone`, with the counters' growth), `DuplicatesCounted` (`DuplicatesExact`, with `JoinedQueryTrue`: the join finds the
metric of the same topic wherever it is in the other family, and the subtraction does not saturate), `ZerosFirst` (`SeriesInitialised`).
`EpochsCounted` (`EpochCounts`) adds `CountInv`: a message waits in `events` at most once, and is a first
copy that was received (`EventsInv`); the sets and sequences hold the keys of the messages handled so far (`ReceivedInv`), and these tell the messages of an
epoch apart, by `GeneratorAssumption`; when the loop is over the last task has a point for every epoch counted (`LastTask`).
The invariants that strengthen `EpochCounts` hold on the run's instance too, where TLC checked them first.

### What is only model-checked

* All liveness: `AllSucceed`, `AllPassBarriers`, `Propagates` and `Regrafted`. The prover cannot reason about
  fairness, which is stated with `ENABLED`.
* The five violated properties, which are counterexamples.

Nothing here uses a recursive operator: what is recursive is a fold of the community modules or a recursive function, whose existence
`NaturalLemmas` proves once (`IterationExists`). Its lemmas on induction are for sets of numbers: what is to be proved is
put into a set first, since the library's theorems take an operator.

## 5. Divergences seen that no run states

* smoke `main.rs:157` "Wait for all connected peers to be subscribed": the wait counts
  events, not peers, against the connections reported so far, so an instance may
  leave it before the peer it dialled has subscribed. The barrier after it hides it.
* eth_consensus `manifest.toml:21` "minimum number of peers to connect to": `lib.rs:236`
  only prints a warning when a node has fewer.
* eth_consensus `README.md:49` "The total number of nodes that will be assigned
  validators": a cut may be drawn at 0 (`lib.rs:157`), and one node fewer has some.
* censoring `README.md:56` "metrics of gossipsub are recorded once the simulation has been
  completed": `honest.rs:134` sends `StopPublishing` and does not wait for its receipt.
* generator `lib.rs:170` "the nodes that have validators are the first": `total_nodes_with_vals - 1`
  (`lib.rs:159`) wraps when `no_val_percentage` is 100 and no node is to have any, in a release build;
  all the validators become cuts and as many nodes have one. `CutCount` has the wrap.
* `peers_to_connect` (`honest.rs:502`) slices a vector: with the manifest's default of 5 and
  fewer candidates the instance panics. `SetupDiscovery` of `Censoring` has the panic.
* attackers, "Events that need to be yielded to the outside when polling." (scoring `attacker.rs:210`): `poll()` queues a due GRAFT and returns
  `Pending` (`attacker.rs:513`) with no waker for it, so it leaves at the next packet or timer.
* attackers, "If a backoff is specified by the peer obey it." (scoring `attacker.rs:284`): a GRAFT already in `events` is not taken back by a
  PRUNE that arrives before it is sent. `QueuedOrWaiting` bounds the window.
* attackers, `create_or_add_rpc`: 5% of the size of an item is to cover its prefix of two or three bytes,
  which it does not below 40 bytes; a fragment may then be larger than the limit by a byte or two.
  The lengths of the run are those of real topic names, 40 bytes and more.
* censoring `README.md:36` "Subscribe/GRAFT": the attacker sends the GRAFTs only, no subscription.
* eth_consensus `utils.rs:192-219` and its copy in censoring write the buckets of a histogram as points
  that differ in a field only, and so in the database the last one remains.
* duplicates: `queries_for_counter_join` starts from the unfiltered counter and drops a metric with no
  partner, so a topic of which a node received only copies of its own messages has none recorded.
* scoring `beacon_node.rs:531`: the tasks that record metrics are not awaited at the end of the run, as
  those of eth_consensus are.

## 6. Not modelled

* Transports, noise and multiplexing, and the 20 s upgrade timeout: a dial to a
  listening peer connects once both ends poll.
* Peer scoring, mesh degrees above the size of the topologies, and back-off inside
  gossipsub, except what the attackers meet of them: they are the library's.
* `param.rs` of scoring and the other parsing of parameters, except for values that reach a
  boundary in the code (`no_val_percentage`, `peers_to_connect`); `topic.rs`, which formats names.
* The values of gauges and histograms, and the queries for peer scores: each is
  formatted and written by itself, and no later step depends on it.
* `message_rate` above 1000, which makes `honest.rs:121` divide to a zero interval.
* `gen_topology_files`, dashboards, Docker and scripts: I/O and configuration.

## 7. Plan

Written, in the order of their importance: the smoke plan (the barriers every plan shares), the generator, the
eth_consensus simulation, the censoring plan, the scoring plan, the behaviour of the attackers, the recording
of metrics and counts; and for each of them the proofs of section 4. What is left:

1. Theorems that no run states yet: that nobody dials in `Censoring` after the third barrier, that each node
   that succeeds in `EthConsensus` has been through a deadline with its sockets and dials intact.
2. A second look at the properties that are violated: the strongest statement that the code does keep in
   their place, as `RateSinceCreation` is for `RateKept`.
