----------------------------- MODULE Recording -----------------------------
(***************************************************************************)
(* What a node records of the messages it receives.                        *)
(*                                                                         *)
(* eth_consensus and scoring: on each tick a task of its own writes a      *)
(* snapshot of gossipsub's counters to the database, with the duplicates   *)
(* calculated from two of them (metrics.rs, utils.rs; beacon_node.rs).     *)
(* scoring: the node counts the messages by topic and epoch as it handles  *)
(* gossipsub's events, and writes the counts when the run is over          *)
(* (beacon_node.rs).                                                       *)
(*                                                                         *)
(* The time of a snapshot is the number of messages before it.  Of the     *)
(* counters, the two about received messages have values here.             *)
(***************************************************************************)
EXTENDS Integers, Sequences, FiniteSets, SequencesExt, MetricFamilies

CONSTANTS
    Message,            \* records of a topic, a validator and a slot
    Own,                \* the messages of this node's validators
    SetTopics,          \* topics counted in sets: the blocks, the attestations
    SLOTS_PER_EPOCH,
    MaxLog,             \* bound: messages published and received
    MaxTasks,           \* bound: recording tasks of the loop
    MaxFailures         \* bound: writes that fail

Topics == {m.topic : m \in Message}
Blocks == "Blocks"

ASSUME MessageAssumption ==
    /\ IsFiniteSet(Message) /\ Own \subseteq Message
    /\ \A m \in Message : m.slot \in Nat
    /\ SLOTS_PER_EPOCH \in Nat \ {0}
\* The points of a topic have a measurement of their own.
ASSUME NamesAssumption ==
    /\ Topics \cap {"topic_msg_recv_counts_unfiltered", "topic_msg_recv_counts",
                    "topic_msg_recv_duplicates", "topic_msg_recv_counts_duplicates"} = {}
    /\ Blocks \in Topics => Blocks \in SetTopics
\* The generator: a slot has one proposer, a validator attests once per epoch.
ASSUME GeneratorAssumption ==
    \A m, o \in Message :
        /\ m.topic = o.topic /\ m.topic \in SetTopics
        /\ IF m.topic = Blocks THEN m.slot = o.slot
           ELSE /\ m.validator = o.validator
                /\ m.slot \div SLOTS_PER_EPOCH = o.slot \div SLOTS_PER_EPOCH
        => m = o

VARIABLES
    plan,       \* "eth_consensus" or "scoring"
    log,        \* messages in the order they were published or received
    events,     \* Event::Message not handled yet
    received,   \* received_beacon_blocks, received_attestations, ...
    over,       \* scoring: the deadline has ended the loop of run_sim
    tasks,      \* the recording tasks: when, what, and the next query
    failures,   \* writes that have failed
    db          \* EXTERNAL: the database, by series and time

vars == <<plan, log, events, received, over, tasks, failures, db>>

Epoch(slot) == slot \div SLOTS_PER_EPOCH
Epochs == {Epoch(m.slot) : m \in Message}

-----------------------------------------------------------------------------
(* EXTERNAL: gossipsub's counters, after the first n entries of the log. A *)
(* message is new unless it is in the duplicate cache.                     *)

New(i) == log[i].received /\ \A j \in 1..i-1 : log[j].message # log[i].message

RecvCountsUnfiltered(n) ==
    [t \in Topics |-> Cardinality({i \in 1..n : log[i].received /\ log[i].message.topic = t})]
RecvCounts(n) ==
    [t \in Topics |-> Cardinality({i \in 1..n : New(i) /\ log[i].message.topic = t})]

\* A family: its metrics in an order of their own, each with its labels. One
\* there is nothing to count for is not there.
Family(counts, order) ==
    [i \in DOMAIN order |->
        [labels |-> {<<"hash", order[i]>>}, value |-> counts[order[i]]]]
Counting(counts) == {t \in Topics : counts[t] > 0}

-----------------------------------------------------------------------------
(* The queries. A query is a point: a measurement, its tags, a time and a  *)
(* count. The tags that are the same for all the points of a node are left *)
(* out.                                                                    *)

Point(name, tags, at, count) == [series |-> <<name, tags, at>>, count |-> count]

\* A mutant: the labels are not added as tags.
queries_for_counter_untagged(name, family, at) ==
    [i \in DOMAIN family |-> Point(name, {}, at, family[i].value)]

queries_for_counter(name, family, at) ==
    [i \in DOMAIN family |-> Point(name, family[i].labels, at, family[i].value)]

\* A mutant: some label of the other metric is of the same name.
MatchesSome(metric, other) ==
    \A label \in metric.labels : \E l \in other.labels : l[1] = label[1]

Matches(metric, other) == metric.labels \subseteq other.labels

saturating_sub(a, b) == IF a >= b THEN a - b ELSE 0

\* The query of one metric: none without a metric of the other family that matches.
JoinedQuery(name, metric, family, at) ==
    LET found == SelectInSeq(family, LAMBDA other : Matches(metric, other)) IN
    IF found = 0 THEN <<>>
    ELSE <<Point(name, metric.labels, at, saturating_sub(metric.value, family[found].value))>>

queries_for_counter_join(name, family1, family2, at) ==
    FlattenSeq([i \in DOMAIN family1 |-> JoinedQuery(name, family1[i], family2, at)])

Arms == IF plan = "scoring" THEN ScoringArms ELSE EthArms

DuplicatesName == IF plan = "scoring" THEN "topic_msg_recv_counts_duplicates"
                  ELSE "topic_msg_recv_duplicates"

\* A mutant: the time is that of the task, not of the snapshot.
RecordQueriesLate(unfiltered, recv, at) ==
    queries_for_counter("topic_msg_recv_counts_unfiltered", unfiltered, at + 1)
    \o queries_for_counter("topic_msg_recv_counts", recv, at + 1)
    \o queries_for_counter_join(DuplicatesName, unfiltered, recv, at + 1)

\* A mutant: the time is cut to a coarser unit than the interval of the ticks.
RecordQueriesCoarse(unfiltered, recv, at) ==
    LET unit == 2 * (at \div 2) IN
    queries_for_counter("topic_msg_recv_counts_unfiltered", unfiltered, unit)
    \o queries_for_counter("topic_msg_recv_counts", recv, unit)
    \o queries_for_counter_join(DuplicatesName, unfiltered, recv, unit)

\* record_metrics up to the writes.
RecordQueries(unfiltered, recv, at) ==
    queries_for_counter("topic_msg_recv_counts_unfiltered", unfiltered, at)
    \o queries_for_counter("topic_msg_recv_counts", recv, at)
    \o queries_for_counter_join(DuplicatesName, unfiltered, recv, at)

\* A mutant: the duplicates go by the name they have in the scoring plan.
InitialisedOther == <<"topic_msg_recv_counts", "topic_msg_recv_counts_unfiltered",
                      "topic_msg_recv_counts_duplicates">>

Initialised == <<"topic_msg_recv_counts", "topic_msg_recv_counts_unfiltered",
                 "topic_msg_recv_duplicates">>

\* initialise_metrics: a zero for each topic.
InitialQueries ==
    LET topics == SetToSeq(Topics) IN
    FlattenSeq([n \in DOMAIN Initialised |->
        [i \in DOMAIN topics |-> Point(Initialised[n], {<<"hash", topics[i]>>}, 0, 0)]])

-----------------------------------------------------------------------------
Task(at, queries) == [at |-> at, queries |-> queries, next |-> 1]

Init ==
    /\ plan \in {"eth_consensus", "scoring"}
    /\ log = <<>>
    /\ events = <<>>
    /\ received = [t \in Topics |-> [e \in Epochs |-> IF t \in SetTopics THEN {} ELSE <<>>]]
    /\ over = FALSE
    /\ tasks = IF plan = "scoring" THEN <<>> ELSE <<Task(0, InitialQueries)>>
    /\ failures = {}
    /\ db = [s \in {} |-> 0]

\* publish(): the message is in the duplicate cache from then on.
Publish ==
    /\ ~over /\ Len(log) < MaxLog
    /\ \E m \in Own \ {log[i].message : i \in DOMAIN log} :
        log' = Append(log, [message |-> m, received |-> FALSE])
    /\ UNCHANGED <<plan, events, received, over, tasks, failures, db>>

\* EXTERNAL: gossipsub receives a message, again or for the first time. One's own
\* come only after they were published. (eth_consensus does not count the events.)
Receive ==
    /\ ~over /\ Len(log) < MaxLog
    /\ \E m \in Message :
        LET known == \E i \in DOMAIN log : log[i].message = m IN
        /\ m \in Own => known
        /\ log' = Append(log, [message |-> m, received |-> TRUE])
        /\ events' = IF known \/ plan # "scoring" THEN events ELSE Append(events, m)
    /\ UNCHANGED <<plan, received, over, tasks, failures, db>>

\* A mutant: the attestations are kept by validator only.
AddedOncePerValidator(m) ==
    IF m.topic = Blocks THEN [received EXCEPT ![m.topic][Epoch(m.slot)] = @ \cup {m.slot}]
    ELSE IF m.topic \notin SetTopics
    THEN [received EXCEPT ![m.topic][Epoch(m.slot)] = Append(@, m.validator)]
    ELSE IF \E e \in Epochs : m.validator \in received[m.topic][e] THEN received
    ELSE [received EXCEPT ![m.topic][Epoch(m.slot)] = @ \cup {m.validator}]

Added(m) ==
    [received EXCEPT ![m.topic][Epoch(m.slot)] =
        IF m.topic = Blocks THEN @ \cup {m.slot}
        ELSE IF m.topic \in SetTopics THEN @ \cup {m.validator}
        ELSE Append(@, m.validator)]

\* scoring, handle_gossipsub_event.
HandleEvent ==
    /\ ~over /\ events # <<>>
    /\ received' = Added(Head(events))
    /\ events' = Tail(events)
    /\ UNCHANGED <<plan, log, over, tasks, failures, db>>

\* The interval ticks: the registry is encoded and a task is spawned. One whose
\* match over the families panics writes nothing. The join depends on the order
\* of the two families relative to each other: that of the first one is fixed.
\* (The task of initialise_metrics is not one of the loop's.)
Tick ==
    /\ ~over /\ Len(tasks) - (IF plan = "scoring" THEN 0 ELSE 1) < MaxTasks
    /\ \E order \in SetToSeqs(Counting(RecvCounts(Len(log)))) :
        LET at == Len(log)
            all == RecvCountsUnfiltered(at)
            unfiltered == Family(all, SetToSeq(Counting(all)))
            recv == Family(RecvCounts(at), order)
        IN  tasks' = Append(tasks,
                IF Recordable(Arms) THEN Task(at, RecordQueries(unfiltered, recv, at))
                ELSE [at |-> at, queries |-> <<>>, next |-> 0])
    /\ UNCHANGED <<plan, log, events, received, over, failures, db>>

Counted(t, e) ==
    IF t \in SetTopics THEN Cardinality(received[t][e]) ELSE Len(received[t][e])

\* The point of a topic and an epoch has the time of the epoch's first slot.
EpochPoint(t, e) == Point(t, {<<"epoch", e>>}, e * SLOTS_PER_EPOCH, Counted(t, e))

\* scoring, the deadline: main() writes the counts of the epochs it has seen, in
\* the order of its hash maps, while tasks may still be writing.
Deadline ==
    /\ plan = "scoring" /\ ~over
    /\ over' = TRUE
    /\ LET seen == {te \in Topics \X Epochs : Counted(te[1], te[2]) > 0}
           order == SetToSeq(seen) IN
       tasks' = Append(tasks, Task(Len(log),
                    [i \in DOMAIN order |-> EpochPoint(order[i][1], order[i][2])]))
    /\ UNCHANGED <<plan, log, events, received, failures, db>>

Advance(k) == tasks' = [tasks EXCEPT ![k].next = @ + 1]

\* record_metric. EXTERNAL: a point replaces one of the same series and time.
Write(k) ==
    /\ tasks[k].next \in DOMAIN tasks[k].queries
    /\ LET point == tasks[k].queries[tasks[k].next] IN
       db' = [s \in DOMAIN db \cup {point.series} |->
                IF s = point.series THEN point.count ELSE db[s]]
    /\ Advance(k)
    /\ UNCHANGED <<plan, log, events, received, over, failures>>

\* record_metric fails: it is logged, and the task goes on.
FailToWrite(k) ==
    /\ tasks[k].next \in DOMAIN tasks[k].queries
    /\ Cardinality(failures) < MaxFailures
    /\ failures' = failures \cup {<<k, tasks[k].next>>}
    /\ Advance(k)
    /\ UNCHANGED <<plan, log, events, received, over, db>>

Next ==
    \/ Publish \/ Receive
    \/ HandleEvent
    \/ Tick \/ Deadline
    \/ \E k \in DOMAIN tasks : Write(k) \/ FailToWrite(k)

Spec == Init /\ [][Next]_vars

-----------------------------------------------------------------------------
TypeOK ==
    /\ plan \in {"eth_consensus", "scoring"}
    /\ log \in Seq([message : Message, received : BOOLEAN])
    /\ events \in Seq(Message)
    /\ over \in BOOLEAN
    /\ \A k \in DOMAIN tasks : tasks[k].at \in 0..Len(log)
    /\ failures \subseteq (DOMAIN tasks) \X Nat
    /\ \A s \in DOMAIN db :
        s[1] \notin Topics => s[3] \in 0..Len(log) /\ db[s] \in 0..s[3]

\* "Record the number of BeaconBlock messages received per epoch."
\* (beacon_node.rs:654), and so for the other topics: the count of an epoch in
\* the database is the number of different messages of its slots that were
\* handled by the deadline, however many copies came and whoever of them came
\* first; an epoch without one has no point.
EpochCounts ==
    over =>
        \A t \in Topics, e \in Epochs :
            LET InEpoch(m) ==
                    /\ m.topic = t
                    /\ m.slot \in e * SLOTS_PER_EPOCH .. (e + 1) * SLOTS_PER_EPOCH - 1
                handled == Cardinality({i \in DOMAIN log : New(i) /\ InEpoch(log[i].message)})
                           - Cardinality({i \in DOMAIN events : InEpoch(events[i])})
                point == <<t, {<<"epoch", e>>}, e * SLOTS_PER_EPOCH>>
                last == tasks[Len(tasks)]
            IN  /\ point \in DOMAIN db => db[point] = handled
                /\ failures = {} /\ last.next > Len(last.queries) =>
                       (point \in DOMAIN db <=> handled > 0)

\* The duplicates in the database are the copies received before the snapshot
\* that were in the cache, whatever order the families are encoded in, and in
\* which order the tasks of several snapshots write.
DuplicatesExact ==
    \A s \in DOMAIN db : s[1] = DuplicatesName =>
        db[s] = Cardinality({i \in 1..s[3] :
            log[i].received /\ ~New(i) /\ <<"hash", log[i].message.topic>> \in s[2]})

\* A counter never goes back in the database, although the tasks of snapshots
\* overtake each other and writes fail.
SeriesMonotone ==
    \A s, u \in DOMAIN db :
        s[1] = u[1] /\ s[2] = u[2] /\ s[3] <= u[3] => db[s] <= db[u]

\* A point of a counter that was written stays as it was written: no other point of the same
\* snapshot, or of another, has its series and its time.
NothingOverwritten ==
    \A k \in DOMAIN tasks : \A i \in 1..tasks[k].next - 1 :
        LET point == tasks[k].queries[i] IN
        <<k, i>> \notin failures => db[point.series] = point.count

\* eth_consensus: every series of these counters begins with a zero, once
\* initialise_metrics is through ("Initialises some counters to the 0 value.").
SeriesInitialised ==
    plan = "eth_consensus" /\ tasks[1].next > Len(tasks[1].queries) /\ failures = {} =>
        \A s \in DOMAIN db :
            <<s[1], s[2], 0>> \in DOMAIN db /\ db[<<s[1], s[2], 0>>] = 0

=============================================================================
