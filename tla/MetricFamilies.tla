-------------------------- MODULE MetricFamilies --------------------------
(***************************************************************************)
(* How the plans record the metrics of gossipsub: each has a match over    *)
(* the names of the metric families that ends in `_ => unreachable!()`,    *)
(* and reads the values of a family as the type of its arm.                *)
(***************************************************************************)

\* EXTERNAL: the families gossipsub registers, by type.  All the plans use one
\* revision of it; the names are those some plan has an arm for.
Messages == {"topic_msg_sent_counts", "topic_msg_published", "topic_msg_sent_bytes",
             "topic_msg_recv_counts_unfiltered", "topic_msg_recv_counts",
             "topic_msg_recv_bytes"}
Verdicts == {"invalid_messages_per_topic", "accepted_messages_per_topic",
             "ignored_messages_per_topic", "rejected_messages_per_topic"}
Dropped  == {"publish_messages_dropped_per_topic", "forward_messages_dropped_per_topic"}
Queues   == {"priority_queue_size", "non_priority_queue_size"}
PerTopic == {"topic_subscription_status", "topic_peers_counts", "mesh_peer_counts"}
Others   == {"mesh_peer_inclusion_events", "mesh_peer_churn_events", "scoring_penalties",
             "topic_iwant_msgs", "memcache_misses"}

Registered ==
    [counter   |-> Messages \cup Verdicts \cup Dropped \cup Others,
     gauge     |-> PerTopic \cup {"peers_per_protocol"},
     histogram |-> Queues \cup {"score_per_mesh", "heartbeat_duration"}]

-----------------------------------------------------------------------------
(* The arms of each plan's record_metrics. *)

EthArms ==
    [counter   |-> Messages \cup Verdicts \cup Others,
     gauge     |-> PerTopic \cup {"peers_per_protocol"},
     histogram |-> {"score_per_mesh", "heartbeat_duration"},
     skip      |-> Dropped \cup Queues]

ScoringArms ==
    [counter   |-> Messages \cup Verdicts \cup Others,
     gauge     |-> {},
     histogram |-> {},
     skip      |-> Dropped \cup Queues \cup PerTopic
                   \cup {"score_per_mesh", "peers_per_protocol", "heartbeat_duration"}]

CensoringArms ==
    [counter   |-> Messages \cup Verdicts \cup Others,
     gauge     |-> PerTopic \cup {"peers_per_protocol"},
     histogram |-> {"score_per_mesh", "heartbeat_duration"},
     skip      |-> {}]

Types == {"counter", "gauge", "histogram"}

\* Neither the last arm nor a get_*_value() of another type is reached.
Recordable(arms) ==
    \A type \in Types : Registered[type] \subseteq arms[type] \cup arms.skip

=============================================================================
