------------------------ MODULE MaliciousBehaviour ------------------------
(***************************************************************************)
(* The network behaviour of an attacker: struct MaliciousBehaviour of      *)
(* censoring/src/attacker.rs and of its copy, scoring/src/attacker.rs,     *)
(* with the swarm that polls it and the victim, a gossipsub node.          *)
(*                                                                         *)
(* The attacker answers the victim's subscriptions with GRAFTs and its     *)
(* PRUNEs with a delayed GRAFT, and takes no notice of anything else.      *)
(* It is connected to its victim alone, so the peer is left out of events  *)
(* and of the keys of regraft.  Timers hold the time they have left.       *)
(***************************************************************************)
EXTENDS Integers, Sequences, FiniteSets, SequencesExt

CONSTANTS
    Topics,                 \* what the victim subscribes to
    GraftLen,               \* encoded_len() of the GRAFT of a topic
    MaxTransmitSize,        \* config.max_transmit_size()
    PRUNE_BACKOFF, PRUNE_BACKOFF_DELAY,
    MaxInFlight             \* bound: RPCs on the way at which the victim says nothing new

ASSUME TopicsAssumption == IsFiniteSet(Topics)
ASSUME SizesAssumption ==
    /\ GraftLen \in [Topics -> Nat \ {0}]
    /\ MaxTransmitSize \in Nat
ASSUME BackoffAssumption ==
    /\ PRUNE_BACKOFF \in Nat \ {0}
    /\ PRUNE_BACKOFF_DELAY \in Nat

VARIABLES
    events,     \* events to be yielded when polled: GRAFTs of some topics
    regraft,    \* the delay set: time left, by topic
    swarm,      \* EXTERNAL: what the swarm does next
    \* EXTERNAL: the connection
    toVictim, toAttacker,
    \* EXTERNAL: the victim
    subscribed, \* topics it has announced
    mesh,       \* topics in whose mesh it has the attacker
    known,      \* topics the attacker has grafted before
    backoff     \* time left before the attacker may graft again, by topic

attacker == <<events, regraft>>
victim   == <<subscribed, mesh, known, backoff>>
vars     == <<attacker, swarm, toVictim, toAttacker, victim>>

RPC == [subs : Seq(Topics), prunes : SUBSET Topics]

TypeOK ==
    /\ events \in Seq(Seq(Topics))
    /\ DOMAIN regraft \subseteq Topics
    /\ \A t \in DOMAIN regraft : regraft[t] \in 0..PRUNE_BACKOFF + PRUNE_BACKOFF_DELAY
    /\ swarm \in {"asleep", "behaviour", "pool"}
    /\ toVictim \in Seq(Seq(Topics))
    /\ toAttacker \in Seq(RPC)
    /\ subscribed \subseteq Topics
    /\ mesh \subseteq known
    /\ known \subseteq subscribed
    /\ backoff \in [Topics -> 0..PRUNE_BACKOFF]

Init ==
    /\ events = <<>>
    /\ regraft = [t \in {} |-> 0]
    /\ swarm = "asleep"
    /\ toVictim = <<>>
    /\ toAttacker = <<>>
    /\ subscribed = {}
    /\ mesh = {}
    /\ known = {}
    /\ backoff = [t \in Topics |-> 0]

-----------------------------------------------------------------------------
(* fragment_message.  The attacker's messages hold GRAFTs only: a sequence *)
(* of topics.  A nested protobuf message of n bytes takes Field(n): a tag, *)
(* the length in seven bits to a byte, and the message.                    *)

Varint(n) ==
    IF n < 128 THEN 1 ELSE IF n < 128 * 128 THEN 2 ELSE IF n < 128 * 128 * 128 THEN 3
    ELSE IF n < 128 * 128 * 128 * 128 THEN 4 ELSE 5

Field(n) == 1 + Varint(n) + n

ControlLen(topics) ==
    LET len[k \in 0..Len(topics)] ==
          IF k = 0 THEN 0 ELSE len[k - 1] + Field(GraftLen[topics[k]])
    IN  len[Len(topics)]

EncodedLen(topics) == IF topics = <<>> THEN 0 ELSE Field(ControlLen(topics))

\* A mutant: the prefixes are forgotten.
AddGraftNoPrefix(rpcs, topic) ==
    IF /\ EncodedLen(Last(rpcs)) + GraftLen[topic] > MaxTransmitSize
       /\ Last(rpcs) # <<>>
    THEN Append(rpcs, <<topic>>)
    ELSE Append(Front(rpcs), Append(Last(rpcs), topic))

\* create_or_add_rpc: 5% of the size is meant for the length prefixes.
AddGraft(rpcs, topic) ==
    IF /\ EncodedLen(Last(rpcs)) + (105 * GraftLen[topic]) \div 100 > MaxTransmitSize
       /\ Last(rpcs) # <<>>
    THEN Append(rpcs, <<topic>>)
    ELSE Append(Front(rpcs), Append(Last(rpcs), topic))

FragmentMessage(topics) ==
    IF EncodedLen(topics) >= MaxTransmitSize /\ ControlLen(topics) + 2 > MaxTransmitSize
    THEN LET rpcs[k \in 0..Len(topics)] ==
               IF k = 0 THEN << <<>> >> ELSE AddGraft(rpcs[k - 1], topics[k])
         IN  rpcs[Len(topics)]
    ELSE <<topics>>

\* send_message
SendMessage(queue, topics) == queue \o FragmentMessage(topics)

-----------------------------------------------------------------------------
(* The behaviour. *)

\* A mutant: a timer that runs already is kept.
RegraftOnce(prunes) ==
    [t \in DOMAIN regraft \cup prunes |->
        IF t \in DOMAIN regraft THEN regraft[t] ELSE PRUNE_BACKOFF + PRUNE_BACKOFF_DELAY]

\* A mutant: a timer that runs already is extended.
RegraftExtends(prunes) ==
    [t \in DOMAIN regraft \cup prunes |->
        IF t \in prunes \cap DOMAIN regraft THEN regraft[t] + PRUNE_BACKOFF + PRUNE_BACKOFF_DELAY
        ELSE IF t \in prunes THEN PRUNE_BACKOFF + PRUNE_BACKOFF_DELAY ELSE regraft[t]]

\* handle_prune: insert_at and insert start the timer anew if there is one. The
\* backoff the victim states is PRUNE_BACKOFF, which is also the default's.
Regraft(prunes) ==
    [t \in DOMAIN regraft \cup prunes |->
        IF t \in prunes THEN PRUNE_BACKOFF + PRUNE_BACKOFF_DELAY ELSE regraft[t]]

\* handle_received_subscriptions: what was announced is grafted in one message.
HandleReceivedSubscriptions(subs) ==
    IF subs = <<>> THEN events ELSE SendMessage(events, subs)

\* inject_event with the next RPC.
InjectEvent ==
    /\ swarm = "pool"
    /\ toAttacker # <<>>
    /\ LET rpc == Head(toAttacker) IN
        /\ events' = HandleReceivedSubscriptions(rpc.subs)
        /\ regraft' = Regraft(rpc.prunes)
    /\ toAttacker' = Tail(toAttacker)
    /\ swarm' = "behaviour"
    /\ UNCHANGED <<toVictim, victim>>

\* poll with an event in the queue. EXTERNAL: the connection handler sends it,
\* unless it is larger than its codec allows.
PollEvent ==
    /\ swarm = "behaviour"
    /\ events # <<>>
    /\ events' = Tail(events)
    /\ toVictim' = IF EncodedLen(Head(events)) > MaxTransmitSize THEN toVictim
                   ELSE Append(toVictim, Head(events))
    /\ UNCHANGED <<regraft, swarm, toAttacker, victim>>

Due == {t \in DOMAIN regraft : regraft[t] = 0}

\* Each in a message of its own.
QueueGrafts(order) ==
    LET queue[k \in 0..Len(order)] ==
          IF k = 0 THEN events ELSE SendMessage(queue[k - 1], <<order[k]>>)
    IN  queue[Len(order)]

\* A mutant: the topic stays in the delay set.
PollRegraftKeeps ==
    /\ swarm = "behaviour"
    /\ events = <<>>
    /\ \E order \in SetToSeqs(Due) :
        events' = QueueGrafts(order)
    /\ swarm' = "pool"
    /\ UNCHANGED <<regraft, toVictim, toAttacker, victim>>

\* A mutant: with several due, the GRAFTs after the first are not queued.
PollRegraftFirst ==
    /\ swarm = "behaviour"
    /\ events = <<>>
    /\ \E order \in SetToSeqs(Due) :
        events' = IF order = <<>> THEN <<>> ELSE FragmentMessage(<<Head(order)>>)
    /\ regraft' = [t \in DOMAIN regraft \ Due |-> regraft[t]]
    /\ swarm' = "pool"
    /\ UNCHANGED <<toVictim, toAttacker, victim>>

\* poll with an empty queue: what is due is queued, and poll returns Pending.
PollRegraft ==
    /\ swarm = "behaviour"
    /\ events = <<>>
    /\ \E order \in SetToSeqs(Due) :
        events' = QueueGrafts(order)
    /\ regraft' = [t \in DOMAIN regraft \ Due |-> regraft[t]]
    /\ swarm' = "pool"
    /\ UNCHANGED <<toVictim, toAttacker, victim>>

-----------------------------------------------------------------------------
(* EXTERNAL: the swarm. It polls the behaviour until that has nothing to   *)
(* yield, then the connections, and sleeps when these have nothing either. *)
(* The delay set wakes it while something is in it; so do the connections. *)

Sleep ==
    /\ swarm = "pool"
    /\ toAttacker = <<>>
    /\ swarm' = "asleep"
    /\ UNCHANGED <<attacker, toVictim, toAttacker, victim>>

Wake ==
    /\ swarm = "asleep"
    /\ Due # {} \/ toAttacker # <<>>
    /\ swarm' = "behaviour"
    /\ UNCHANGED <<attacker, toVictim, toAttacker, victim>>

Tick ==
    /\ \/ \E t \in Topics : backoff[t] > 0
       \/ \E t \in DOMAIN regraft : regraft[t] > 0
    /\ backoff' = [t \in Topics |-> IF backoff[t] = 0 THEN 0 ELSE backoff[t] - 1]
    /\ regraft' = [t \in DOMAIN regraft |-> IF regraft[t] = 0 THEN 0 ELSE regraft[t] - 1]
    /\ UNCHANGED <<events, swarm, toVictim, toAttacker, subscribed, mesh, known>>

-----------------------------------------------------------------------------
(* EXTERNAL: the victim, as far as it concerns the attacker. *)

Quiet == Len(toAttacker) < MaxInFlight /\ Len(toVictim) < MaxInFlight

Send(subs, prunes) == toAttacker' = Append(toAttacker, [subs |-> subs, prunes |-> prunes])

StartBackoff(topics) ==
    backoff' = [t \in Topics |-> IF t \in topics THEN PRUNE_BACKOFF ELSE backoff[t]]

\* It announces what it is subscribed to, together or one by one.
VictimSubscribes ==
    /\ Quiet
    /\ \E topics \in SUBSET (Topics \ subscribed) \ {{}} :
        /\ \E order \in SetToSeqs(topics) : Send(order, {})
        /\ subscribed' = subscribed \cup topics
    /\ UNCHANGED <<attacker, swarm, toVictim, mesh, known, backoff>>

\* handle_graft, for the topics it is subscribed to: those refused, within their
\* backoff or for want of room or of score, are answered with one message of PRUNEs.
VictimHandlesGraft ==
    /\ toVictim # <<>>
    /\ LET grafted == (ToSet(Head(toVictim)) \cap subscribed) \ mesh IN
       \E refused \in SUBSET grafted :
        /\ \A t \in grafted : backoff[t] > 0 => t \in refused
        /\ mesh' = mesh \cup (grafted \ refused)
        /\ known' = known \cup grafted
        /\ StartBackoff(refused)
        /\ IF refused = {} THEN UNCHANGED toAttacker
           ELSE Send(<<>>, refused)
    /\ toVictim' = Tail(toVictim)
    /\ UNCHANGED <<attacker, swarm, subscribed>>

\* The heartbeat takes the attacker out of some meshes.
VictimPrunes ==
    /\ Quiet
    /\ \E topics \in SUBSET mesh \ {{}} :
        /\ mesh' = mesh \ topics
        /\ StartBackoff(topics)
        /\ Send(<<>>, topics)
    /\ UNCHANGED <<attacker, swarm, toVictim, subscribed, known>>

\* The heartbeat takes the attacker into a mesh, and says so in a GRAFT.
VictimGrafts ==
    /\ Quiet
    /\ \E t \in known \ mesh :
        /\ backoff[t] = 0
        /\ mesh' = mesh \cup {t}
        /\ Send(<<>>, {})
    /\ UNCHANGED <<attacker, swarm, toVictim, subscribed, known, backoff>>

\* A message, an IHAVE or an IWANT: the attacker does nothing with it. Bound: one
\* is sent only when nothing else is on the way.
VictimSends ==
    /\ toAttacker = <<>>
    /\ Send(<<>>, {})
    /\ UNCHANGED <<attacker, swarm, toVictim, victim>>

-----------------------------------------------------------------------------
Behaviour == InjectEvent \/ PollEvent \/ PollRegraft
Swarm == Behaviour \/ Sleep \/ Wake
Victim == VictimSubscribes \/ VictimPrunes \/ VictimGrafts

Next == Swarm \/ Tick \/ Victim \/ VictimHandlesGraft \/ VictimSends

\* A swarm that was woken is polled, the connection delivers, time passes, and
\* the victim keeps sending.  It need not subscribe, prune or graft.
Spec == /\ Init /\ [][Next]_vars
        /\ WF_vars(Swarm) /\ WF_vars(Tick)
        /\ WF_vars(VictimHandlesGraft) /\ WF_vars(VictimSends)

-----------------------------------------------------------------------------
Topics_(rpcs) == UNION {ToSet(rpcs[i]) : i \in 1..Len(rpcs)}
Subscriptions == UNION {ToSet(toAttacker[i].subs) : i \in 1..Len(toAttacker)}
Prunes        == UNION {toAttacker[i].prunes : i \in 1..Len(toAttacker)}

\* No topic is forgotten: from the victim's announcement on, either the
\* announcement, a GRAFT or a PRUNE of the topic is on the way or queued, or it
\* waits to be grafted again, or the victim has the attacker in its mesh.
\* Fragments, prunes that cross grafts, and the delay set take none out.
NoTopicForgotten ==
    subscribed \subseteq Subscriptions \cup Topics_(events) \cup Topics_(toVictim)
                         \cup mesh \cup Prunes \cup DOMAIN regraft

\* The delay the attacker waits covers the victim's backoff, with the margin of
\* PRUNE_BACKOFF_DELAY, whichever of several PRUNEs the backoff is from, once
\* the attacker has heard of the latest one.
DelayCoversBackoff ==
    \A t \in DOMAIN regraft \ Prunes :
        backoff[t] > 0 => regraft[t] >= backoff[t] + PRUNE_BACKOFF_DELAY

\* A GRAFT that a newer PRUNE has overtaken is still sent, but only if that
\* PRUNE came in the same run of the swarm's loop: when the swarm turns to its
\* connections or sleeps, no topic is both queued and waiting.
QueuedOrWaiting ==
    swarm # "behaviour" => Topics_(events) \cap DOMAIN regraft = {}

\* An attacker out of a mesh tries to get back: the event poll() leaves in its
\* queue when it returns Pending is yielded at a later wake-up.
Regrafted ==
    \A t \in Topics :
        t \in subscribed \ mesh ~> t \in mesh \/ t \in Topics_(toVictim)

=============================================================================
