--------------------- MODULE MaliciousBehaviourProofs ---------------------
(***************************************************************************)
(* What TLAPS proves of MaliciousBehaviour: an attacker that has heard of  *)
(* the latest PRUNE of a topic does not graft it again within the backoff, *)
(* for all topics, sizes and backoffs.                                     *)
(***************************************************************************)
EXTENDS MaliciousBehaviour, NaturalLemmas, FiniteSetTheorems, TLAPS

\* The types of what the delays and the backoffs depend on.
Types ==
    /\ DOMAIN regraft \subseteq Topics
    /\ \A t \in DOMAIN regraft : regraft[t] \in Nat
    /\ backoff \in [Topics -> 0..PRUNE_BACKOFF]
    /\ toAttacker \in Seq(RPC)
    /\ subscribed \subseteq Topics
    /\ mesh \subseteq subscribed /\ known \subseteq subscribed

\* Some RPC of q prunes t.
Pruned(q, t) == \E i \in 1..Len(q) : t \in q[i].prunes

\* The delay of t, if it waits, is over only after its backoff.
Covered(t) ==
    t \in DOMAIN regraft /\ ~Pruned(toAttacker, t) /\ backoff[t] > 0 =>
        regraft[t] >= backoff[t] + PRUNE_BACKOFF_DELAY

IInv == Types /\ \A t \in Topics : Covered(t)

LEMMA CoveredMeansInvariant == IInv => DelayCoversBackoff
  <1> SUFFICES ASSUME IInv, NEW t \in DOMAIN regraft, t \notin Prunes, backoff[t] > 0
               PROVE  regraft[t] >= backoff[t] + PRUNE_BACKOFF_DELAY
    BY DEF DelayCoversBackoff
  <1>1. ~Pruned(toAttacker, t)
    BY DEF Pruned, Prunes
  <1> QED
    BY <1>1 DEF IInv, Types, Covered

LEMMA PrunedAppend ==
  ASSUME NEW q \in Seq(RPC), NEW rpc \in RPC, NEW t
  PROVE  Pruned(Append(q, rpc), t) <=> Pruned(q, t) \/ t \in rpc.prunes
  <1>1. /\ Len(Append(q, rpc)) = Len(q) + 1 /\ Len(q) \in Nat
        /\ Append(q, rpc)[Len(q) + 1] = rpc
        /\ \A i \in 1..Len(q) : Append(q, rpc)[i] = q[i]
    OBVIOUS
  <1>2. 1..Len(q) + 1 = (1..Len(q)) \cup {Len(q) + 1}
    BY <1>1
  <1> QED
    BY <1>1, <1>2 DEF Pruned

LEMMA PrunedTail ==
  ASSUME NEW q \in Seq(RPC), q # <<>>, NEW t, Pruned(q, t)
  PROVE  t \in Head(q).prunes \/ Pruned(Tail(q), t)
  <1>1. /\ Head(q) = q[1] /\ Len(q) \in Nat \ {0} /\ Len(Tail(q)) = Len(q) - 1
        /\ \A i \in 1..Len(q) - 1 : Tail(q)[i] = q[i + 1]
    OBVIOUS
  <1>2. PICK i \in 1..Len(q) : t \in q[i].prunes
    BY DEF Pruned
  <1>3. CASE i = 1
    BY <1>1, <1>2, <1>3
  <1>4. CASE i # 1
    <2>1. i - 1 \in 1..Len(Tail(q)) /\ (i - 1) + 1 = i
      BY <1>1, <1>4
    <2>2. t \in Tail(q)[i - 1].prunes
      BY <1>1, <1>2, <2>1
    <2> QED
      BY <2>1, <2>2 DEF Pruned
  <1> QED
    BY <1>3, <1>4

\* The victim says something: what it prunes is in its backoff from now on, the
\* backoffs of the others and the attacker's delays are as before.
LEMMA VictimSpeaks ==
  ASSUME IInv, NEW subs \in Seq(Topics), NEW prunes \in SUBSET Topics,
         toAttacker' = Append(toAttacker, [subs |-> subs, prunes |-> prunes]),
         regraft' = regraft,
         backoff' = backoff \/ StartBackoff(prunes),
         subscribed' \subseteq Topics, mesh' \subseteq subscribed', known' \subseteq subscribed'
  PROVE  IInv'
  <1>0. PRUNE_BACKOFF \in Nat
    BY BackoffAssumption
  <1>1. [subs |-> subs, prunes |-> prunes] \in RPC
    BY DEF RPC
  <1>2. toAttacker \in Seq(RPC) /\ backoff \in [Topics -> 0..PRUNE_BACKOFF]
    BY DEF IInv, Types
  <1>3. toAttacker' \in Seq(RPC)
    BY <1>1, <1>2
  <1>4. backoff' \in [Topics -> 0..PRUNE_BACKOFF]
    BY <1>0, <1>2 DEF StartBackoff
  <1>5. Types'
    BY <1>3, <1>4 DEF IInv, Types
  <1>6. ASSUME NEW t \in Topics PROVE Covered(t)'
    <2>1. Pruned(toAttacker', t) <=> Pruned(toAttacker, t) \/ t \in prunes
      <3>1. Pruned(Append(toAttacker, [subs |-> subs, prunes |-> prunes]), t)
            <=> Pruned(toAttacker, t) \/ t \in [subs |-> subs, prunes |-> prunes].prunes
        BY <1>1, <1>2, PrunedAppend, Zenon
      <3> QED
        BY <3>1
    <2>2. t \notin prunes => backoff'[t] = backoff[t]
      BY DEF StartBackoff
    <2>3. Covered(t)
      BY DEF IInv
    <2> QED
      BY <2>1, <2>2, <2>3 DEF Covered
  <1> QED
    BY <1>5, <1>6 DEF IInv

LEMMA OrderIsSeq ==
  ASSUME NEW topics \in SUBSET Topics, NEW order \in SetToSeqs(topics)
  PROVE  order \in Seq(Topics)
  <1>1. IsFiniteSet(topics)
    BY TopicsAssumption, FS_Subset
  <1>2. Cardinality(topics) \in Nat
    BY <1>1, FS_CardinalityType
  <1>3. order \in [1..Cardinality(topics) -> topics]
    BY DEF SetToSeqs
  <1> QED
    BY <1>2, <1>3

LEMMA InitIInv == Init => IInv
  <1> SUFFICES ASSUME Init PROVE IInv
    OBVIOUS
  <1>1. DOMAIN regraft = {}
    BY DEF Init
  <1>2. backoff \in [Topics -> 0..PRUNE_BACKOFF]
    BY BackoffAssumption DEF Init
  <1>3. toAttacker \in Seq(RPC)
    BY DEF Init
  <1>4. subscribed = {} /\ mesh = {} /\ known = {}
    BY DEF Init
  <1> QED
    BY <1>1, <1>2, <1>3, <1>4 DEF IInv, Types, Covered

LEMMA InjectEventKeeps == IInv /\ InjectEvent => IInv'
  <1> SUFFICES ASSUME IInv, InjectEvent PROVE IInv'
    OBVIOUS
  <1>0. PRUNE_BACKOFF \in Nat \ {0} /\ PRUNE_BACKOFF_DELAY \in Nat
    BY BackoffAssumption
  <1> DEFINE rpc == Head(toAttacker)
  <1>1. /\ toAttacker # <<>> /\ toAttacker' = Tail(toAttacker) /\ backoff' = backoff
        /\ regraft' = Regraft(rpc.prunes)
        /\ subscribed' = subscribed /\ mesh' = mesh /\ known' = known
    BY DEF InjectEvent, victim
  <1>2. /\ toAttacker \in Seq(RPC) /\ backoff \in [Topics -> 0..PRUNE_BACKOFF]
        /\ DOMAIN regraft \subseteq Topics /\ \A t \in DOMAIN regraft : regraft[t] \in Nat
        /\ subscribed \subseteq Topics /\ mesh \subseteq subscribed /\ known \subseteq subscribed
    BY DEF IInv, Types
  <1>3. toAttacker' \in Seq(RPC) /\ rpc \in RPC
    BY <1>1, <1>2
  <1>4. rpc.prunes \subseteq Topics
    BY <1>3 DEF RPC
  <1>5. /\ DOMAIN regraft' = DOMAIN regraft \cup rpc.prunes
        /\ \A t \in rpc.prunes : regraft'[t] = PRUNE_BACKOFF + PRUNE_BACKOFF_DELAY
        /\ \A t \in DOMAIN regraft \ rpc.prunes : regraft'[t] = regraft[t]
    BY <1>1 DEF Regraft
  <1>6. Types'
    <2>1. DOMAIN regraft' \subseteq Topics
      BY <1>2, <1>4, <1>5
    <2>2. \A t \in DOMAIN regraft' : regraft'[t] \in Nat
      BY <1>0, <1>2, <1>5
    <2> QED
      BY <1>1, <1>2, <1>3, <2>1, <2>2 DEF Types
  <1>7. ASSUME NEW t \in Topics PROVE Covered(t)'
    <2>1. CASE t \in rpc.prunes
      <3>1. backoff[t] \in 0..PRUNE_BACKOFF
        BY <1>2
      <3> QED
        BY <1>0, <1>1, <1>5, <2>1, <3>1 DEF Covered
    <2>2. CASE t \notin rpc.prunes
      <3>1. Pruned(toAttacker, t) => Pruned(toAttacker', t)
        BY <1>1, <1>2, <2>2, PrunedTail, Zenon
      <3>2. Covered(t)
        BY DEF IInv
      <3> QED
        BY <1>1, <1>5, <2>2, <3>1, <3>2 DEF Covered
    <2> QED
      BY <2>1, <2>2
  <1> QED
    BY <1>6, <1>7 DEF IInv

LEMMA TickKeeps == IInv /\ Tick => IInv'
  <1> SUFFICES ASSUME IInv, Tick PROVE IInv'
    OBVIOUS
  <1>0. PRUNE_BACKOFF \in Nat \ {0} /\ PRUNE_BACKOFF_DELAY \in Nat
    BY BackoffAssumption
  <1>1. /\ backoff' = [t \in Topics |-> IF backoff[t] = 0 THEN 0 ELSE backoff[t] - 1]
        /\ regraft' = [t \in DOMAIN regraft |-> IF regraft[t] = 0 THEN 0 ELSE regraft[t] - 1]
        /\ toAttacker' = toAttacker
        /\ subscribed' = subscribed /\ mesh' = mesh /\ known' = known
    BY DEF Tick
  <1>2. Types
    BY DEF IInv
  <1>3. \A t \in Topics : backoff[t] \in 0..PRUNE_BACKOFF
    BY <1>2 DEF Types
  <1>4. \A t \in Topics : backoff'[t] \in 0..PRUNE_BACKOFF
                       /\ (backoff'[t] > 0 => backoff'[t] = backoff[t] - 1)
    BY <1>0, <1>1, <1>3
  <1>5. /\ DOMAIN regraft' = DOMAIN regraft
        /\ \A t \in DOMAIN regraft :
            /\ regraft'[t] \in Nat
            /\ regraft'[t] = IF regraft[t] = 0 THEN 0 ELSE regraft[t] - 1
    BY <1>1, <1>2 DEF Types
  <1>6. backoff' \in [Topics -> 0..PRUNE_BACKOFF]
    BY <1>0, <1>1, <1>3
  <1>7. Types'
    BY <1>1, <1>2, <1>5, <1>6 DEF Types
  <1>8. ASSUME NEW t \in Topics PROVE Covered(t)'
    <2> SUFFICES ASSUME t \in DOMAIN regraft', ~Pruned(toAttacker', t), backoff'[t] > 0
                 PROVE  regraft'[t] >= backoff'[t] + PRUNE_BACKOFF_DELAY
      BY DEF Covered
    <2>1. ~Pruned(toAttacker, t) /\ t \in DOMAIN regraft
      BY <1>1, <1>5
    <2>2. backoff'[t] = backoff[t] - 1 /\ backoff[t] \in 0..PRUNE_BACKOFF
          /\ backoff'[t] \in 0..PRUNE_BACKOFF
      BY <1>3, <1>4
    <2>3. regraft[t] >= backoff[t] + PRUNE_BACKOFF_DELAY
      BY <1>0, <2>1, <2>2 DEF IInv, Covered
    <2>4. regraft[t] \in Nat
      BY <1>2, <2>1 DEF Types
    <2>5. regraft'[t] = regraft[t] - 1
      BY <1>0, <1>5, <2>1, <2>2, <2>3, <2>4
    <2> QED
      BY <1>0, <2>2, <2>3, <2>4, <2>5
  <1> QED
    BY <1>7, <1>8 DEF IInv

LEMMA PollRegraftKeepsIInv == IInv /\ PollRegraft => IInv'
  <1> SUFFICES ASSUME IInv, PollRegraft PROVE IInv'
    OBVIOUS
  <1>1. /\ regraft' = [t \in DOMAIN regraft \ Due |-> regraft[t]]
        /\ toAttacker' = toAttacker /\ backoff' = backoff
        /\ subscribed' = subscribed /\ mesh' = mesh /\ known' = known
    BY DEF PollRegraft, victim
  <1>2. /\ DOMAIN regraft' \subseteq DOMAIN regraft
        /\ \A t \in DOMAIN regraft' : regraft'[t] = regraft[t]
    BY <1>1
  <1> QED
    BY <1>1, <1>2 DEF IInv, Types, Covered

LEMMA VictimKeeps ==
  IInv /\ (Victim \/ VictimHandlesGraft \/ VictimSends) => IInv'
  <1>0. <<>> \in Seq(Topics)
    OBVIOUS
  <1> SUFFICES ASSUME IInv, Victim \/ VictimHandlesGraft \/ VictimSends PROVE IInv'
    OBVIOUS
  <1>t. subscribed \subseteq Topics /\ mesh \subseteq subscribed /\ known \subseteq subscribed
    BY DEF IInv, Types
  <1>1. ASSUME VictimSubscribes PROVE IInv'
    <2>1. PICK topics \in SUBSET (Topics \ subscribed) \ {{}} :
             /\ \E order \in SetToSeqs(topics) : Send(order, {})
             /\ subscribed' = subscribed \cup topics
      BY <1>1 DEF VictimSubscribes
    <2>2. PICK order \in SetToSeqs(topics) : Send(order, {})
      BY <2>1
    <2>3. order \in Seq(Topics)
      BY <2>2, OrderIsSeq
    <2>4. regraft' = regraft /\ backoff' = backoff /\ mesh' = mesh /\ known' = known
      BY <1>1 DEF VictimSubscribes, attacker
    <2>5. /\ subscribed' \subseteq Topics
          /\ mesh' \subseteq subscribed' /\ known' \subseteq subscribed'
      BY <1>t, <2>1, <2>4
    <2> QED
      BY <2>2, <2>3, <2>4, <2>5, VictimSpeaks DEF Send
  <1>2. ASSUME VictimHandlesGraft PROVE IInv'
    <2> DEFINE grafted == (ToSet(Head(toVictim)) \cap subscribed) \ mesh
    <2>1. PICK refused \in SUBSET grafted :
             /\ mesh' = mesh \cup (grafted \ refused)
             /\ known' = known \cup grafted
             /\ StartBackoff(refused)
             /\ IF refused = {} THEN UNCHANGED toAttacker ELSE Send(<<>>, refused)
      BY <1>2 DEF VictimHandlesGraft
    <2>2. regraft' = regraft /\ subscribed' = subscribed
      BY <1>2 DEF VictimHandlesGraft, attacker
    <2>3. /\ subscribed' \subseteq Topics
          /\ mesh' \subseteq subscribed' /\ known' \subseteq subscribed'
      BY <1>t, <2>1, <2>2
    <2>4. CASE refused = {}
      <3>1. toAttacker' = toAttacker
        BY <2>1, <2>4
      <3>2. backoff' = backoff
        BY <2>1, <2>4 DEF StartBackoff, IInv, Types
      <3> QED
        BY <2>2, <2>3, <3>1, <3>2 DEF IInv, Types, Covered
    <2>5. CASE refused # {}
      <3>1. refused \in SUBSET Topics
        BY <1>t, <2>1
      <3> QED
        BY <1>0, <2>1, <2>2, <2>3, <2>5, <3>1, VictimSpeaks DEF Send
    <2> QED
      BY <2>4, <2>5
  <1>3. ASSUME VictimPrunes PROVE IInv'
    <2>1. PICK topics \in SUBSET mesh \ {{}} :
             mesh' = mesh \ topics /\ StartBackoff(topics) /\ Send(<<>>, topics)
      BY <1>3 DEF VictimPrunes
    <2>2. regraft' = regraft /\ subscribed' = subscribed /\ known' = known
      BY <1>3 DEF VictimPrunes, attacker
    <2>3. topics \in SUBSET Topics
      BY <1>t, <2>1
    <2>4. /\ subscribed' \subseteq Topics
          /\ mesh' \subseteq subscribed' /\ known' \subseteq subscribed'
      BY <1>t, <2>1, <2>2
    <2> QED
      BY <1>0, <2>1, <2>2, <2>3, <2>4, VictimSpeaks DEF Send
  <1>4. ASSUME VictimGrafts \/ VictimSends PROVE IInv'
    <2>1. /\ Send(<<>>, {}) /\ regraft' = regraft /\ backoff' = backoff
          /\ subscribed' = subscribed /\ known' = known
          /\ mesh' = mesh \/ \E t \in known : mesh' = mesh \cup {t}
      BY <1>4 DEF VictimGrafts, VictimSends, attacker, victim
    <2>2. /\ subscribed' \subseteq Topics
          /\ mesh' \subseteq subscribed' /\ known' \subseteq subscribed'
      BY <1>t, <2>1
    <2>3. {} \in SUBSET Topics
      OBVIOUS
    <2>4. toAttacker' = Append(toAttacker, [subs |-> <<>>, prunes |-> {}])
      BY <2>1 DEF Send
    <2> QED
      BY <1>0, <2>1, <2>2, <2>3, <2>4, VictimSpeaks, Zenon
  <1> QED
    BY <1>1, <1>2, <1>3, <1>4 DEF Victim

\* The inductive invariant holds: every step of the attacker, of its swarm, of
\* the clock and of the victim keeps it.
THEOREM Invariance == Spec => []IInv
  <1>1. IInv /\ [Next]_vars => IInv'
    <2> SUFFICES ASSUME IInv, [Next]_vars PROVE IInv'
      OBVIOUS
    <2>1. CASE PollEvent \/ Sleep \/ Wake
      <3>1. /\ regraft' = regraft /\ toAttacker' = toAttacker /\ backoff' = backoff
            /\ subscribed' = subscribed /\ mesh' = mesh /\ known' = known
        BY <2>1 DEF PollEvent, Sleep, Wake, attacker, victim
      <3> QED
        BY <3>1 DEF IInv, Types, Covered, Pruned
    <2>2. CASE UNCHANGED vars
      BY <2>2 DEF vars, attacker, victim, IInv, Types, Covered, Pruned
    <2> QED
      BY <2>1, <2>2, InjectEventKeeps, PollRegraftKeepsIInv, TickKeeps, VictimKeeps
      DEF Next, Swarm, Behaviour
  <1> QED
    BY InitIInv, <1>1, PTL DEF Spec

\* For any topics, sizes and backoffs: the delay of a topic covers what is left
\* of the victim's backoff and PRUNE_BACKOFF_DELAY, once the attacker has heard
\* of the latest PRUNE (handle_prune, attacker.rs).
THEOREM BackoffObeyed == Spec => []DelayCoversBackoff
  BY Invariance, CoveredMeansInvariant, PTL

----------------------------------------------------------------------------
(* The fragments of a message                                              *)

\* The lists create_or_add_rpc works on are never empty.
RPCs == Seq(Seq(Topics)) \ {<<>>}

LEMMA ToSetAppend ==
  ASSUME NEW s \in Seq(Topics), NEW t \in Topics
  PROVE  ToSet(Append(s, t)) = ToSet(s) \cup {t}
  <1>1. /\ DOMAIN s = 1..Len(s) /\ Len(s) \in Nat
        /\ DOMAIN Append(s, t) = (1..Len(s)) \cup {Len(s) + 1}
        /\ \A i \in 1..Len(s) : Append(s, t)[i] = s[i]
        /\ Append(s, t)[Len(s) + 1] = t
    OBVIOUS
  <1> QED
    BY <1>1 DEF ToSet

LEMMA TopicsEmpty == Topics_(<<>>) = {}
  BY DEF Topics_

LEMMA TopicsType ==
  ASSUME NEW q \in Seq(Seq(Topics))
  PROVE  Topics_(q) \subseteq Topics
  <1> SUFFICES ASSUME NEW i \in 1..Len(q), NEW t \in ToSet(q[i]) PROVE t \in Topics
    BY DEF Topics_
  <1>1. q[i] \in Seq(Topics)
    OBVIOUS
  <1> QED
    BY <1>1 DEF ToSet

LEMMA TopicsAppend ==
  ASSUME NEW q \in Seq(Seq(Topics)), NEW s \in Seq(Topics)
  PROVE  Topics_(Append(q, s)) = Topics_(q) \cup ToSet(s)
  <1>1. /\ Len(q) \in Nat /\ Len(Append(q, s)) = Len(q) + 1
        /\ \A i \in 1..Len(q) : Append(q, s)[i] = q[i]
        /\ Append(q, s)[Len(q) + 1] = s
    OBVIOUS
  <1>2. 1..Len(q) + 1 = (1..Len(q)) \cup {Len(q) + 1}
    BY <1>1
  <1> QED
    BY <1>1, <1>2, Zenon DEF Topics_

LEMMA TopicsConcat ==
  ASSUME NEW q \in Seq(Seq(Topics)), NEW r \in Seq(Seq(Topics))
  PROVE  Topics_(q \o r) = Topics_(q) \cup Topics_(r)
  <1>1. /\ Len(q) \in Nat /\ Len(r) \in Nat /\ Len(q \o r) = Len(q) + Len(r)
        /\ \A i \in 1..Len(q) : (q \o r)[i] = q[i]
        /\ \A i \in 1..Len(r) : (q \o r)[Len(q) + i] = r[i]
    OBVIOUS
  <1>2. ASSUME NEW t \in Topics_(q \o r) PROVE t \in Topics_(q) \cup Topics_(r)
    <2>1. PICK i \in 1..Len(q) + Len(r) : t \in ToSet((q \o r)[i])
      BY <1>1 DEF Topics_
    <2>2. CASE i \in 1..Len(q)
      BY <1>1, <2>1, <2>2 DEF Topics_
    <2>3. CASE i - Len(q) \in 1..Len(r)
      <3>1. Len(q) + (i - Len(q)) = i
        BY <1>1
      <3>2. (q \o r)[i] = r[i - Len(q)]
        BY <1>1, <2>3, <3>1
      <3> QED
        BY <2>1, <2>3, <3>2 DEF Topics_
    <2> QED
      BY <1>1, <2>2, <2>3
  <1>3. ASSUME NEW t \in Topics_(q) PROVE t \in Topics_(q \o r)
    <2>1. PICK i \in 1..Len(q) : t \in ToSet(q[i])
      BY DEF Topics_
    <2>2. i \in 1..Len(q \o r) /\ (q \o r)[i] = q[i]
      BY <1>1
    <2> QED
      BY <2>1, <2>2 DEF Topics_
  <1>4. ASSUME NEW t \in Topics_(r) PROVE t \in Topics_(q \o r)
    <2>1. PICK i \in 1..Len(r) : t \in ToSet(r[i])
      BY DEF Topics_
    <2>2. Len(q) + i \in 1..Len(q \o r) /\ (q \o r)[Len(q) + i] = r[i]
      BY <1>1
    <2> QED
      BY <2>1, <2>2 DEF Topics_
  <1> QED
    BY <1>2, <1>3, <1>4

LEMMA TopicsTail ==
  ASSUME NEW q \in Seq(Seq(Topics)), q # <<>>
  PROVE  /\ Head(q) \in Seq(Topics) /\ Tail(q) \in Seq(Seq(Topics))
         /\ Topics_(q) = ToSet(Head(q)) \cup Topics_(Tail(q))
  <1>1. /\ Head(q) = q[1] /\ Len(q) \in Nat \ {0} /\ Len(Tail(q)) = Len(q) - 1
        /\ Head(q) \in Seq(Topics) /\ Tail(q) \in Seq(Seq(Topics))
        /\ \A i \in 1..Len(q) - 1 : Tail(q)[i] = q[i + 1]
    OBVIOUS
  <1>2. ASSUME NEW t \in Topics_(q) PROVE t \in ToSet(Head(q)) \cup Topics_(Tail(q))
    <2>1. PICK i \in 1..Len(q) : t \in ToSet(q[i])
      BY DEF Topics_
    <2>2. CASE i = 1
      BY <1>1, <2>1, <2>2
    <2>3. CASE i # 1
      <3>1. i - 1 \in 1..Len(Tail(q)) /\ (i - 1) + 1 = i
        BY <1>1, <2>3
      <3>2. Tail(q)[i - 1] = q[i]
        BY <1>1, <3>1
      <3> QED
        BY <2>1, <3>1, <3>2 DEF Topics_
    <2> QED
      BY <2>2, <2>3
  <1>3. ASSUME NEW t \in ToSet(Head(q)) PROVE t \in Topics_(q)
    <2>1. 1 \in 1..Len(q)
      BY <1>1
    <2> QED
      BY <1>1, <1>3, <2>1 DEF Topics_
  <1>4. ASSUME NEW t \in Topics_(Tail(q)) PROVE t \in Topics_(q)
    <2>1. PICK i \in 1..Len(Tail(q)) : t \in ToSet(Tail(q)[i])
      BY DEF Topics_
    <2>2. i + 1 \in 1..Len(q) /\ Tail(q)[i] = q[i + 1]
      BY <1>1
    <2> QED
      BY <2>1, <2>2 DEF Topics_
  <1> QED
    BY <1>1, <1>2, <1>3, <1>4

LEMMA AddGraftFacts ==
  ASSUME NEW rpcs \in RPCs, NEW t \in Topics
  PROVE  /\ AddGraft(rpcs, t) \in RPCs
         /\ Topics_(AddGraft(rpcs, t)) = Topics_(rpcs) \cup {t}
         /\ \/ AddGraft(rpcs, t) = Append(rpcs, <<t>>)
            \/ /\ AddGraft(rpcs, t) = Append(Front(rpcs), Append(Last(rpcs), t))
               /\ ~ /\ EncodedLen(Last(rpcs)) + (105 * GraftLen[t]) \div 100 > MaxTransmitSize
                    /\ Last(rpcs) # <<>>
  <1>1. rpcs \in Seq(Seq(Topics)) /\ Len(rpcs) \in Nat \ {0}
    BY DEF RPCs
  <1>2. Front(rpcs) \in Seq(Seq(Topics)) /\ Last(rpcs) \in Seq(Topics)
    BY <1>1 DEF Front, Last
  <1>3. <<t>> \in Seq(Topics) /\ ToSet(<<t>>) = {t}
    BY DEF ToSet
  <1>4. Topics_(rpcs) = Topics_(Front(rpcs)) \cup ToSet(Last(rpcs))
    <2>1. rpcs = Append(Front(rpcs), Last(rpcs))
      BY <1>1 DEF Front, Last
    <2>2. Topics_(Append(Front(rpcs), Last(rpcs))) = Topics_(Front(rpcs)) \cup ToSet(Last(rpcs))
      BY <1>2, TopicsAppend
    <2> QED
      BY <2>1, <2>2, Zenon
  <1>5. Append(Last(rpcs), t) \in Seq(Topics) /\ ToSet(Append(Last(rpcs), t)) = ToSet(Last(rpcs)) \cup {t}
    BY <1>2, ToSetAppend
  <1>6. CASE AddGraft(rpcs, t) = Append(rpcs, <<t>>)
    <2>1. Append(rpcs, <<t>>) \in Seq(Seq(Topics)) /\ Append(rpcs, <<t>>) # <<>>
      BY <1>1, <1>3
    <2> QED
      BY <1>1, <1>3, <1>6, <2>1, TopicsAppend DEF RPCs
  <1>7. CASE /\ AddGraft(rpcs, t) = Append(Front(rpcs), Append(Last(rpcs), t))
             /\ ~ /\ EncodedLen(Last(rpcs)) + (105 * GraftLen[t]) \div 100 > MaxTransmitSize
                  /\ Last(rpcs) # <<>>
    <2> DEFINE f == Front(rpcs)  l == Append(Last(rpcs), t)
    <2>1. f \in Seq(Seq(Topics)) /\ l \in Seq(Topics)
      BY <1>2, <1>5
    <2>2. Topics_(Append(f, l)) = Topics_(f) \cup ToSet(l)
      BY <2>1, TopicsAppend
    <2>3. Topics_(AddGraft(rpcs, t)) = Topics_(rpcs) \cup {t}
      BY <1>4, <1>5, <1>7, <2>2
    <2> HIDE DEF f, l
    <2>4. Append(f, l) \in Seq(Seq(Topics)) /\ Append(f, l) # <<>>
      BY <2>1
    <2> QED
      BY <1>7, <2>3, <2>4 DEF RPCs, f, l
  <1> QED
    BY <1>6, <1>7 DEF AddGraft

\* What fragment_message makes of the first k topics of a list.
LEMMA FragmentList ==
  ASSUME NEW topics \in Seq(Topics)
  PROVE  \E f \in [0..Len(topics) -> RPCs] :
            /\ f[0] = << <<>> >>
            /\ \A k \in 1..Len(topics) : f[k] = AddGraft(f[k - 1], topics[k])
            /\ FragmentMessage(topics) =
                 IF EncodedLen(topics) >= MaxTransmitSize
                    /\ ControlLen(topics) + 2 > MaxTransmitSize
                 THEN f[Len(topics)] ELSE <<topics>>
  <1> DEFINE n == Len(topics)
             base == << <<>> >>
             step == [p \in RPCs \X (1..n) |-> AddGraft(p[1], topics[p[2]])]
             rpcs[k \in 0..n] == IF k = 0 THEN base ELSE AddGraft(rpcs[k - 1], topics[k])
  <1>1. n \in Nat /\ \A k \in 1..n : topics[k] \in Topics
    OBVIOUS
  <1>2. base \in RPCs
    BY DEF RPCs
  <1>3. step \in Steps(RPCs, n)
    <2>1. \A p \in RPCs \X (1..n) : AddGraft(p[1], topics[p[2]]) \in RPCs
      BY <1>1, AddGraftFacts
    <2> QED
      BY <2>1 DEF Steps
  <1>4. FragmentMessage(topics) =
          IF EncodedLen(topics) >= MaxTransmitSize /\ ControlLen(topics) + 2 > MaxTransmitSize
          THEN rpcs[n] ELSE <<topics>>
    BY DEF FragmentMessage
  <1> HIDE DEF step, rpcs, n, base
  <1>p. PICK f : Iterates(f, RPCs, base, step, n)
    BY <1>1, <1>2, <1>3, IterationExists
  <1>5. /\ f \in [0..n -> RPCs]
        /\ f[0] = base /\ \A k \in 1..n : f[k] = step[<<f[k - 1], k>>]
    BY <1>p DEF Iterates
  <1>6. \A k \in 1..n : f[k] = AddGraft(f[k - 1], topics[k])
    <2> SUFFICES ASSUME NEW k \in 1..n PROVE f[k] = AddGraft(f[k - 1], topics[k])
      OBVIOUS
    <2>1. f[k - 1] \in RPCs
      BY <1>1, <1>5
    <2> QED
      BY <1>5, <2>1 DEF step
  <1>7. f = [k \in 0..n |-> IF k = 0 THEN base ELSE AddGraft(f[k - 1], topics[k])]
    <2>1. \A k \in 0..n : k = 0 \/ k \in 1..n
      BY <1>1
    <2>2. \A k \in 0..n : f[k] = IF k = 0 THEN base ELSE AddGraft(f[k - 1], topics[k])
      BY <1>5, <1>6, <2>1, Zenon
    <2> QED
      BY <1>5, <2>2
  <1>8. rpcs = [k \in 0..n |-> IF k = 0 THEN base ELSE AddGraft(rpcs[k - 1], topics[k])]
    BY <1>7 DEF rpcs
  <1>9. rpcs \in [0..n -> RPCs] /\ rpcs[0] = base
        /\ \A k \in 1..n : rpcs[k] = AddGraft(rpcs[k - 1], topics[k])
    <2> DEFINE T == {k \in 0..n : rpcs[k] \in RPCs}
    <2>1. \A k \in 0..n : rpcs[k] = IF k = 0 THEN base ELSE AddGraft(rpcs[k - 1], topics[k])
      BY <1>8
    <2>2. rpcs[0] = base /\ \A k \in 1..n : rpcs[k] = AddGraft(rpcs[k - 1], topics[k])
      BY <1>1, <2>1
    <2>3. 0 \in T
      BY <1>1, <1>2, <2>2
    <2>4. ASSUME NEW k \in 0..n - 1, k \in T PROVE k + 1 \in T
      <3>1. k + 1 \in 1..n /\ k + 1 \in 0..n /\ (k + 1) - 1 = k /\ rpcs[k] \in RPCs
        BY <1>1, <2>4
      <3>2. AddGraft(rpcs[k], topics[k + 1]) \in RPCs
        BY <1>1, <3>1, AddGraftFacts
      <3> QED
        BY <2>2, <3>1, <3>2
    <2> HIDE DEF T
    <2>5. \A k \in 0..n : k \in T
      BY <1>1, <2>3, <2>4, BoundedInduction
    <2>6. DOMAIN rpcs = 0..n /\ rpcs = [k \in 0..n |-> rpcs[k]]
      BY <1>8, Zenon
    <2> QED
      BY <2>2, <2>5, <2>6 DEF T
  <1> QED
    BY <1>4, <1>9 DEF n, base

\* Fragmenting a message loses none of its GRAFTs.
LEMMA Fragments ==
  ASSUME NEW topics \in Seq(Topics)
  PROVE  /\ FragmentMessage(topics) \in RPCs
         /\ Topics_(FragmentMessage(topics)) = ToSet(topics)
  <1> DEFINE n == Len(topics)
  <1>1. n \in Nat /\ DOMAIN topics = 1..n /\ \A k \in 1..n : topics[k] \in Topics
    OBVIOUS
  <1> HIDE DEF n
  <1>2. PICK f \in [0..n -> RPCs] :
             /\ f[0] = << <<>> >>
             /\ \A k \in 1..n : f[k] = AddGraft(f[k - 1], topics[k])
             /\ FragmentMessage(topics) =
                  IF EncodedLen(topics) >= MaxTransmitSize
                     /\ ControlLen(topics) + 2 > MaxTransmitSize
                  THEN f[n] ELSE <<topics>>
    BY FragmentList DEF n
  <1>3. CASE FragmentMessage(topics) = <<topics>>
    <2>1. <<topics>> \in RPCs
      BY DEF RPCs
    <2>2. Topics_(<<topics>>) = ToSet(topics)
      <3>1. Len(<<topics>>) = 1 /\ <<topics>>[1] = topics /\ 1..1 = {1}
        OBVIOUS
      <3> QED
        BY <3>1 DEF Topics_
    <2> QED
      BY <1>3, <2>1, <2>2
  <1>4. CASE FragmentMessage(topics) = f[n]
    <2> DEFINE T == {k \in 0..n : Topics_(f[k]) = {topics[j] : j \in 1..k}}
    <2>1. 0 \in T
      <3>1. Len(<< <<>> >>) = 1 /\ << <<>> >>[1] = <<>> /\ 1..1 = {1} /\ 1..0 = {}
        OBVIOUS
      <3>2. ToSet(<<>>) = {}
        BY DEF ToSet
      <3>3. Topics_(f[0]) = {}
        BY <1>2, <3>1, <3>2 DEF Topics_
      <3> QED
        BY <1>1, <3>1, <3>3
    <2>2. ASSUME NEW k \in 0..n - 1, k \in T PROVE k + 1 \in T
      <3>1. k + 1 \in 1..n /\ k + 1 \in 0..n /\ k \in 0..n /\ (k + 1) - 1 = k /\ f[k] \in RPCs
        BY <1>1, <1>2
      <3>2. f[k + 1] = AddGraft(f[k], topics[k + 1]) /\ topics[k + 1] \in Topics
        BY <1>1, <1>2, <3>1
      <3>3. Topics_(f[k + 1]) = Topics_(f[k]) \cup {topics[k + 1]}
        BY <3>1, <3>2, AddGraftFacts
      <3>4. Topics_(f[k]) = {topics[j] : j \in 1..k}
        BY <2>2
      <3>5. 1..k + 1 = (1..k) \cup {k + 1}
        BY <1>1, <3>1
      <3>6. {topics[j] : j \in 1..k + 1} = {topics[j] : j \in 1..k} \cup {topics[k + 1]}
        BY <3>5
      <3> QED
        BY <3>1, <3>3, <3>4, <3>6
    <2> HIDE DEF T
    <2>3. \A k \in 0..n : k \in T
      BY <1>1, <2>1, <2>2, BoundedInduction
    <2>4. n \in 0..n
      BY <1>1
    <2>5. Topics_(f[n]) = {topics[j] : j \in 1..n}
      BY <2>3, <2>4 DEF T
    <2> QED
      BY <1>1, <1>2, <1>4, <2>4, <2>5 DEF ToSet
  <1> QED
    BY <1>2, <1>3, <1>4

LEMMA SingleSeq ==
  ASSUME NEW t \in Topics
  PROVE  <<t>> \in Seq(Topics) /\ ToSet(<<t>>) = {t}
  BY DEF ToSet

LEMMA WidenSeq ==
  ASSUME NEW S, S \subseteq Seq(Topics), NEW q \in Seq(S)
  PROVE  q \in Seq(Seq(Topics))
  <1>1. q \in [1..Len(q) -> S] /\ Len(q) \in Nat
    OBVIOUS
  <1>2. q \in [1..Len(q) -> Seq(Topics)]
    BY <1>1
  <1> QED
    BY <1>1, <1>2

\* poll queues the GRAFTs of all that is due, in messages from S if the fragments
\* of a single GRAFT are.
LEMMA Queued ==
  ASSUME NEW S, S \subseteq Seq(Topics), events \in Seq(S), NEW order \in Seq(Topics),
         \A t \in Topics : FragmentMessage(<<t>>) \in Seq(S)
  PROVE  /\ QueueGrafts(order) \in Seq(S)
         /\ Topics_(QueueGrafts(order)) = Topics_(events) \cup ToSet(order)
  <1> DEFINE n == Len(order)
             X == {q \in Seq(S) : TRUE}
             step == [p \in X \X (1..n) |-> SendMessage(p[1], <<order[p[2]]>>)]
             queue[k \in 0..n] == IF k = 0 THEN events ELSE SendMessage(queue[k - 1], <<order[k]>>)
  <1>1. n \in Nat /\ DOMAIN order = 1..n /\ \A k \in 1..n : order[k] \in Topics
    OBVIOUS
  <1>2. events \in X /\ X = Seq(S)
    OBVIOUS
  <1>3. ASSUME NEW q \in X, NEW t \in Topics
        PROVE  /\ SendMessage(q, <<t>>) \in X
               /\ Topics_(SendMessage(q, <<t>>)) = Topics_(q) \cup {t}
    <2>1. FragmentMessage(<<t>>) \in Seq(S) /\ q \in Seq(S)
      BY <1>2
    <2>2. q \o FragmentMessage(<<t>>) \in Seq(S)
      BY <2>1
    <2>3. q \in Seq(Seq(Topics)) /\ FragmentMessage(<<t>>) \in Seq(Seq(Topics))
      BY <2>1, WidenSeq
    <2>4. Topics_(FragmentMessage(<<t>>)) = {t}
      BY SingleSeq, Fragments
    <2>5. Topics_(q \o FragmentMessage(<<t>>)) = Topics_(q) \cup {t}
      BY <2>3, <2>4, TopicsConcat
    <2> QED
      BY <1>2, <2>2, <2>5 DEF SendMessage
  <1>4. QueueGrafts(order) = queue[n]
    BY DEF QueueGrafts
  <1> HIDE DEF X
  <1>5. step \in Steps(X, n)
    <2>1. \A p \in X \X (1..n) : SendMessage(p[1], <<order[p[2]]>>) \in X
      BY <1>1, <1>3
    <2> QED
      BY <2>1 DEF Steps
  <1> HIDE DEF step, queue, n
  <1>6. PICK f : Iterates(f, X, events, step, n)
    BY <1>1, <1>2, <1>5, IterationExists
  <1>7. /\ f \in [0..n -> X]
        /\ f[0] = events /\ \A k \in 1..n : f[k] = step[<<f[k - 1], k>>]
    BY <1>6 DEF Iterates
  <1>8. \A k \in 1..n : f[k] = SendMessage(f[k - 1], <<order[k]>>)
    <2> SUFFICES ASSUME NEW k \in 1..n PROVE f[k] = SendMessage(f[k - 1], <<order[k]>>)
      OBVIOUS
    <2>1. f[k - 1] \in X
      BY <1>1, <1>7
    <2> QED
      BY <1>7, <2>1 DEF step
  <1>9. f = [k \in 0..n |-> IF k = 0 THEN events ELSE SendMessage(f[k - 1], <<order[k]>>)]
    <2>1. \A k \in 0..n : k = 0 \/ k \in 1..n
      BY <1>1
    <2>2. \A k \in 0..n : f[k] = IF k = 0 THEN events ELSE SendMessage(f[k - 1], <<order[k]>>)
      BY <1>7, <1>8, <2>1, Zenon
    <2> QED
      BY <1>7, <2>2
  <1>10. queue = [k \in 0..n |-> IF k = 0 THEN events ELSE SendMessage(queue[k - 1], <<order[k]>>)]
    BY <1>9 DEF queue
  <1>11. queue[0] = events /\ \A k \in 1..n : queue[k] = SendMessage(queue[k - 1], <<order[k]>>)
    <2>1. \A k \in 0..n : queue[k] = IF k = 0 THEN events ELSE SendMessage(queue[k - 1], <<order[k]>>)
      BY <1>10
    <2>2. 0 \in 0..n /\ \A k \in 1..n : k \in 0..n /\ k # 0
      BY <1>1
    <2> QED
      BY <2>1, <2>2, Zenon
  <1> DEFINE T == {k \in 0..n : /\ queue[k] \in X
                               /\ Topics_(queue[k]) = Topics_(events) \cup {order[j] : j \in 1..k}}
  <1>12. 0 \in T
    <2>1. 1..0 = {}
      OBVIOUS
    <2> QED
      BY <1>1, <1>2, <1>11, <2>1
  <1>13. ASSUME NEW k \in 0..n - 1, k \in T PROVE k + 1 \in T
    <2>1. k + 1 \in 1..n /\ k + 1 \in 0..n /\ k \in 0..n /\ (k + 1) - 1 = k /\ queue[k] \in X
      BY <1>1, <1>13
    <2>2. queue[k + 1] = SendMessage(queue[k], <<order[k + 1]>>) /\ order[k + 1] \in Topics
      BY <1>1, <1>11, <2>1
    <2>3. queue[k + 1] \in X /\ Topics_(queue[k + 1]) = Topics_(queue[k]) \cup {order[k + 1]}
      BY <1>3, <2>1, <2>2
    <2>4. Topics_(queue[k]) = Topics_(events) \cup {order[j] : j \in 1..k}
      BY <1>13
    <2>5. 1..k + 1 = (1..k) \cup {k + 1}
      BY <1>1, <2>1
    <2>6. {order[j] : j \in 1..k + 1} = {order[j] : j \in 1..k} \cup {order[k + 1]}
      BY <2>5
    <2> QED
      BY <2>1, <2>3, <2>4, <2>6
  <1> HIDE DEF T
  <1>14. \A k \in 0..n : k \in T
    BY <1>1, <1>12, <1>13, BoundedInduction
  <1>15. n \in 0..n
    BY <1>1
  <1>16. queue[n] \in X /\ Topics_(queue[n]) = Topics_(events) \cup {order[j] : j \in 1..n}
    BY <1>14, <1>15 DEF T
  <1> QED
    BY <1>1, <1>2, <1>4, <1>16 DEF ToSet

----------------------------------------------------------------------------
(* The queue, the delay set and the types                                  *)

QueueInv ==
    /\ events \in Seq(Seq(Topics))
    /\ toVictim \in Seq(Seq(Topics))
    /\ swarm \in {"asleep", "behaviour", "pool"}
    /\ \A t \in DOMAIN regraft : regraft[t] <= PRUNE_BACKOFF + PRUNE_BACKOFF_DELAY
    /\ mesh \subseteq known
    /\ QueuedOrWaiting

LEMMA QueueInit == Init => QueueInv
  <1> SUFFICES ASSUME Init PROVE QueueInv
    OBVIOUS
  <1>1. DOMAIN regraft = {} /\ events = <<>> /\ toVictim = <<>> /\ swarm = "asleep" /\ mesh = known
    BY DEF Init
  <1> QED
    BY <1>1 DEF QueueInv, QueuedOrWaiting

LEMMA OrderSet ==
  ASSUME NEW topics \in SUBSET Topics, NEW order \in SetToSeqs(topics)
  PROVE  order \in Seq(Topics) /\ ToSet(order) = topics
  <1>1. IsFiniteSet(topics)
    BY TopicsAssumption, FS_Subset
  <1>2. Cardinality(topics) \in Nat
    BY <1>1, FS_CardinalityType
  <1> DEFINE D == 1..Cardinality(topics)
  <1>3. order \in [D -> topics] /\ \A i, j \in D : i # j => order[i] # order[j]
    BY DEF SetToSeqs
  <1>4. IsFiniteSet(D) /\ Cardinality(D) = Cardinality(topics)
    BY <1>2, FS_Interval
  <1>5. order \in Injection(D, topics)
    BY <1>3 DEF Injection, IsInjective
  <1>6. order \in Surjection(D, topics)
    BY <1>1, <1>4, <1>5, FS_Injection
  <1>7. DOMAIN order = D /\ \A t \in topics : \E i \in D : order[i] = t
    BY <1>3, <1>6 DEF Surjection
  <1> QED
    BY <1>3, <1>7, OrderIsSeq DEF ToSet

\* The swarm turns from the behaviour with the topics that were due in the queue,
\* and out of the delay set.
LEMMA PollRegraftMoves ==
  ASSUME IInv, PollRegraft, NEW S, S \subseteq Seq(Topics), events \in Seq(S),
         \A t \in Topics : FragmentMessage(<<t>>) \in Seq(S)
  PROVE  /\ events' \in Seq(S)
         /\ Topics_(events') = Due
         /\ DOMAIN regraft' = DOMAIN regraft \ Due
         /\ \A t \in DOMAIN regraft' : regraft'[t] = regraft[t]
  <1>1. PICK order \in SetToSeqs(Due) : events' = QueueGrafts(order)
    BY DEF PollRegraft
  <1>2. Due \subseteq Topics
    BY DEF Due, IInv, Types
  <1>3. order \in Seq(Topics) /\ ToSet(order) = Due
    BY <1>2, OrderSet
  <1>4. QueueGrafts(order) \in Seq(S) /\ Topics_(QueueGrafts(order)) = Topics_(events) \cup Due
    BY <1>3, Queued
  <1>5. Topics_(events) = {}
    BY TopicsEmpty DEF PollRegraft
  <1>6. regraft' = [t \in DOMAIN regraft \ Due |-> regraft[t]]
    BY DEF PollRegraft
  <1> QED
    BY <1>1, <1>4, <1>5, <1>6

LEMMA SingleFragments ==
  \A t \in Topics : FragmentMessage(<<t>>) \in Seq(Seq(Topics))
  BY SingleSeq, Fragments DEF RPCs

LEMMA QueueStep ==
  ASSUME IInv, QueueInv, [Next]_vars
  PROVE  QueueInv'
  <1>0. /\ events \in Seq(Seq(Topics)) /\ toVictim \in Seq(Seq(Topics))
        /\ swarm \in {"asleep", "behaviour", "pool"}
        /\ mesh \subseteq known
        /\ \A t \in DOMAIN regraft : regraft[t] <= PRUNE_BACKOFF + PRUNE_BACKOFF_DELAY
        /\ \A t \in DOMAIN regraft : regraft[t] \in Nat
        /\ PRUNE_BACKOFF + PRUNE_BACKOFF_DELAY \in Nat
    BY BackoffAssumption DEF QueueInv, IInv, Types
  <1>1. CASE InjectEvent
    <2> DEFINE rpc == Head(toAttacker)
    <2>1. /\ toAttacker # <<>> /\ events' = HandleReceivedSubscriptions(rpc.subs)
          /\ regraft' = Regraft(rpc.prunes) /\ swarm' = "behaviour"
          /\ toVictim' = toVictim /\ mesh' = mesh /\ known' = known
      BY <1>1 DEF InjectEvent, victim
    <2>2. rpc \in RPC
      BY <2>1 DEF IInv, Types
    <2>3. rpc.subs \in Seq(Topics)
      BY <2>2 DEF RPC
    <2>4. events' \in Seq(Seq(Topics))
      <3>1. FragmentMessage(rpc.subs) \in Seq(Seq(Topics))
        BY <2>3, Fragments DEF RPCs
      <3> QED
        BY <1>0, <2>1, <3>1 DEF HandleReceivedSubscriptions, SendMessage
    <2>5. \A t \in DOMAIN regraft' : regraft'[t] <= PRUNE_BACKOFF + PRUNE_BACKOFF_DELAY
      <3>1. /\ DOMAIN regraft' = DOMAIN regraft \cup rpc.prunes
            /\ \A t \in rpc.prunes : regraft'[t] = PRUNE_BACKOFF + PRUNE_BACKOFF_DELAY
            /\ \A t \in DOMAIN regraft \ rpc.prunes : regraft'[t] = regraft[t]
        BY <2>1 DEF Regraft
      <3> QED
        BY <1>0, <3>1
    <2> QED
      BY <1>0, <2>1, <2>4, <2>5 DEF QueueInv, QueuedOrWaiting
  <1>2. CASE PollEvent
    <2>1. /\ events # <<>> /\ events' = Tail(events) /\ regraft' = regraft
          /\ swarm = "behaviour" /\ swarm' = swarm /\ mesh' = mesh /\ known' = known
          /\ toVictim' = toVictim \/ toVictim' = Append(toVictim, Head(events))
      BY <1>2 DEF PollEvent, victim
    <2>2. events' \in Seq(Seq(Topics)) /\ toVictim' \in Seq(Seq(Topics))
      <3>1. Head(events) \in Seq(Topics) /\ Tail(events) \in Seq(Seq(Topics))
        BY <1>0, <2>1, TopicsTail
      <3>2. Append(toVictim, Head(events)) \in Seq(Seq(Topics))
        BY <1>0, <3>1
      <3> QED
        BY <1>0, <2>1, <3>1, <3>2
    <2> QED
      BY <1>0, <2>1, <2>2 DEF QueueInv, QueuedOrWaiting
  <1>3. CASE PollRegraft
    <2>1. /\ events' \in Seq(Seq(Topics)) /\ Topics_(events') = Due
          /\ DOMAIN regraft' = DOMAIN regraft \ Due
          /\ \A t \in DOMAIN regraft' : regraft'[t] = regraft[t]
      BY <1>0, <1>3, SingleFragments, PollRegraftMoves
    <2>2. swarm' = "pool" /\ toVictim' = toVictim /\ mesh' = mesh /\ known' = known
      BY <1>3 DEF PollRegraft, victim
    <2>3. Topics_(events)' \cap DOMAIN regraft' = {}
      BY <2>1 DEF Topics_
    <2> QED
      BY <1>0, <2>1, <2>2, <2>3 DEF QueueInv, QueuedOrWaiting
  <1>4. CASE Tick
    <2>1. /\ DOMAIN regraft' = DOMAIN regraft
          /\ \A t \in DOMAIN regraft : regraft'[t] = IF regraft[t] = 0 THEN 0 ELSE regraft[t] - 1
          /\ events' = events /\ swarm' = swarm /\ toVictim' = toVictim
          /\ mesh' = mesh /\ known' = known
      BY <1>4 DEF Tick
    <2>2. \A t \in DOMAIN regraft' : regraft'[t] <= PRUNE_BACKOFF + PRUNE_BACKOFF_DELAY
      BY <1>0, <2>1
    <2> QED
      BY <1>0, <2>1, <2>2 DEF QueueInv, QueuedOrWaiting, Topics_
  <1>5. ASSUME events' = events, regraft' = regraft, mesh' \subseteq known',
               swarm' = swarm \/ swarm = "pool" \/ swarm' = "behaviour",
               swarm' \in {"asleep", "behaviour", "pool"},
               toVictim' = toVictim \/ (toVictim # <<>> /\ toVictim' = Tail(toVictim))
        PROVE  QueueInv'
    <2>1. toVictim' \in Seq(Seq(Topics))
      BY <1>0, <1>5, TopicsTail
    <2> QED
      BY <1>0, <1>5, <2>1 DEF QueueInv, QueuedOrWaiting, Topics_
  <1>6. CASE Sleep \/ Wake \/ UNCHANGED vars
    BY <1>0, <1>5, <1>6 DEF Sleep, Wake, vars, attacker, victim
  <1>7. CASE VictimSubscribes \/ VictimPrunes \/ VictimGrafts \/ VictimSends
    <2>1. /\ events' = events /\ regraft' = regraft /\ swarm' = swarm /\ toVictim' = toVictim
      BY <1>7 DEF VictimSubscribes, VictimPrunes, VictimGrafts, VictimSends, attacker
    <2>2. mesh' \subseteq known'
      BY <1>0, <1>7 DEF VictimSubscribes, VictimPrunes, VictimGrafts, VictimSends, victim
    <2> QED
      BY <1>0, <1>5, <2>1, <2>2
  <1>8. CASE VictimHandlesGraft
    <2>1. /\ events' = events /\ regraft' = regraft /\ swarm' = swarm
          /\ toVictim # <<>> /\ toVictim' = Tail(toVictim)
      BY <1>8 DEF VictimHandlesGraft, attacker
    <2>2. mesh' \subseteq known'
      BY <1>0, <1>8 DEF VictimHandlesGraft
    <2> QED
      BY <1>0, <1>5, <2>1, <2>2
  <1> QED
    BY <1>1, <1>2, <1>3, <1>4, <1>6, <1>7, <1>8 DEF Next, Swarm, Behaviour, Victim

LEMMA QueueInvariance == Spec => []QueueInv
  <1>1. IInv /\ QueueInv /\ [Next]_vars => QueueInv'
    BY QueueStep
  <1> QED
    BY QueueInit, <1>1, Invariance, PTL DEF Spec

\* For any topics, sizes and backoffs, the variables keep to their types; no
\* timer of the delay set is ever set to more than the backoff and its margin.
THEOREM TypeCorrect == Spec => []TypeOK
  <1>1. IInv /\ QueueInv => TypeOK
    BY BackoffAssumption DEF IInv, Types, QueueInv, TypeOK
  <1> QED
    BY <1>1, Invariance, QueueInvariance, PTL

\* For any topics, sizes and backoffs: outside of the behaviour's own run, no
\* topic is both queued and in the delay set (poll, attacker.rs).
THEOREM NeverQueuedAndWaiting == Spec => []QueuedOrWaiting
  <1>1. QueueInv => QueuedOrWaiting
    BY DEF QueueInv
  <1> QED
    BY <1>1, QueueInvariance, PTL

----------------------------------------------------------------------------
(* No topic is forgotten                                                   *)

\* What the victim can announce at once, in any order.
Announcements == UNION {SetToSeqs(topics) : topics \in SUBSET Topics}

\* The messages the connection handler can encode.
Fitting == {topics \in Seq(Topics) : ~(EncodedLen(topics) > MaxTransmitSize)}

\* A message the handler cannot encode is lost, with the GRAFTs in it: what is
\* proved here is proved for sizes at which the fragments of an announcement fit.
RPCsFit == \A topics \in Announcements : FragmentMessage(topics) \in Seq(Fitting)

\* Some RPC of q announces t.
Announces(q, t) == \E i \in 1..Len(q) : t \in ToSet(q[i].subs)

Somewhere(t) ==
    \/ Announces(toAttacker, t)
    \/ t \in Topics_(events)
    \/ t \in Topics_(toVictim)
    \/ t \in mesh
    \/ Pruned(toAttacker, t)
    \/ t \in DOMAIN regraft

KeptInv ==
    /\ events \in Seq(Fitting)
    /\ \A i \in 1..Len(toAttacker) : toAttacker[i].subs \in Announcements
    /\ \A t \in subscribed : Somewhere(t)

LEMMA SomewhereMeansInvariant == KeptInv => NoTopicForgotten
  <1> SUFFICES ASSUME KeptInv, NEW t \in subscribed
               PROVE  t \in Subscriptions \cup Topics_(events) \cup Topics_(toVictim)
                              \cup mesh \cup Prunes \cup DOMAIN regraft
    BY DEF NoTopicForgotten
  <1>1. Announces(toAttacker, t) => t \in Subscriptions
    BY DEF Announces, Subscriptions
  <1>2. Pruned(toAttacker, t) => t \in Prunes
    BY DEF Pruned, Prunes
  <1> QED
    BY <1>1, <1>2 DEF KeptInv, Somewhere

LEMMA AnnouncesAppend ==
  ASSUME NEW q \in Seq(RPC), NEW rpc \in RPC, NEW t
  PROVE  Announces(Append(q, rpc), t) <=> Announces(q, t) \/ t \in ToSet(rpc.subs)
  <1>1. /\ Len(Append(q, rpc)) = Len(q) + 1 /\ Len(q) \in Nat
        /\ Append(q, rpc)[Len(q) + 1] = rpc
        /\ \A i \in 1..Len(q) : Append(q, rpc)[i] = q[i]
    OBVIOUS
  <1>2. 1..Len(q) + 1 = (1..Len(q)) \cup {Len(q) + 1}
    BY <1>1
  <1> QED
    BY <1>1, <1>2, Zenon DEF Announces

LEMMA AnnouncesTail ==
  ASSUME NEW q \in Seq(RPC), q # <<>>, NEW t, Announces(q, t)
  PROVE  t \in ToSet(Head(q).subs) \/ Announces(Tail(q), t)
  <1>1. /\ Head(q) = q[1] /\ Len(q) \in Nat \ {0} /\ Len(Tail(q)) = Len(q) - 1
        /\ \A i \in 1..Len(q) - 1 : Tail(q)[i] = q[i + 1]
    OBVIOUS
  <1>2. PICK i \in 1..Len(q) : t \in ToSet(q[i].subs)
    BY DEF Announces
  <1>3. CASE i = 1
    BY <1>1, <1>2, <1>3
  <1>4. CASE i # 1
    <2>1. i - 1 \in 1..Len(Tail(q)) /\ (i - 1) + 1 = i
      BY <1>1, <1>4
    <2>2. t \in ToSet(Tail(q)[i - 1].subs)
      BY <1>1, <1>2, <2>1
    <2> QED
      BY <2>1, <2>2 DEF Announces
  <1> QED
    BY <1>3, <1>4

LEMMA SmallAnnouncements ==
  <<>> \in Announcements /\ \A t \in Topics : <<t>> \in Announcements
  <1>1. <<>> \in SetToSeqs({})
    <2>1. Cardinality({}) = 0 /\ 1..0 = {}
      BY FS_EmptySet
    <2> QED
      BY <2>1 DEF SetToSeqs
  <1>2. ASSUME NEW t \in Topics PROVE <<t>> \in SetToSeqs({t})
    <2>1. Cardinality({t}) = 1 /\ 1..1 = {1}
      BY FS_Singleton
    <2>2. <<t>> \in [1..1 -> {t}]
      OBVIOUS
    <2> QED
      BY <2>1, <2>2 DEF SetToSeqs
  <1> QED
    BY <1>1, <1>2 DEF Announcements

\* The victim says something: nothing on the way to it changes.
LEMMA KeptWhenSpeaking ==
  ASSUME IInv, KeptInv,
         NEW subs \in Announcements, subs \in Seq(Topics), NEW prunes \in SUBSET Topics,
         toAttacker' = Append(toAttacker, [subs |-> subs, prunes |-> prunes]),
         events' = events, regraft' = regraft,
         \A t \in subscribed' : \/ t \in ToSet(subs) \/ t \in prunes \/ t \in mesh'
                                \/ t \in subscribed /\ (t \in mesh => t \in mesh')
                                   /\ (t \in Topics_(toVictim) => t \in Topics_(toVictim'))
  PROVE  KeptInv'
  <1> DEFINE rpc == [subs |-> subs, prunes |-> prunes]
  <1>1. rpc \in RPC /\ rpc.subs = subs /\ rpc.prunes = prunes /\ toAttacker \in Seq(RPC)
        /\ toAttacker' = Append(toAttacker, rpc)
    BY DEF RPC, IInv, Types
  <1> HIDE DEF rpc
  <1>2. \A i \in 1..Len(toAttacker') : toAttacker'[i].subs \in Announcements
    <2>1. \A i \in 1..Len(toAttacker') :
            \/ toAttacker'[i] = toAttacker[i] /\ i \in 1..Len(toAttacker)
            \/ toAttacker'[i] = rpc
      BY <1>1
    <2> QED
      BY <1>1, <2>1 DEF KeptInv
  <1>3. ASSUME NEW t \in subscribed' PROVE Somewhere(t)'
    <2>1. /\ Announces(toAttacker', t) <=> Announces(toAttacker, t) \/ t \in ToSet(subs)
          /\ Pruned(toAttacker', t) <=> Pruned(toAttacker, t) \/ t \in prunes
      BY <1>1, AnnouncesAppend, PrunedAppend
    <2>2. t \in subscribed => Somewhere(t)
      BY DEF KeptInv
    <2>3. Topics_(events)' = Topics_(events) /\ Topics_(toVictim)' = Topics_(toVictim')
      BY DEF Topics_
    <2> QED
      BY <2>1, <2>2, <2>3 DEF Somewhere
  <1> QED
    BY <1>2, <1>3 DEF KeptInv

LEMMA KeptInit == Init => KeptInv
  BY DEF Init, KeptInv

LEMMA KeptByAttacker ==
  ASSUME RPCsFit, IInv, QueueInv, KeptInv, Behaviour
  PROVE  KeptInv'
  <1>0. /\ toAttacker \in Seq(RPC) /\ Fitting \subseteq Seq(Topics) /\ events \in Seq(Fitting)
        /\ events \in Seq(Seq(Topics)) /\ toVictim \in Seq(Seq(Topics))
        /\ \A i \in 1..Len(toAttacker) : toAttacker[i].subs \in Announcements
        /\ \A t \in subscribed : Somewhere(t)
        /\ \A topics \in Announcements : FragmentMessage(topics) \in Seq(Fitting)
    BY DEF IInv, Types, QueueInv, KeptInv, RPCsFit, Fitting
  <1>1. CASE InjectEvent
    <2> DEFINE rpc == Head(toAttacker)
    <2>1. /\ toAttacker # <<>> /\ toAttacker' = Tail(toAttacker)
          /\ events' = HandleReceivedSubscriptions(rpc.subs)
          /\ regraft' = Regraft(rpc.prunes)
          /\ toVictim' = toVictim /\ mesh' = mesh /\ subscribed' = subscribed
      BY <1>1 DEF InjectEvent, victim
    <2>2. /\ rpc \in RPC /\ rpc = toAttacker[1] /\ 1 \in 1..Len(toAttacker)
          /\ Len(toAttacker') = Len(toAttacker) - 1
          /\ \A i \in 1..Len(toAttacker) - 1 :
                toAttacker'[i] = toAttacker[i + 1] /\ i + 1 \in 1..Len(toAttacker)
      BY <1>0, <2>1
    <2>3. rpc.subs \in Seq(Topics) /\ rpc.subs \in Announcements
      BY <1>0, <2>2 DEF RPC
    <2>4. /\ FragmentMessage(rpc.subs) \in Seq(Fitting)
          /\ FragmentMessage(rpc.subs) \in Seq(Seq(Topics))
          /\ Topics_(FragmentMessage(rpc.subs)) = ToSet(rpc.subs)
      BY <1>0, <2>3, Fragments DEF RPCs
    <2>5. events' \in Seq(Fitting) /\ Topics_(events') = Topics_(events) \cup ToSet(rpc.subs)
      <3>1. CASE rpc.subs = <<>>
        <4>1. ToSet(rpc.subs) = {}
          BY <3>1 DEF ToSet
        <4> QED
          BY <1>0, <2>1, <3>1, <4>1 DEF HandleReceivedSubscriptions
      <3>2. CASE rpc.subs # <<>>
        <4>1. events' = events \o FragmentMessage(rpc.subs)
          BY <2>1, <3>2 DEF HandleReceivedSubscriptions, SendMessage
        <4>2. events \o FragmentMessage(rpc.subs) \in Seq(Fitting)
          BY <1>0, <2>4
        <4> QED
          BY <1>0, <2>4, <4>1, <4>2, TopicsConcat
      <3> QED
        BY <3>1, <3>2
    <2>6. DOMAIN regraft' = DOMAIN regraft \cup rpc.prunes
      BY <2>1 DEF Regraft
    <2>7. \A i \in 1..Len(toAttacker') : toAttacker'[i].subs \in Announcements
      BY <1>0, <2>2
    <2>8. ASSUME NEW t \in subscribed' PROVE Somewhere(t)'
      <3>1. Somewhere(t)
        BY <1>0, <2>1
      <3>2. Announces(toAttacker, t) => t \in ToSet(rpc.subs) \/ Announces(toAttacker', t)
        BY <1>0, <2>1, AnnouncesTail
      <3>3. Pruned(toAttacker, t) => t \in rpc.prunes \/ Pruned(toAttacker', t)
        BY <1>0, <2>1, PrunedTail
      <3>4. Topics_(events)' = Topics_(events') /\ Topics_(toVictim)' = Topics_(toVictim)
        BY <2>1 DEF Topics_
      <3> QED
        BY <2>1, <2>5, <2>6, <3>1, <3>2, <3>3, <3>4 DEF Somewhere
    <2> QED
      BY <2>5, <2>7, <2>8 DEF KeptInv
  <1>2. CASE PollEvent
    <2>1. /\ events # <<>> /\ events' = Tail(events) /\ regraft' = regraft
          /\ toAttacker' = toAttacker /\ mesh' = mesh /\ subscribed' = subscribed
          /\ toVictim' = IF EncodedLen(Head(events)) > MaxTransmitSize THEN toVictim
                         ELSE Append(toVictim, Head(events))
      BY <1>2 DEF PollEvent, victim
    <2>2. Head(events) \in Fitting /\ Tail(events) \in Seq(Fitting)
      BY <1>0, <2>1
    <2>3. toVictim' = Append(toVictim, Head(events)) /\ Head(events) \in Seq(Topics)
      BY <2>1, <2>2 DEF Fitting
    <2>4. /\ Topics_(events) = ToSet(Head(events)) \cup Topics_(events')
          /\ Topics_(toVictim') = Topics_(toVictim) \cup ToSet(Head(events))
      BY <1>0, <2>1, <2>3, TopicsTail, TopicsAppend
    <2>5. ASSUME NEW t \in subscribed' PROVE Somewhere(t)'
      <3>1. Somewhere(t)
        BY <1>0, <2>1
      <3>2. Topics_(events)' = Topics_(events') /\ Topics_(toVictim)' = Topics_(toVictim')
        BY DEF Topics_
      <3> QED
        BY <2>1, <2>4, <3>1, <3>2 DEF Somewhere, Announces, Pruned
    <2> QED
      BY <1>0, <2>1, <2>2, <2>5 DEF KeptInv
  <1>3. CASE PollRegraft
    <2>1. \A t \in Topics : FragmentMessage(<<t>>) \in Seq(Fitting)
      BY <1>0, SmallAnnouncements
    <2>2. /\ events' \in Seq(Fitting) /\ Topics_(events') = Due
          /\ DOMAIN regraft' = DOMAIN regraft \ Due
      BY <1>0, <1>3, <2>1, PollRegraftMoves
    <2>3. /\ events = <<>> /\ toAttacker' = toAttacker /\ toVictim' = toVictim
          /\ mesh' = mesh /\ subscribed' = subscribed
      BY <1>3 DEF PollRegraft, victim
    <2>4. Topics_(events) = {}
      BY <2>3, TopicsEmpty
    <2>5. ASSUME NEW t \in subscribed' PROVE Somewhere(t)'
      <3>1. Somewhere(t)
        BY <1>0, <2>3
      <3>2. Topics_(events)' = Topics_(events') /\ Topics_(toVictim)' = Topics_(toVictim)
        BY <2>3 DEF Topics_
      <3> QED
        BY <2>2, <2>3, <2>4, <3>1, <3>2 DEF Somewhere, Announces, Pruned
    <2> QED
      BY <1>0, <2>2, <2>3, <2>5 DEF KeptInv
  <1> QED
    BY <1>1, <1>2, <1>3 DEF Behaviour

LEMMA KeptByVictim ==
  ASSUME IInv, QueueInv, KeptInv, Victim \/ VictimHandlesGraft \/ VictimSends
  PROVE  KeptInv'
  <1>0. /\ subscribed \subseteq Topics /\ mesh \subseteq subscribed
        /\ toVictim \in Seq(Seq(Topics))
        /\ <<>> \in Seq(Topics) /\ <<>> \in Announcements /\ {} \in SUBSET Topics
    BY SmallAnnouncements DEF IInv, Types, QueueInv
  <1>1. CASE VictimSubscribes
    <2>1. PICK topics \in SUBSET (Topics \ subscribed) \ {{}} :
             /\ \E order \in SetToSeqs(topics) : Send(order, {})
             /\ subscribed' = subscribed \cup topics
      BY <1>1 DEF VictimSubscribes
    <2>2. PICK order \in SetToSeqs(topics) : Send(order, {})
      BY <2>1
    <2>3. order \in Seq(Topics) /\ ToSet(order) = topics /\ order \in Announcements
      BY <2>2, OrderSet DEF Announcements
    <2>4. /\ events' = events /\ regraft' = regraft /\ mesh' = mesh /\ toVictim' = toVictim
      BY <1>1 DEF VictimSubscribes, attacker
    <2>5. toAttacker' = Append(toAttacker, [subs |-> order, prunes |-> {}])
      BY <2>2 DEF Send
    <2>6. \A t \in subscribed' : t \in ToSet(order) \/ t \in subscribed
      BY <2>1, <2>3
    <2> QED
      BY <1>0, <2>3, <2>4, <2>5, <2>6, KeptWhenSpeaking
  <1>2. CASE VictimHandlesGraft
    <2> DEFINE grafted == (ToSet(Head(toVictim)) \cap subscribed) \ mesh
    <2>1. PICK refused \in SUBSET grafted :
             /\ mesh' = mesh \cup (grafted \ refused)
             /\ IF refused = {} THEN UNCHANGED toAttacker ELSE Send(<<>>, refused)
      BY <1>2 DEF VictimHandlesGraft
    <2>2. /\ events' = events /\ regraft' = regraft /\ subscribed' = subscribed
          /\ toVictim # <<>> /\ toVictim' = Tail(toVictim)
      BY <1>2 DEF VictimHandlesGraft, attacker
    <2>3. Topics_(toVictim) = ToSet(Head(toVictim)) \cup Topics_(toVictim')
      BY <1>0, <2>2, TopicsTail
    <2>4. ASSUME NEW t \in subscribed
          PROVE  \/ t \in refused \/ t \in mesh'
                 \/ t \notin mesh /\ (t \in Topics_(toVictim) => t \in Topics_(toVictim'))
      BY <2>1, <2>3
    <2>5. CASE refused = {}
      <3>1. toAttacker' = toAttacker
        BY <2>1, <2>5
      <3>2. ASSUME NEW t \in subscribed' PROVE Somewhere(t)'
        <4>1. Somewhere(t) /\ t \in subscribed
          BY <2>2 DEF KeptInv
        <4>2. Topics_(events)' = Topics_(events) /\ Topics_(toVictim)' = Topics_(toVictim')
          BY <2>2 DEF Topics_
        <4>3. /\ Announces(toAttacker, t) => Announces(toAttacker', t)
              /\ Pruned(toAttacker, t) => Pruned(toAttacker', t)
          BY <3>1
        <4> QED
          BY <2>2, <2>4, <2>5, <4>1, <4>2, <4>3 DEF Somewhere
      <3> QED
        BY <2>2, <3>1, <3>2 DEF KeptInv
    <2>6. CASE refused # {}
      <3>1. toAttacker' = Append(toAttacker, [subs |-> <<>>, prunes |-> refused])
        BY <2>1, <2>6 DEF Send
      <3>2. refused \in SUBSET Topics
        BY <1>0, <2>1
      <3>3. \A t \in subscribed' :
               \/ t \in ToSet(<<>>) \/ t \in refused \/ t \in mesh'
               \/ t \in subscribed /\ (t \in mesh => t \in mesh')
                  /\ (t \in Topics_(toVictim) => t \in Topics_(toVictim'))
        BY <2>2, <2>4
      <3> QED
        BY <1>0, <2>2, <3>1, <3>2, <3>3, KeptWhenSpeaking
    <2> QED
      BY <2>5, <2>6
  <1>3. CASE VictimPrunes
    <2>1. PICK topics \in SUBSET mesh \ {{}} :
             mesh' = mesh \ topics /\ Send(<<>>, topics)
      BY <1>3 DEF VictimPrunes
    <2>2. /\ events' = events /\ regraft' = regraft /\ subscribed' = subscribed
          /\ toVictim' = toVictim
          /\ toAttacker' = Append(toAttacker, [subs |-> <<>>, prunes |-> topics])
      BY <1>3, <2>1 DEF VictimPrunes, attacker, Send
    <2>3. topics \in SUBSET Topics
      BY <1>0, <2>1
    <2>4. \A t \in subscribed' :
             t \in topics \/ (t \in subscribed /\ (t \in mesh => t \in mesh'))
      BY <2>1, <2>2
    <2> QED
      BY <1>0, <2>2, <2>3, <2>4, KeptWhenSpeaking
  <1>4. CASE VictimGrafts \/ VictimSends
    <2>1. /\ events' = events /\ regraft' = regraft /\ subscribed' = subscribed
          /\ toVictim' = toVictim /\ mesh \subseteq mesh'
          /\ toAttacker' = Append(toAttacker, [subs |-> <<>>, prunes |-> {}])
      BY <1>4 DEF VictimGrafts, VictimSends, attacker, victim, Send
    <2>2. \A t \in subscribed' : t \in subscribed /\ (t \in mesh => t \in mesh')
      BY <2>1
    <2> QED
      BY <1>0, <2>1, <2>2, KeptWhenSpeaking
  <1> QED
    BY <1>1, <1>2, <1>3, <1>4 DEF Victim

LEMMA KeptStep ==
  ASSUME RPCsFit, IInv, QueueInv, KeptInv, [Next]_vars
  PROVE  KeptInv'
  <1>1. CASE Tick \/ Sleep \/ Wake \/ UNCHANGED vars
    <2>1. /\ events' = events /\ DOMAIN regraft' = DOMAIN regraft /\ toVictim' = toVictim
          /\ toAttacker' = toAttacker /\ mesh' = mesh /\ subscribed' = subscribed
      BY <1>1 DEF Tick, Sleep, Wake, vars, attacker, victim
    <2> QED
      BY <2>1 DEF KeptInv, Somewhere, Announces, Pruned, Topics_
  <1> QED
    BY <1>1, KeptByAttacker, KeptByVictim DEF Next, Swarm

\* For any topics, sizes and backoffs with which the fragments of an announcement
\* can be sent: fragmenting, prunes that cross grafts and the delay set take no
\* topic out of the attacker's hands (attacker.rs).
THEOREM TopicsKept == RPCsFit => (Spec => []NoTopicForgotten)
  <1> SUFFICES ASSUME RPCsFit PROVE Spec => []NoTopicForgotten
    OBVIOUS
  <1>1. IInv /\ QueueInv /\ KeptInv /\ [Next]_vars => KeptInv'
    BY KeptStep
  <1> QED
    BY KeptInit, <1>1, SomewhereMeansInvariant, Invariance, QueueInvariance, PTL DEF Spec

----------------------------------------------------------------------------
(* The sizes at which fragments fit                                        *)

\* The limits at which a GRAFT of less than 128 bytes never makes the prefix of
\* the control message longer: 64 KiB and 10 MiB are among them.
LimitClear ==
    \/ 259 <= MaxTransmitSize /\ MaxTransmitSize < 128 * 128
    \/ 128 * 128 + 132 <= MaxTransmitSize /\ MaxTransmitSize < 128 * 128 * 128
    \/ 128 * 128 * 128 + 133 <= MaxTransmitSize /\ MaxTransmitSize < 128 * 128 * 128 * 128

LEMMA VarintFacts ==
  ASSUME NEW n \in Nat
  PROVE  Varint(n) \in 1..5 /\ (n < 128 * 128 * 128 * 128 => Varint(n) <= 4)
  BY DEF Varint

LEMMA FieldType == ASSUME NEW n \in Nat PROVE Field(n) \in Nat
  BY VarintFacts DEF Field

LEMMA ControlLenSum ==
  ASSUME NEW topics \in Seq(Topics)
  PROVE  \E f \in [0..Len(topics) -> Nat] :
            /\ f[0] = 0
            /\ \A k \in 1..Len(topics) : f[k] = f[k - 1] + Field(GraftLen[topics[k]])
            /\ ControlLen(topics) = f[Len(topics)]
  <1> DEFINE n == Len(topics)
             step == [p \in Nat \X (1..n) |-> p[1] + Field(GraftLen[topics[p[2]]])]
             len[k \in 0..n] == IF k = 0 THEN 0 ELSE len[k - 1] + Field(GraftLen[topics[k]])
  <1>1. n \in Nat /\ \A k \in 1..n : Field(GraftLen[topics[k]]) \in Nat
    <2>1. n \in Nat /\ \A k \in 1..n : topics[k] \in Topics
      OBVIOUS
    <2> QED
      BY <2>1, FieldType, SizesAssumption
  <1>2. 0 \in Nat
    OBVIOUS
  <1>3. ControlLen(topics) = len[n]
    BY DEF ControlLen
  <1>4. step \in Steps(Nat, n)
    <2>1. \A p \in Nat \X (1..n) : p[1] + Field(GraftLen[topics[p[2]]]) \in Nat
      BY <1>1
    <2> QED
      BY <2>1 DEF Steps
  <1> HIDE DEF step, len, n
  <1>5. PICK f : Iterates(f, Nat, 0, step, n)
    BY <1>1, <1>2, <1>4, IterationExists
  <1>6. /\ f \in [0..n -> Nat]
        /\ f[0] = 0 /\ \A k \in 1..n : f[k] = step[<<f[k - 1], k>>]
    BY <1>5 DEF Iterates
  <1>7. \A k \in 1..n : f[k] = f[k - 1] + Field(GraftLen[topics[k]])
    <2> SUFFICES ASSUME NEW k \in 1..n PROVE f[k] = f[k - 1] + Field(GraftLen[topics[k]])
      OBVIOUS
    <2>1. f[k - 1] \in Nat
      BY <1>1, <1>6
    <2> QED
      BY <1>6, <2>1 DEF step
  <1>8. f = [k \in 0..n |-> IF k = 0 THEN 0 ELSE f[k - 1] + Field(GraftLen[topics[k]])]
    <2>1. \A k \in 0..n : k = 0 \/ k \in 1..n
      BY <1>1
    <2>2. \A k \in 0..n : f[k] = IF k = 0 THEN 0 ELSE f[k - 1] + Field(GraftLen[topics[k]])
      BY <1>6, <1>7, <2>1, Zenon
    <2> QED
      BY <1>6, <2>2
  <1>9. len = [k \in 0..n |-> IF k = 0 THEN 0 ELSE len[k - 1] + Field(GraftLen[topics[k]])]
    BY <1>8 DEF len
  <1>10. len[0] = 0 /\ \A k \in 1..n : len[k] = len[k - 1] + Field(GraftLen[topics[k]])
    <2>1. \A k \in 0..n : len[k] = IF k = 0 THEN 0 ELSE len[k - 1] + Field(GraftLen[topics[k]])
      BY <1>9
    <2>2. 0 \in 0..n /\ \A k \in 1..n : k \in 0..n /\ k # 0
      BY <1>1
    <2> QED
      BY <2>1, <2>2, Zenon
  <1> DEFINE T == {k \in 0..n : len[k] \in Nat}
  <1>11. 0 \in T
    BY <1>1, <1>10
  <1>12. ASSUME NEW k \in 0..n - 1, k \in T PROVE k + 1 \in T
    <2>1. k + 1 \in 1..n /\ k + 1 \in 0..n /\ (k + 1) - 1 = k /\ len[k] \in Nat
      BY <1>1, <1>12
    <2>2. len[k + 1] = len[k] + Field(GraftLen[topics[k + 1]])
      BY <1>10, <2>1
    <2>3. len[k + 1] \in Nat
      <3>1. Field(GraftLen[topics[k + 1]]) \in Nat
        BY <1>1, <2>1
      <3> QED
        BY <2>1, <2>2, <3>1
    <2> QED
      BY <2>1, <2>3
  <1> HIDE DEF T
  <1>13. \A k \in 0..n : k \in T
    BY <1>1, <1>11, <1>12, BoundedInduction
  <1>14. DOMAIN len = 0..n /\ len = [k \in 0..n |-> len[k]]
    BY <1>9, Zenon
  <1>15. len \in [0..n -> Nat]
    BY <1>13, <1>14 DEF T
  <1> QED
    BY <1>3, <1>10, <1>15 DEF n

LEMMA ControlLenEmpty == ControlLen(<<>>) = 0
  <1>1. <<>> \in Seq(Topics) /\ Len(<<>>) = 0
    OBVIOUS
  <1> QED
    BY <1>1, ControlLenSum

LEMMA ControlLenAppend ==
  ASSUME NEW s \in Seq(Topics), NEW t \in Topics
  PROVE  /\ ControlLen(s) \in Nat
         /\ ControlLen(Append(s, t)) = ControlLen(s) + Field(GraftLen[t])
  <1> DEFINE n == Len(s)  r == Append(s, t)
  <1>1. /\ n \in Nat /\ r \in Seq(Topics) /\ Len(r) = n + 1 /\ r[n + 1] = t
        /\ \A k \in 1..n : r[k] = s[k]
    OBVIOUS
  <1> HIDE DEF n, r
  <1>2. PICK f \in [0..n -> Nat] :
             /\ f[0] = 0
             /\ \A k \in 1..n : f[k] = f[k - 1] + Field(GraftLen[s[k]])
             /\ ControlLen(s) = f[n]
    BY ControlLenSum DEF n
  <1>3. PICK g \in [0..n + 1 -> Nat] :
             /\ g[0] = 0
             /\ \A k \in 1..n + 1 : g[k] = g[k - 1] + Field(GraftLen[r[k]])
             /\ ControlLen(r) = g[n + 1]
    BY <1>1, ControlLenSum
  <1> DEFINE T == {k \in 0..n : f[k] = g[k]}
  <1>4. 0 \in T
    BY <1>1, <1>2, <1>3
  <1>5. ASSUME NEW k \in 0..n - 1, k \in T PROVE k + 1 \in T
    <2>1. /\ k + 1 \in 1..n /\ k + 1 \in 1..n + 1 /\ k + 1 \in 0..n /\ (k + 1) - 1 = k
          /\ f[k] = g[k]
      BY <1>1, <1>5
    <2>2. f[k + 1] = f[k] + Field(GraftLen[s[k + 1]])
      BY <1>2, <2>1
    <2>3. g[k + 1] = g[k] + Field(GraftLen[s[k + 1]])
      BY <1>1, <1>3, <2>1
    <2> QED
      BY <2>1, <2>2, <2>3
  <1> HIDE DEF T
  <1>6. \A k \in 0..n : k \in T
    BY <1>1, <1>4, <1>5, BoundedInduction
  <1>7. n \in 0..n /\ n + 1 \in 1..n + 1 /\ (n + 1) - 1 = n
    BY <1>1
  <1>8. f[n] = g[n] /\ f[n] \in Nat
    BY <1>2, <1>6, <1>7 DEF T
  <1>9. g[n + 1] = g[n] + Field(GraftLen[t])
    BY <1>1, <1>3, <1>7
  <1> QED
    BY <1>2, <1>3, <1>8, <1>9 DEF r

\* 5% of 40 bytes or more is what the prefixes take, or the control message's
\* prefix does not grow.
LEMMA MarginArithmetic ==
  ASSUME NEW len \in Nat, NEW old \in Nat, NEW new \in Nat,
         len >= 40, new = old + Field(len), LimitClear,
         Field(old) + (105 * len) \div 100 <= MaxTransmitSize
  PROVE  Field(new) <= MaxTransmitSize
  <1>1. PICK a \in 1..5 : a = Varint(len)
    BY VarintFacts
  <1>2. PICK b \in 1..5 : b = Varint(old)
    BY VarintFacts
  <1>3. PICK c \in 1..5 : c = Varint(new)
    BY VarintFacts
  <1>4. PICK reserve \in Nat : reserve = (105 * len) \div 100
    OBVIOUS
  <1>5. /\ reserve >= len + 2 /\ (len >= 128 => reserve >= len + 6)
        /\ (len >= 1000 => reserve >= len + 50)
    BY <1>4
  <1>6. new = old + 1 + a + len
    BY <1>1 DEF Field
  <1>7. 1 + b + old + reserve <= MaxTransmitSize /\ MaxTransmitSize \in Nat
    BY <1>2, <1>4, SizesAssumption DEF Field
  <1>8. 1 + c + new <= MaxTransmitSize
    <2>1. CASE len < 128
      <3>1. a = 1
        BY <1>1, <2>1 DEF Varint
      <3>2. CASE c <= b
        BY <1>5, <1>6, <1>7, <3>1, <3>2
      <3>3. CASE c > b
        <4>1. c = b + 1 /\ b \in 1..4
          BY <1>2, <1>3, <1>6, <2>1, <3>1, <3>3 DEF Varint
        <4>2. CASE b = 1
          <5>1. old < 128 /\ MaxTransmitSize >= 259
            BY <1>2, <1>7, <4>2 DEF Varint, LimitClear
          <5> QED
            BY <1>6, <1>7, <2>1, <3>1, <4>1, <4>2, <5>1
        <4>3. CASE b = 2
          <5>1. old < 128 * 128 /\ new >= 128 * 128
            BY <1>2, <1>3, <4>1, <4>3 DEF Varint
          <5>2. MaxTransmitSize >= 128 * 128 + 132
            BY <1>5, <1>6, <1>7, <3>1, <4>3, <5>1 DEF LimitClear
          <5> QED
            BY <1>6, <1>7, <2>1, <3>1, <4>1, <4>3, <5>1, <5>2
        <4>4. CASE b = 3
          <5>1. old < 128 * 128 * 128 /\ new >= 128 * 128 * 128
            BY <1>2, <1>3, <4>1, <4>4 DEF Varint
          <5>2. MaxTransmitSize >= 128 * 128 * 128 + 133
            BY <1>5, <1>6, <1>7, <3>1, <4>4, <5>1 DEF LimitClear
          <5> QED
            BY <1>6, <1>7, <2>1, <3>1, <4>1, <4>4, <5>1, <5>2
        <4>5. CASE b = 4
          <5>1. new >= 128 * 128 * 128 * 128
            BY <1>3, <4>1, <4>5 DEF Varint
          <5>2. MaxTransmitSize < 128 * 128 * 128 * 128
            BY <1>7 DEF LimitClear
          <5> QED
            BY <1>5, <1>6, <1>7, <3>1, <4>5, <5>1, <5>2
        <4> QED
          BY <4>1, <4>2, <4>3, <4>4, <4>5
      <3> QED
        BY <3>2, <3>3
    <2>2. CASE len >= 128 /\ len < 1000
      <3>1. a = 2
        BY <1>1, <2>2 DEF Varint
      <3>2. c <= b + 1
        BY <1>2, <1>3, <1>6, <2>2, <3>1 DEF Varint
      <3> QED
        BY <1>5, <1>6, <1>7, <2>2, <3>1, <3>2
    <2>3. CASE len >= 1000
      BY <1>5, <1>6, <1>7, <2>3
    <2> QED
      BY <2>1, <2>2, <2>3
  <1> QED
    BY <1>3, <1>8 DEF Field

\* The margin of 5% covers the prefixes of a GRAFT of 40 bytes or more.
LEMMA MarginCovers ==
  ASSUME NEW s \in Seq(Topics), NEW t \in Topics, s # <<>>,
         GraftLen[t] >= 40, LimitClear,
         ~(EncodedLen(s) + (105 * GraftLen[t]) \div 100 > MaxTransmitSize)
  PROVE  Append(s, t) \in Fitting
  <1>0. Append(s, t) \in Seq(Topics) /\ Append(s, t) # <<>>
    OBVIOUS
  <1>1. PICK len \in Nat : len = GraftLen[t]
    BY SizesAssumption
  <1>2. PICK old \in Nat : old = ControlLen(s)
    BY ControlLenAppend
  <1>3. Field(len) \in Nat /\ Field(old) \in Nat
    BY FieldType
  <1>4. PICK new \in Nat : new = ControlLen(Append(s, t)) /\ new = old + Field(len)
    BY <1>1, <1>2, <1>3, ControlLenAppend
  <1>5. EncodedLen(s) = Field(old) /\ EncodedLen(Append(s, t)) = Field(new)
    BY <1>0, <1>2, <1>4 DEF EncodedLen
  <1>6. Field(new) \in Nat /\ MaxTransmitSize \in Nat /\ (105 * len) \div 100 \in Nat
    <2>1. (105 * len) \div 100 \in Nat
      OBVIOUS
    <2> QED
      BY <2>1, FieldType, SizesAssumption
  <1>7. Field(old) + (105 * len) \div 100 <= MaxTransmitSize
    BY <1>1, <1>3, <1>5, <1>6
  <1>8. Field(new) <= MaxTransmitSize
    BY <1>1, <1>4, <1>7, MarginArithmetic
  <1> QED
    BY <1>0, <1>5, <1>6, <1>8 DEF Fitting

LEMMA SingleFits ==
  ASSUME NEW t \in Topics, GraftLen[t] + 10 <= MaxTransmitSize, LimitClear
  PROVE  <<t>> \in Fitting
  <1>1. <<t>> = Append(<<>>, t) /\ <<>> \in Seq(Topics) /\ <<t>> # <<>> /\ <<t>> \in Seq(Topics)
    OBVIOUS
  <1>2. ControlLen(<<t>>) = Field(GraftLen[t])
    <2>1. ControlLen(Append(<<>>, t)) = ControlLen(<<>>) + Field(GraftLen[t])
      BY <1>1, ControlLenAppend
    <2>2. Field(GraftLen[t]) \in Nat
      BY SizesAssumption, FieldType
    <2> QED
      BY <1>1, <2>1, <2>2, ControlLenEmpty
  <1>3. GraftLen[t] \in Nat /\ MaxTransmitSize \in Nat
    BY SizesAssumption
  <1>4. EncodedLen(<<t>>) = Field(Field(GraftLen[t]))
    BY <1>1, <1>2 DEF EncodedLen
  <1>5. ~(EncodedLen(<<t>>) > MaxTransmitSize)
    <2>1. PICK len \in Nat : len = GraftLen[t]
      BY <1>3
    <2>2. MaxTransmitSize < 128 * 128 * 128 * 128 /\ len + 10 <= MaxTransmitSize
      BY <1>3, <2>1 DEF LimitClear
    <2>3. PICK a \in 1..5 : a = Varint(len) /\ a <= 4
      <3>1. len < 128 * 128 * 128 * 128
        BY <1>3, <2>2
      <3> QED
        BY <3>1, VarintFacts
    <2>4. PICK inner \in Nat : inner = Field(len) /\ inner = 1 + a + len
      BY <2>3 DEF Field
    <2>5. PICK b \in 1..5 : b = Varint(inner) /\ b <= 4
      <3>1. inner < 128 * 128 * 128 * 128
        BY <1>3, <2>2, <2>3, <2>4
      <3> QED
        BY <3>1, VarintFacts
    <2>6. EncodedLen(<<t>>) = 1 + b + inner
      BY <1>4, <2>1, <2>4, <2>5 DEF Field
    <2> QED
      BY <1>3, <2>2, <2>3, <2>4, <2>5, <2>6
  <1> QED
    BY <1>1, <1>5 DEF Fitting

\* For GRAFTs of 40 bytes or more: every RPC that fragment_message makes of a
\* list it fragments can be encoded. A list it leaves whole can, except for one
\* whose control message with 2 bytes for its prefix is at most 2 bytes below the
\* limit: the prefix of a control message of that length may take up to 5.
THEOREM FragmentsFit ==
  ASSUME \A t \in Topics : GraftLen[t] >= 40 /\ GraftLen[t] + 10 <= MaxTransmitSize,
         LimitClear,
         NEW topics \in Seq(Topics),
         ControlLen(topics) + 2 \notin MaxTransmitSize - 2 .. MaxTransmitSize
  PROVE  FragmentMessage(topics) \in Seq(Fitting)
  <1> DEFINE n == Len(topics)
  <1>1. n \in Nat /\ \A k \in 1..n : topics[k] \in Topics
    OBVIOUS
  <1>2. MaxTransmitSize \in Nat /\ ControlLen(topics) \in Nat
    <2>1. PICK f \in [0..n -> Nat] : ControlLen(topics) = f[n]
      BY ControlLenSum
    <2> HIDE DEF n
    <2>2. n \in 0..n
      BY <1>1
    <2>3. ControlLen(topics) \in Nat
      BY <2>1, <2>2
    <2> QED
      BY <2>3, SizesAssumption
  <1> HIDE DEF n
  <1>3. PICK f \in [0..n -> RPCs] :
             /\ f[0] = << <<>> >>
             /\ \A k \in 1..n : f[k] = AddGraft(f[k - 1], topics[k])
             /\ FragmentMessage(topics) =
                  IF EncodedLen(topics) >= MaxTransmitSize
                     /\ ControlLen(topics) + 2 > MaxTransmitSize
                  THEN f[n] ELSE <<topics>>
    BY FragmentList DEF n
  <1>4. CASE ~ /\ EncodedLen(topics) >= MaxTransmitSize
               /\ ControlLen(topics) + 2 > MaxTransmitSize
    <2>1. EncodedLen(topics) \in Nat /\ ~(EncodedLen(topics) > MaxTransmitSize)
      <3>1. CASE topics = <<>>
        BY <1>2, <3>1 DEF EncodedLen
      <3>2. CASE topics # <<>>
        <4>1. EncodedLen(topics) = 1 + Varint(ControlLen(topics)) + ControlLen(topics)
          BY <3>2 DEF EncodedLen, Field
        <4>2. PICK len \in Nat : len = ControlLen(topics)
          BY <1>2
        <4>3. PICK a \in 1..5 : a = Varint(len) /\ (len < 128 * 128 * 128 * 128 => a <= 4)
          BY VarintFacts
        <4>4. MaxTransmitSize < 128 * 128 * 128 * 128
          BY <1>2 DEF LimitClear
        <4>5. /\ len + 2 \notin MaxTransmitSize - 2 .. MaxTransmitSize
              /\ 1 + a + len < MaxTransmitSize \/ len + 2 <= MaxTransmitSize
          BY <1>2, <1>4, <4>1, <4>2, <4>3
        <4>6. 1 + a + len <= MaxTransmitSize
          BY <1>2, <4>3, <4>4, <4>5
        <4> QED
          BY <1>2, <4>1, <4>2, <4>3, <4>6
      <3> QED
        BY <3>1, <3>2
    <2>2. topics \in Fitting
      BY <2>1 DEF Fitting
    <2>3. <<topics>> \in Seq(Fitting)
      BY <2>2
    <2> QED
      BY <1>3, <1>4, <2>3
  <1>5. CASE /\ EncodedLen(topics) >= MaxTransmitSize
             /\ ControlLen(topics) + 2 > MaxTransmitSize
    <2> DEFINE T == {k \in 0..n : f[k] \in Seq(Fitting)}
    <2>1. 0 \in T
      <3>1. <<>> \in Seq(Topics) /\ EncodedLen(<<>>) = 0
        BY DEF EncodedLen
      <3>2. <<>> \in Fitting
        BY <1>2, <3>1 DEF Fitting
      <3>3. << <<>> >> \in Seq(Fitting)
        BY <3>2
      <3>4. f[0] \in Seq(Fitting)
        BY <1>3, <3>3, Zenon
      <3>5. 0 \in 0..n
        BY <1>1
      <3> QED
        BY <3>4, <3>5
    <2>2. ASSUME NEW k \in 0..n - 1, k \in T PROVE k + 1 \in T
      <3> DEFINE rpcs == f[k]  t == topics[k + 1]
      <3>1. /\ k + 1 \in 1..n /\ k + 1 \in 0..n /\ k \in 0..n /\ (k + 1) - 1 = k
            /\ rpcs \in RPCs /\ rpcs \in Seq(Fitting) /\ t \in Topics
        BY <1>1, <1>3, <2>2
      <3>2. f[k + 1] = AddGraft(rpcs, t)
        BY <1>3, <3>1
      <3> HIDE DEF rpcs, t
      <3>3. <<t>> \in Fitting
        BY <3>1, SingleFits
      <3>4. CASE AddGraft(rpcs, t) = Append(rpcs, <<t>>)
        <4> DEFINE single == <<t>>
        <4>1. single \in Fitting
          BY <3>3
        <4> HIDE DEF single
        <4>2. Append(rpcs, single) \in Seq(Fitting)
          BY <3>1, <4>1
        <4>3. f[k + 1] \in Seq(Fitting)
          BY <3>2, <3>4, <4>2 DEF single
        <4> QED
          BY <3>1, <4>3
      <3>5. CASE /\ AddGraft(rpcs, t) = Append(Front(rpcs), Append(Last(rpcs), t))
                 /\ ~ /\ EncodedLen(Last(rpcs)) + (105 * GraftLen[t]) \div 100 > MaxTransmitSize
                      /\ Last(rpcs) # <<>>
        <4>1. rpcs # <<>> /\ Len(rpcs) \in Nat \ {0}
          BY <3>1 DEF RPCs
        <4>2. Front(rpcs) \in Seq(Fitting) /\ Last(rpcs) \in Fitting
          BY <3>1, <4>1 DEF Front, Last
        <4>3. Last(rpcs) \in Seq(Topics)
          BY <4>2 DEF Fitting
        <4>4. Append(Last(rpcs), t) \in Fitting
          <5>1. CASE Last(rpcs) = <<>>
            <6>1. Append(Last(rpcs), t) = <<t>>
              BY <5>1
            <6> QED
              BY <3>3, <6>1
          <5>2. CASE Last(rpcs) # <<>>
            BY <3>1, <3>5, <4>3, <5>2, MarginCovers
          <5> QED
            BY <5>1, <5>2
        <4> DEFINE front == Front(rpcs)  last == Append(Last(rpcs), t)
        <4>5. front \in Seq(Fitting) /\ last \in Fitting
          BY <4>2, <4>4
        <4> HIDE DEF front, last
        <4>6. Append(front, last) \in Seq(Fitting)
          BY <4>5
        <4> QED
          BY <3>1, <3>2, <3>5, <4>6 DEF front, last
      <3> QED
        BY <3>1, <3>4, <3>5, AddGraftFacts
    <2> HIDE DEF T
    <2>3. \A k \in 0..n : k \in T
      BY <1>1, <2>1, <2>2, BoundedInduction
    <2>4. f[n] \in Seq(Fitting)
      BY <1>1, <2>3 DEF T
    <2> QED
      BY <1>3, <1>5, <2>4
  <1> QED
    BY <1>4, <1>5

\* Under these sizes, then, no topic is forgotten.
THEOREM SizesSuffice ==
  ASSUME \A t \in Topics : GraftLen[t] >= 40 /\ GraftLen[t] + 10 <= MaxTransmitSize,
         LimitClear,
         \A topics \in Announcements :
            ControlLen(topics) + 2 \notin MaxTransmitSize - 2 .. MaxTransmitSize
  PROVE  RPCsFit
  <1> SUFFICES ASSUME NEW announced \in SUBSET Topics, NEW topics \in SetToSeqs(announced)
               PROVE  FragmentMessage(topics) \in Seq(Fitting)
    BY DEF RPCsFit, Announcements
  <1>1. topics \in Seq(Topics) /\ topics \in Announcements
    BY OrderIsSeq DEF Announcements
  <1> QED
    BY <1>1, FragmentsFit

=============================================================================
