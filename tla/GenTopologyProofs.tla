------------------------- MODULE GenTopologyProofs -------------------------
(***************************************************************************)
(* What is proved of GenTopology for every network size, connection range  *)
(* and number of validators.  Each pair is considered once (Fresh), so     *)
(* that adding it adds one connection at each end and one dial; the        *)
(* windows between the cuts cover all the validators (CheckInv).           *)
(***************************************************************************)
EXTENDS GenTopology, NaturalLemmas, FiniteSetTheorems, TLAPS

\* How often a dials b.
Dials(a, b) == Cardinality({i \in DOMAIN outbound[a] : outbound[a][i] = b})

Types ==
    /\ stage \in {"assign", "expect", "connect", "check", "ok", "error"}
    /\ expected \in [Nodes -> 0..MaxPeers]
    /\ connections \in [Nodes -> SUBSET Nodes]
    /\ candidates \subseteq Pairs
    /\ outbound \in [Nodes -> Seq(Nodes)]

Symmetric == \A a, b \in Nodes : b \in connections[a] <=> a \in connections[b]

Irreflexive == \A a \in Nodes : a \notin connections[a]

\* A pair still to be popped is not connected yet.
Fresh == \A p \in candidates : p[2] \notin connections[p[1]]

\* Before the loop there is nothing; in it, degrees are bounded.
Degrees == \A n \in Nodes : Cardinality(connections[n]) <= expected[n]

AllCandidates == stage \in {"assign", "expect"} => candidates = Pairs

NoneBefore == stage \in {"assign", "expect"} => \A n \in Nodes : connections[n] = {}

\* A pair popped and not connected had a saturated end.
SkippedSaturated ==
    stage \notin {"assign", "expect"} =>
        \A p \in Pairs : p \notin candidates /\ p[2] \notin connections[p[1]]
                         => Saturated(p[1]) \/ Saturated(p[2])

Exhausted == stage \in {"check", "ok", "error"} => candidates = {}

IInv ==
    /\ Types
    /\ Symmetric
    /\ Irreflexive
    /\ Fresh
    /\ Degrees
    /\ NoneBefore
    /\ AllCandidates
    /\ SkippedSaturated
    /\ Exhausted
    /\ OneDialPerConnection

----------------------------------------------------------------------------

LEMMA PairEnds ==
  ASSUME NEW p \in Pairs
  PROVE  p[1] \in Nodes /\ p[2] \in Nodes /\ p[1] # p[2] /\ p[1] < p[2]
  BY DEF Pairs, Nodes

LEMMA NodesFinite == IsFiniteSet(Nodes)
  BY ParamsAssumption, FS_Interval DEF Nodes

LEMMA Degree ==
  ASSUME Types, NEW n \in Nodes
  PROVE  IsFiniteSet(connections[n]) /\ Cardinality(connections[n]) \in Nat
  <1>1. connections[n] \subseteq Nodes
    BY DEF Types
  <1> QED
    BY <1>1, NodesFinite, FS_Subset, FS_CardinalityType

LEMMA AppendCount ==
  ASSUME NEW q \in Seq(Nodes), NEW x \in Nodes, NEW y \in Nodes
  PROVE  /\ Cardinality({i \in DOMAIN q : q[i] = y}) \in Nat
         /\ Cardinality({i \in DOMAIN Append(q, x) : Append(q, x)[i] = y})
              = Cardinality({i \in DOMAIN q : q[i] = y}) + (IF x = y THEN 1 ELSE 0)
  <1> DEFINE I == {i \in DOMAIN q : q[i] = y}
             J == {i \in DOMAIN Append(q, x) : Append(q, x)[i] = y}
             k == Len(q) + 1
  <1>1. k \in Nat /\ Len(q) \in Nat /\ DOMAIN q = 1..Len(q)
    OBVIOUS
  <1>2. /\ DOMAIN Append(q, x) = (1..Len(q)) \cup {k}
        /\ Append(q, x)[k] = x
        /\ \A i \in 1..Len(q) : Append(q, x)[i] = q[i]
    OBVIOUS
  <1>3. k \notin I
    BY <1>1
  <1>4. J = IF x = y THEN I \cup {k} ELSE I
    BY <1>1, <1>2
  <1>5. IsFiniteSet(I)
    <2>1. I \subseteq 1..Len(q) /\ IsFiniteSet(1..Len(q))
      BY <1>1, FS_Interval
    <2> QED
      BY <2>1, FS_Subset
  <1> HIDE DEF I, J, k
  <1>6. Cardinality(I) \in Nat /\ Cardinality(I \cup {k}) = Cardinality(I) + 1
    BY <1>3, <1>5, FS_AddElement, FS_CardinalityType
  <1>7. Cardinality(J) = Cardinality(I) + (IF x = y THEN 1 ELSE 0)
    BY <1>4, <1>6
  <1> QED
    BY <1>6, <1>7 DEF I, J

LEMMA DialsType == ASSUME Types, NEW a \in Nodes, NEW b \in Nodes PROVE Dials(a, b) \in Nat
  <1>1. outbound[a] \in Seq(Nodes)
    BY DEF Types
  <1> QED
    BY <1>1, AppendCount DEF Dials

LEMMA AppendDials ==
  ASSUME Types, NEW a \in Nodes, NEW b \in Nodes,
         outbound' = [outbound EXCEPT ![a] = Append(@, b)]
  PROVE  \A c, d \in Nodes :
           Dials(c, d)' = Dials(c, d) + (IF c = a /\ d = b THEN 1 ELSE 0)
  <1> SUFFICES ASSUME NEW c \in Nodes, NEW d \in Nodes
               PROVE  Dials(c, d)' = Dials(c, d) + (IF c = a /\ d = b THEN 1 ELSE 0)
    OBVIOUS
  <1>1. outbound[c] \in Seq(Nodes) /\ outbound[a] \in Seq(Nodes)
    BY DEF Types
  <1>2. CASE c = a
    <2>1. outbound'[c] = Append(outbound[c], b)
      BY <1>2 DEF Types
    <2>2. Cardinality({i \in DOMAIN Append(outbound[c], b) : Append(outbound[c], b)[i] = d})
            = Cardinality({i \in DOMAIN outbound[c] : outbound[c][i] = d})
              + (IF b = d THEN 1 ELSE 0)
      BY <1>1, AppendCount
    <2> QED
      BY <1>2, <2>1, <2>2 DEF Dials
  <1>3. CASE c # a
    <2>1. outbound'[c] = outbound[c]
      BY <1>3 DEF Types
    <2>2. Dials(c, d)' = Dials(c, d)
      BY <2>1 DEF Dials
    <2> QED
      BY <1>3, <2>2, DialsType
  <1> QED
    BY <1>2, <1>3

----------------------------------------------------------------------------

LEMMA InitIInv == Init => IInv
  <1> SUFFICES ASSUME Init PROVE IInv
    OBVIOUS
  <1>1. Types
    BY ParamsAssumption DEF Init, Types
  <1>2. \A a \in Nodes : connections[a] = {} /\ outbound[a] = <<>> /\ expected[a] = 0
    BY DEF Init
  <1>3. Degrees
    <2>1. Cardinality({}) = 0
      BY FS_EmptySet
    <2>2. \A n \in Nodes : Cardinality(connections[n]) = 0
      BY <1>2, <2>1, Zenon
    <2> QED
      BY <1>2, <2>2 DEF Degrees
  <1>4. OneDialPerConnection
    <2>1. \A a, b \in Nodes : {i \in DOMAIN outbound[a] : outbound[a][i] = b} = {}
      BY <1>2
    <2>2. Cardinality({}) = 0
      BY FS_EmptySet
    <2>3. \A a, b \in Nodes : Cardinality({i \in DOMAIN outbound[a] : outbound[a][i] = b}) = 0
      BY <2>1, <2>2, Zenon
    <2> QED
      BY <1>2, <2>3 DEF OneDialPerConnection
  <1>5. Fresh
    BY <1>1, <1>2, PairEnds DEF Fresh, Types
  <1> QED
    BY <1>1, <1>2, <1>3, <1>4, <1>5
       DEF Init, IInv, Symmetric, Irreflexive, NoneBefore, AllCandidates, SkippedSaturated, Exhausted

\* The one step that adds a connection.
LEMMA AddStep ==
  ASSUME IInv, NEW p \in Pairs, AddConnection(p)
  PROVE  IInv'
  <1> DEFINE a == p[1]
             b == p[2]
  <1>1. a \in Nodes /\ b \in Nodes /\ a # b /\ a < b /\ p = <<a, b>>
    BY PairEnds DEF Pairs
  <1>2. /\ stage = "connect" /\ stage' = stage /\ p \in candidates
        /\ candidates' = candidates \ {p} /\ expected' = expected
        /\ connections' = [connections EXCEPT ![a] = @ \cup {b}, ![b] = @ \cup {a}]
        /\ \/ outbound' = [outbound EXCEPT ![a] = Append(@, b)]
           \/ outbound' = [outbound EXCEPT ![b] = Append(@, a)]
        /\ ~Saturated(a) /\ ~Saturated(b)
    BY DEF AddConnection, Useful
  <1>3. Types /\ expected \in [Nodes -> 0..MaxPeers] /\ MaxPeers \in Nat
    BY ParamsAssumption DEF IInv, Types
  <1>4. b \notin connections[a] /\ a \notin connections[b]
    BY <1>1, <1>2 DEF IInv, Fresh, Symmetric
  <1> HIDE DEF a, b
  <1>5. \A n \in Nodes :
          connections'[n] = IF n = a THEN connections[a] \cup {b}
                            ELSE IF n = b THEN connections[b] \cup {a}
                            ELSE connections[n]
    BY <1>1, <1>2, <1>3 DEF Types
  <1>6. Types'
    <2>1. connections' \in [Nodes -> SUBSET Nodes]
      BY <1>1, <1>2, <1>3 DEF Types
    <2>2. outbound' \in [Nodes -> Seq(Nodes)]
      <3>1. Append(outbound[a], b) \in Seq(Nodes) /\ Append(outbound[b], a) \in Seq(Nodes)
        BY <1>1, <1>3 DEF Types
      <3> QED
        BY <1>2, <1>3, <3>1 DEF Types
    <2> QED
      BY <1>2, <1>3, <2>1, <2>2 DEF Types
  <1>7. Symmetric'
    BY <1>1, <1>5 DEF IInv, Symmetric
  <1>8. Irreflexive'
    BY <1>1, <1>5 DEF IInv, Irreflexive
  <1>9. Fresh'
    <2> SUFFICES ASSUME NEW q \in candidates, q # p PROVE q[2] \notin connections'[q[1]]
      BY <1>2 DEF Fresh
    <2>1. q \in Pairs /\ q[2] \notin connections[q[1]]
      BY <1>3 DEF IInv, Fresh, Types
    <2>2. q[1] \in Nodes /\ q[2] \in Nodes /\ q[1] < q[2] /\ q = <<q[1], q[2]>>
      BY <2>1, PairEnds DEF Pairs
    <2>3. ~(q[1] = a /\ q[2] = b)
      BY <1>1, <2>2
    <2>4. ~(q[1] = b /\ q[2] = a)
      BY <1>1, <2>2 DEF Nodes
    <2> QED
      BY <1>5, <2>1, <2>2, <2>3, <2>4
  <1>10. Degrees'
    <2> SUFFICES ASSUME NEW n \in Nodes PROVE Cardinality(connections'[n]) <= expected[n]
      BY <1>2 DEF Degrees
    <2>1. /\ Cardinality(connections[n]) \in Nat /\ IsFiniteSet(connections[n])
          /\ expected[n] \in Nat /\ Cardinality(connections[n]) <= expected[n]
      BY <1>3, Degree DEF IInv, Degrees
    <2>2. n \in {a, b} => Cardinality(connections[n]) < expected[n]
      BY <1>2, <2>1 DEF Saturated
    <2>3. ASSUME NEW x PROVE Cardinality(connections[n] \cup {x}) <= Cardinality(connections[n]) + 1
      <3>1. Cardinality(connections[n] \cup {x})
              = IF x \in connections[n] THEN Cardinality(connections[n])
                ELSE Cardinality(connections[n]) + 1
        BY <2>1, FS_AddElement, Zenon
      <3> QED
        BY <2>1, <3>1
    <2>4. n \notin {a, b} => connections'[n] = connections[n]
      BY <1>5
    <2>5. CASE n \in {a, b}
      <3>1. PICK x : connections'[n] = connections[n] \cup {x}
        BY <1>5, <2>5
      <3>2. Cardinality(connections'[n]) <= Cardinality(connections[n]) + 1
        BY <2>3, <3>1
      <3>3. Cardinality(connections'[n]) \in Nat
        BY <1>6, NodesFinite, FS_Subset, FS_CardinalityType DEF Types
      <3> QED
        BY <2>1, <2>2, <2>5, <3>2, <3>3
    <2> QED
      BY <2>1, <2>4, <2>5
  <1>11. SkippedSaturated'
    <2> SUFFICES ASSUME NEW q \in Pairs, q \notin candidates', q[2] \notin connections'[q[1]]
                 PROVE  Saturated(q[1])' \/ Saturated(q[2])'
      BY DEF SkippedSaturated
    <2>1. q[1] \in Nodes /\ q[2] \in Nodes /\ q = <<q[1], q[2]>>
      BY PairEnds DEF Pairs
    <2>2. q # p
      BY <1>1, <1>5, <2>1
    <2>3. q \notin candidates /\ q[2] \notin connections[q[1]]
      <3>1. connections[q[1]] \subseteq connections'[q[1]]
        BY <1>5, <2>1
      <3> QED
        BY <1>2, <2>2, <3>1
    <2>4. Saturated(q[1]) \/ Saturated(q[2])
      BY <1>2, <2>3 DEF IInv, SkippedSaturated
    <2>5. ASSUME NEW n \in Nodes, Saturated(n) PROVE Saturated(n)'
      <3>1. n # a /\ n # b
        BY <1>2, <2>5
      <3> QED
        BY <1>2, <1>5, <2>5, <3>1 DEF Saturated
    <2> QED
      BY <2>1, <2>4, <2>5
  <1>12. OneDialPerConnection'
    <2> SUFFICES ASSUME NEW c \in Nodes, NEW d \in Nodes
                 PROVE  Dials(c, d)' + Dials(d, c)' = IF d \in connections'[c] THEN 1 ELSE 0
      BY DEF OneDialPerConnection, Dials
    <2>1. Dials(c, d) + Dials(d, c) = IF d \in connections[c] THEN 1 ELSE 0
      BY DEF IInv, OneDialPerConnection, Dials
    <2>2. Dials(c, d) \in Nat /\ Dials(d, c) \in Nat
      BY <1>3, DialsType
    <2>3. d \in connections'[c] <=> \/ d \in connections[c]
                                    \/ c = a /\ d = b
                                    \/ c = b /\ d = a
      BY <1>1, <1>5
    <2>4. CASE outbound' = [outbound EXCEPT ![a] = Append(@, b)]
      <3>1. /\ Dials(c, d)' = Dials(c, d) + (IF c = a /\ d = b THEN 1 ELSE 0)
            /\ Dials(d, c)' = Dials(d, c) + (IF d = a /\ c = b THEN 1 ELSE 0)
        <4>1. \A e, f \in Nodes : Dials(e, f)' = Dials(e, f) + (IF e = a /\ f = b THEN 1 ELSE 0)
          <5>1. a \in Nodes /\ b \in Nodes
            BY <1>1
          <5>2. Types
            BY <1>3
          <5> HIDE DEF a, b
          <5> QED
            BY <2>4, <5>1, <5>2, AppendDials, ZenonT(60)
        <4> QED
          BY <4>1
      <3> QED
        BY <1>1, <1>4, <2>1, <2>2, <2>3, <3>1
    <2>5. CASE outbound' = [outbound EXCEPT ![b] = Append(@, a)]
      <3>1. /\ Dials(c, d)' = Dials(c, d) + (IF c = b /\ d = a THEN 1 ELSE 0)
            /\ Dials(d, c)' = Dials(d, c) + (IF d = b /\ c = a THEN 1 ELSE 0)
        <4>1. \A e, f \in Nodes : Dials(e, f)' = Dials(e, f) + (IF e = b /\ f = a THEN 1 ELSE 0)
          <5>1. a \in Nodes /\ b \in Nodes
            BY <1>1
          <5>2. Types
            BY <1>3
          <5> HIDE DEF a, b
          <5> QED
            BY <2>5, <5>1, <5>2, AppendDials, ZenonT(60)
        <4> QED
          BY <4>1
      <3> QED
        BY <1>1, <1>4, <2>1, <2>2, <2>3, <3>1
    <2> QED
      BY <1>2, <2>4, <2>5
  <1>13. NoneBefore' /\ AllCandidates' /\ Exhausted'
    BY <1>2 DEF NoneBefore, AllCandidates, Exhausted
  <1> QED
    BY <1>6, <1>7, <1>8, <1>9, <1>10, <1>11, <1>12, <1>13 DEF IInv

\* Steps that touch neither the network nor the candidates.
LEMMA FrameStep ==
  ASSUME IInv, UNCHANGED <<expected, connections, candidates, outbound>>
  PROVE  Symmetric' /\ Irreflexive' /\ Fresh' /\ Degrees' /\ OneDialPerConnection'
  <1>1. Symmetric' /\ Irreflexive'
    BY DEF IInv, Symmetric, Irreflexive
  <1>2. Fresh'
    BY DEF IInv, Fresh
  <1>3. Degrees'
    BY DEF IInv, Degrees
  <1>4. OneDialPerConnection'
    BY DEF IInv, OneDialPerConnection
  <1> QED
    BY <1>1, <1>2, <1>3, <1>4

LEMMA StepIInv == IInv /\ [Next]_vars => IInv'
  <1> SUFFICES ASSUME IInv, [Next]_vars PROVE IInv'
    OBVIOUS
  <1>0. IInv
    OBVIOUS
  <1>1. CASE UNCHANGED vars
    <2>1. Types' /\ NoneBefore' /\ AllCandidates' /\ Exhausted'
      BY <1>0, <1>1 DEF vars, IInv, Types, NoneBefore, AllCandidates, Exhausted
    <2>2. SkippedSaturated'
      BY <1>0, <1>1 DEF vars, IInv, SkippedSaturated, Saturated
    <2> QED
      BY <1>0, <1>1, <2>1, <2>2, FrameStep DEF vars, IInv
  <1>2. CASE AssignValidators
    <2>1. /\ UNCHANGED <<expected, connections, candidates, outbound>>
          /\ stage = "assign" /\ stage' = "expect"
      BY <1>2 DEF AssignValidators
    <2>2. Types' /\ NoneBefore' /\ AllCandidates' /\ Exhausted' /\ SkippedSaturated'
      BY <1>0, <2>1
         DEF IInv, Types, NoneBefore, AllCandidates, Exhausted, SkippedSaturated
    <2> QED
      BY <1>0, <2>1, <2>2, FrameStep DEF IInv
  <1>3. CASE ExpectConnections
    <2>1. /\ stage = "expect" /\ stage' = "connect" /\ connections' = connections
          /\ candidates' = candidates /\ outbound' = outbound
          /\ expected' \in [Nodes -> MinPeers..MaxPeers]
      BY <1>3 DEF ExpectConnections
    <2>2. Types'
      BY <1>0, <2>1, ParamsAssumption DEF IInv, Types
    <2>3. \A n \in Nodes : connections[n] = {}
      BY <1>0, <2>1 DEF IInv, NoneBefore
    <2>4. Degrees'
      <3>1. \A n \in Nodes : Cardinality(connections'[n]) = 0 /\ expected'[n] >= 0
        BY <2>1, <2>3, FS_EmptySet, ParamsAssumption
      <3> QED
        BY <2>2, <3>1 DEF Degrees, Types
    <2>5. candidates = Pairs
      BY <1>0, <2>1 DEF IInv, AllCandidates
    <2> QED
      BY <1>0, <2>1, <2>2, <2>3, <2>4, <2>5
         DEF IInv, Symmetric, Irreflexive, Fresh, NoneBefore, AllCandidates,
             SkippedSaturated, Exhausted, OneDialPerConnection
  <1>4. ASSUME NEW p \in Pairs, SkipConnection(p) PROVE IInv'
    <2>1. /\ stage = "connect" /\ stage' = stage /\ connections' = connections
          /\ candidates' = candidates \ {p} /\ outbound' = outbound /\ expected' = expected
          /\ Saturated(p[1]) \/ Saturated(p[2])
      BY <1>4 DEF SkipConnection, Useful
    <2>2. SkippedSaturated'
      BY <1>0, <2>1 DEF IInv, SkippedSaturated, Saturated
    <2>3. Types'
      BY <1>0, <2>1 DEF IInv, Types
    <2>4. Fresh'
      BY <1>0, <2>1 DEF IInv, Fresh
    <2>5. Symmetric' /\ Irreflexive' /\ Degrees' /\ OneDialPerConnection'
      BY <1>0, <2>1 DEF IInv, Symmetric, Irreflexive, Degrees, OneDialPerConnection
    <2>6. NoneBefore' /\ AllCandidates' /\ Exhausted'
      BY <1>0, <2>1 DEF IInv, NoneBefore, AllCandidates, Exhausted
    <2> QED
      BY <2>2, <2>3, <2>4, <2>5, <2>6 DEF IInv
  <1>5. ASSUME NEW p \in Pairs, AddConnection(p) PROVE IInv'
    BY <1>0, <1>5, AddStep
  <1>6. CASE StopConnecting \/ Check
    <2>1. /\ UNCHANGED <<expected, connections, candidates, outbound>>
          /\ \/ stage = "connect" /\ candidates = {} /\ stage' = "check"
             \/ stage = "check" /\ stage' \in {"ok", "error"}
      BY <1>6 DEF StopConnecting, Check
    <2>2. Types' /\ NoneBefore' /\ AllCandidates' /\ Exhausted'
      BY <1>0, <2>1 DEF IInv, Types, NoneBefore, AllCandidates, Exhausted
    <2>3. SkippedSaturated'
      BY <1>0, <2>1 DEF IInv, SkippedSaturated, Saturated
    <2> QED
      BY <1>0, <2>1, <2>2, <2>3, FrameStep DEF IInv
  <1> QED
    BY <1>1, <1>2, <1>3, <1>4, <1>5, <1>6 DEF Next

THEOREM Invariance == Spec => []IInv
  BY InitIInv, StepIInv, PTL DEF Spec

\* For every network size and connection range, no node ends with more
\* connections than were drawn for it, nor than the configured maximum.
THEOREM DegreesBounded == Spec => []DegreeBound
  <1>1. IInv => DegreeBound
    BY ParamsAssumption DEF IInv, Degrees, Types, DegreeBound
  <1> QED
    BY <1>1, Invariance, PTL

\* For every network size and connection range, exactly one end of a connection
\* dials the other, once, and nobody dials a node it is not connected to.
THEOREM OneDial == Spec => []OneDialPerConnection
  <1>1. IInv => OneDialPerConnection
    BY DEF IInv
  <1> QED
    BY <1>1, Invariance, PTL

\* For every network size and connection range, the loop ends only when no two
\* unconnected nodes could both still take a connection.
THEOREM LoopComplete == Spec => []NothingLeftToConnect
  <1>1. IInv => NothingLeftToConnect
    <2> SUFFICES ASSUME IInv, stage \in {"check", "ok", "error"},
                        NEW a \in Nodes, NEW b \in Nodes, a # b,
                        Cardinality(connections[a]) < expected[a],
                        Cardinality(connections[b]) < expected[b]
                 PROVE  b \in connections[a]
      BY DEF NothingLeftToConnect
    <2>1. Types /\ expected[a] \in Nat /\ expected[b] \in Nat
      BY ParamsAssumption DEF IInv, Types
    <2>2. ~Saturated(a) /\ ~Saturated(b)
      BY <2>1, Degree DEF Saturated
    <2>3. candidates = {} /\ stage \notin {"assign", "expect"}
      BY DEF IInv, Exhausted
    <2>4. \A p \in Pairs : p[2] \in connections[p[1]] \/ Saturated(p[1]) \/ Saturated(p[2])
      BY <2>3 DEF IInv, SkippedSaturated
    <2>5. CASE a < b
      <3>1. <<a, b>> \in Pairs
        BY <2>5 DEF Pairs
      <3> QED
        BY <2>2, <2>4, <3>1
    <2>6. CASE b < a
      <3>1. <<b, a>> \in Pairs
        BY <2>6 DEF Pairs
      <3>2. a \in connections[b]
        BY <2>2, <2>4, <3>1
      <3> QED
        BY <3>2 DEF IInv, Symmetric
    <2> QED
      BY <2>5, <2>6 DEF Nodes
  <1> QED
    BY <1>1, Invariance, PTL

----------------------------------------------------------------------------
(* The cuts of the validators                                              *)

LEMMA ValidatorsFinite == IsFiniteSet(Validators) /\ Validators \subseteq 0..TotalValidators
  <1>1. TotalValidators \in Int /\ 0 \in Int /\ TotalValidators - 1 \in Int
    BY ParamsAssumption
  <1> QED
    BY <1>1, FS_Interval DEF Validators

LEMMA CutFacts ==
  ASSUME NEW D \in SUBSET Validators, NEW k \in 0..Cardinality(D) + 1
  PROVE  /\ IsFiniteSet(D) /\ Cardinality(D) \in Nat /\ D \subseteq Int
         /\ Cut(D, k) \in 0..TotalValidators
         /\ k = 0 => Cut(D, k) = 0
         /\ k = Cardinality(D) + 1 => Cut(D, k) = TotalValidators
         /\ k \in 1..Cardinality(D) => Cut(D, k) \in D /\ Cardinality(Below(D, Cut(D, k))) = k - 1
  <1>1. TotalValidators \in Nat \ {0} /\ D \subseteq Int
    BY ParamsAssumption DEF Validators
  <1>2. IsFiniteSet(D)
    BY ValidatorsFinite, FS_Subset
  <1>3. Cardinality(D) \in Nat
    BY <1>2, FS_CardinalityType
  <1>4. CASE k = 0
    BY <1>1, <1>2, <1>3, <1>4 DEF Cut
  <1>5. CASE k = Cardinality(D) + 1
    <2>1. k # 0 /\ k > Cardinality(D)
      BY <1>3, <1>5
    <2>2. Cut(D, k) = TotalValidators
      BY <2>1 DEF Cut
    <2> QED
      BY <1>1, <1>2, <1>3, <1>5, <2>2
  <1>6. CASE k \in 1..Cardinality(D)
    <2>1. k - 1 \in 0..Cardinality(D) - 1 /\ k # 0 /\ ~(k > Cardinality(D))
          /\ k # Cardinality(D) + 1
      BY <1>3, <1>6
    <2>2. \E c \in D : Cardinality(Below(D, c)) = k - 1
      BY <1>1, <1>2, <2>1, EveryRank
    <2>3. Cut(D, k) = CHOOSE c \in D : Cardinality(Below(D, c)) = k - 1
      BY <2>1 DEF Cut, Below
    <2>4. Cut(D, k) \in D /\ Cardinality(Below(D, Cut(D, k))) = k - 1
      BY <2>2, <2>3
    <2>5. Cut(D, k) \in 0..TotalValidators
      BY <2>4, ValidatorsFinite
    <2> QED
      BY <1>1, <1>2, <1>3, <2>1, <2>4, <2>5
  <1> QED
    BY <1>3, <1>4, <1>5, <1>6

LEMMA CutsSorted ==
  ASSUME NEW D \in SUBSET Validators, NEW j \in 0..Cardinality(D) + 1,
         NEW k \in 0..Cardinality(D) + 1, j <= k
  PROVE  Cut(D, j) <= Cut(D, k)
  <1>1. /\ Cardinality(D) \in Nat /\ IsFiniteSet(D) /\ D \subseteq Int
        /\ Cut(D, j) \in 0..TotalValidators /\ Cut(D, k) \in 0..TotalValidators
        /\ TotalValidators \in Nat
    BY CutFacts, ParamsAssumption
  <1>2. CASE j = 0 \/ k = Cardinality(D) + 1
    BY <1>1, <1>2, CutFacts
  <1>3. CASE j \in 1..Cardinality(D) /\ k \in 1..Cardinality(D)
    <2>1. /\ Cut(D, j) \in D /\ Cardinality(Below(D, Cut(D, j))) = j - 1
          /\ Cut(D, k) \in D /\ Cardinality(Below(D, Cut(D, k))) = k - 1
      BY <1>3, CutFacts
    <2> SUFFICES ASSUME Cut(D, k) < Cut(D, j) PROVE FALSE
      BY <1>1
    <2>2. Cut(D, j) \in Int
      BY <1>1
    <2>3. k - 1 < j - 1
      BY <1>1, <2>1, <2>2, RankIncreases
    <2> QED
      BY <1>3, <2>3
  <1> QED
    BY <1>1, <1>2, <1>3

\* Every position is in the window of the number of cuts up to it.
LEMMA WindowsCover ==
  ASSUME NEW D \in SUBSET Validators, NEW i \in Validators
  PROVE  \E k \in 0..Cardinality(D) : i \in Cut(D, k) .. Cut(D, k + 1) - 1
  <1> DEFINE k == Cardinality(Below(D, i + 1))
  <1>1. 0 \in 0..Cardinality(D) + 1
    <2>1. IsFiniteSet(D)
      BY ValidatorsFinite, FS_Subset
    <2>2. Cardinality(D) \in Nat
      BY <2>1, FS_CardinalityType
    <2> QED
      BY <2>2
  <1>2. /\ Cardinality(D) \in Nat /\ IsFiniteSet(D) /\ D \subseteq Int
        /\ TotalValidators \in Nat /\ i \in 0..TotalValidators - 1
    BY <1>1, CutFacts, ParamsAssumption DEF Validators
  <1>3. Below(D, i + 1) \subseteq D
    BY DEF Below
  <1>4. k \in 0..Cardinality(D)
    BY <1>2, <1>3, FS_Subset, FS_CardinalityType
  <1> HIDE DEF k
  <1>5. /\ k \in 0..Cardinality(D) + 1 /\ k + 1 \in 0..Cardinality(D) + 1
        /\ Cut(D, k) \in Int /\ Cut(D, k + 1) \in Int
    BY <1>2, <1>4, CutFacts
  <1>6. Cut(D, k) <= i
    <2>1. CASE k = 0
      BY <1>2, <1>5, <2>1, CutFacts
    <2>2. CASE k # 0
      <3>1. Cut(D, k) \in D /\ Cardinality(Below(D, Cut(D, k))) = k - 1
        BY <1>2, <1>4, <1>5, <2>2, CutFacts
      <3> SUFFICES ASSUME i < Cut(D, k) PROVE FALSE
        BY <1>2, <1>5
      <3>2. Below(D, i + 1) \subseteq Below(D, Cut(D, k)) /\ Below(D, Cut(D, k)) \subseteq D
        <4>1. \A d \in D : d \in Int
          BY <1>2
        <4>2. \A d \in D : d < i + 1 => d < Cut(D, k)
          BY <1>2, <1>5, <4>1
        <4> QED
          BY <4>2 DEF Below
      <3>3. IsFiniteSet(Below(D, Cut(D, k)))
        BY <1>2, <3>2, FS_Subset
      <3>4. k <= Cardinality(Below(D, Cut(D, k)))
        BY <3>2, <3>3, FS_Subset DEF k
      <3> QED
        BY <1>4, <3>1, <3>4
    <2> QED
      BY <2>1, <2>2
  <1>7. i < Cut(D, k + 1)
    <2>1. CASE k = Cardinality(D)
      BY <1>2, <1>5, <2>1, CutFacts
    <2>2. CASE k # Cardinality(D)
      <3>1. Cut(D, k + 1) \in D /\ Cardinality(Below(D, Cut(D, k + 1))) = k
        BY <1>2, <1>4, <1>5, <2>2, CutFacts
      <3> SUFFICES ASSUME Cut(D, k + 1) < i + 1 PROVE FALSE
        BY <1>2, <1>5
      <3>2. i + 1 \in Int
        BY <1>2
      <3>3. Cardinality(Below(D, Cut(D, k + 1))) < Cardinality(Below(D, i + 1))
        BY <1>2, <3>1, <3>2, RankIncreases
      <3> QED
        BY <1>4, <3>1, <3>3 DEF k
    <2> QED
      BY <2>1, <2>2
  <1> QED
    BY <1>2, <1>4, <1>5, <1>6, <1>7

\* No two windows overlap.
LEMMA WindowsDisjoint ==
  ASSUME NEW D \in SUBSET Validators, NEW j \in 0..Cardinality(D), NEW k \in 0..Cardinality(D),
         NEW i, i \in Cut(D, j) .. Cut(D, j + 1) - 1, i \in Cut(D, k) .. Cut(D, k + 1) - 1
  PROVE  j = k /\ i \in Validators
  <1>1. Cardinality(D) \in Nat
    BY ValidatorsFinite, FS_Subset, FS_CardinalityType
  <1>2. /\ j \in 0..Cardinality(D) + 1 /\ j + 1 \in 0..Cardinality(D) + 1
        /\ k \in 0..Cardinality(D) + 1 /\ k + 1 \in 0..Cardinality(D) + 1
    BY <1>1
  <1>3. /\ Cut(D, j) \in 0..TotalValidators /\ Cut(D, j + 1) \in 0..TotalValidators
        /\ Cut(D, k) \in 0..TotalValidators /\ Cut(D, k + 1) \in 0..TotalValidators
    BY <1>2, CutFacts
  <1>4. i \in Validators
    BY <1>3, ParamsAssumption DEF Validators
  <1>5. ~(j < k)
    <2> SUFFICES ASSUME j < k PROVE FALSE
      OBVIOUS
    <2>1. j + 1 <= k
      BY <1>1
    <2>2. Cut(D, j + 1) <= Cut(D, k)
      BY <1>2, <2>1, CutsSorted
    <2> QED
      BY <1>3, <2>2
  <1>6. ~(k < j)
    <2> SUFFICES ASSUME k < j PROVE FALSE
      OBVIOUS
    <2>1. k + 1 <= j
      BY <1>1
    <2>2. Cut(D, k + 1) <= Cut(D, j)
      BY <1>2, <2>1, CutsSorted
    <2> QED
      BY <1>3, <2>2
  <1> QED
    BY <1>1, <1>4, <1>5, <1>6

\* The shuffle loses no validator.
LEMMA ShuffleOnto ==
  ASSUME NEW f \in Orders
  PROVE  \A v \in Validators : \E i \in Validators : f[i] = v
  <1>1. f \in Injection(Validators, Validators)
    BY DEF Orders, Injection, IsInjective
  <1>2. f \in Surjection(Validators, Validators)
    BY <1>1, ValidatorsFinite, FS_Injection
  <1> QED
    BY <1>2 DEF Surjection

AssignmentTypes ==
    /\ DOMAIN assignments \subseteq Nat
    /\ \A k \in DOMAIN assignments : assignments[k] \subseteq Validators

LEMMA AssignCovers == AssignValidators => AssignmentTypes' /\ ValidatorsCovered'
  <1> SUFFICES ASSUME AssignValidators PROVE AssignmentTypes' /\ ValidatorsCovered'
    OBVIOUS
  <1>1. PICK D \in SUBSET Validators, f \in Orders :
             assignments' = [k \in 0..Cardinality(D) |->
                               {f[i] : i \in Cut(D, k) .. Cut(D, k + 1) - 1}]
    BY DEF AssignValidators
  <1>2. Cardinality(D) \in Nat
    BY ValidatorsFinite, FS_Subset, FS_CardinalityType
  <1>3. /\ DOMAIN assignments' = 0..Cardinality(D)
        /\ \A k \in 0..Cardinality(D) :
             assignments'[k] = {f[i] : i \in Cut(D, k) .. Cut(D, k + 1) - 1}
    BY <1>1
  <1>4. /\ \A i \in Validators : f[i] \in Validators
        /\ \A i, j \in Validators : f[i] = f[j] => i = j
    BY DEF Orders
  <1>5. ASSUME NEW k \in 0..Cardinality(D), NEW v \in assignments'[k]
        PROVE  \E i \in Validators : i \in Cut(D, k) .. Cut(D, k + 1) - 1 /\ f[i] = v
    <2>1. PICK i \in Cut(D, k) .. Cut(D, k + 1) - 1 : f[i] = v
      BY <1>3, <1>5
    <2>2. i \in Validators
      BY WindowsDisjoint
    <2> QED
      BY <2>1, <2>2
  <1>6. AssignmentTypes'
    <2>1. 0..Cardinality(D) \subseteq Nat
      BY <1>2
    <2> QED
      BY <1>3, <1>4, <1>5, <2>1 DEF AssignmentTypes
  <1>7. ASSUME NEW j \in DOMAIN assignments', NEW k \in DOMAIN assignments', j # k,
               NEW v \in assignments'[j] \cap assignments'[k]
        PROVE  FALSE
    <2>1. PICK i \in Validators : i \in Cut(D, j) .. Cut(D, j + 1) - 1 /\ f[i] = v
      BY <1>3, <1>5
    <2>2. PICK h \in Validators : h \in Cut(D, k) .. Cut(D, k + 1) - 1 /\ f[h] = v
      BY <1>3, <1>5
    <2>3. i = h
      BY <1>4, <2>1, <2>2
    <2> QED
      BY <1>3, <1>7, <2>1, <2>2, <2>3, WindowsDisjoint
  <1>8. ASSUME NEW v \in Validators PROVE \E k \in DOMAIN assignments' : v \in assignments'[k]
    <2>1. PICK i \in Validators : f[i] = v
      BY ShuffleOnto
    <2>2. PICK k \in 0..Cardinality(D) : i \in Cut(D, k) .. Cut(D, k + 1) - 1
      BY WindowsCover
    <2> QED
      BY <1>3, <2>1, <2>2
  <1>9. Assigned' = Validators
    BY <1>6, <1>8 DEF Assigned, AssignmentTypes
  <1> QED
    BY <1>6, <1>7, <1>9 DEF ValidatorsCovered

----------------------------------------------------------------------------

\* A network with a connection at every node passes the peer check.
LEMMA ConnectedCovered ==
  ASSUME IInv, \A n \in Nodes : connections[n] # {}
  PROVE  PeersCovered
  <1> DEFINE Dialling == {m \in Nodes : outbound[m] # <<>>}
             Covered == UNION {Dialled(n) \cup {n} : n \in Dialling}
  <1>1. /\ \A n \in Nodes : outbound[n] \in Seq(Nodes)
        /\ connections \in [Nodes -> SUBSET Nodes]
        /\ Types
    BY DEF IInv, Types
  <1>2. \A n \in Nodes : Dialled(n) \subseteq Nodes
    <2> SUFFICES ASSUME NEW n \in Nodes, NEW i \in DOMAIN outbound[n]
                 PROVE  outbound[n][i] \in Nodes
      BY DEF Dialled
    <2> QED
      BY <1>1
  <1>3. ASSUME NEW n \in Nodes, NEW b \in Nodes, Dials(n, b) # 0
        PROVE  n \in Dialling /\ b \in Dialled(n)
    <2>1. {i \in DOMAIN outbound[n] : outbound[n][i] = b} # {}
      BY <1>3, FS_EmptySet DEF Dials
    <2>2. PICK i \in DOMAIN outbound[n] : outbound[n][i] = b
      BY <2>1
    <2>3. outbound[n] # <<>>
      BY <2>2
    <2> QED
      BY <2>2, <2>3 DEF Dialled
  <1>4. ASSUME NEW n \in Nodes PROVE n \in Covered
    <2>1. PICK b \in Nodes : b \in connections[n]
      BY <1>1
    <2>2. Dials(n, b) + Dials(b, n) = 1
      BY <2>1 DEF IInv, OneDialPerConnection, Dials
    <2>3. Dials(n, b) \in Nat /\ Dials(b, n) \in Nat
      BY <1>1, DialsType
    <2>4. Dials(n, b) # 0 \/ Dials(b, n) # 0
      BY <2>2, <2>3
    <2>5. CASE Dials(n, b) # 0
      <3>1. n \in Dialling
        BY <1>3, <2>5
      <3> QED
        BY <3>1
    <2>6. CASE Dials(b, n) # 0
      <3>1. b \in Dialling /\ n \in Dialled(b)
        BY <1>3, <2>6
      <3> QED
        BY <3>1
    <2> QED
      BY <2>4, <2>5, <2>6
  <1>5. Covered \subseteq Nodes
    BY <1>2
  <1> QED
    BY <1>4, <1>5 DEF PeersCovered

\* What Network::new relies on: once the cuts are made, every validator has one
\* node; and it has refused the network for a node nobody is connected to.
CheckInv ==
    /\ AssignmentTypes
    /\ stage # "assign" => ValidatorsCovered
    /\ RefusedOnlyIfIsolated

LEMMA CheckInit == Init => CheckInv
  BY DEF Init, CheckInv, AssignmentTypes, RefusedOnlyIfIsolated

LEMMA CheckStep ==
  ASSUME IInv, CheckInv, [Next]_vars
  PROVE  CheckInv'
  <1>1. CASE AssignValidators
    <2>1. stage' = "expect"
      BY <1>1 DEF AssignValidators
    <2> QED
      BY <1>1, <2>1, AssignCovers DEF CheckInv, RefusedOnlyIfIsolated
  <1>2. ASSUME assignments' = assignments, stage # "assign", stage' \notin {"assign", "error"}
        PROVE  CheckInv'
    BY <1>2 DEF CheckInv, AssignmentTypes, ValidatorsCovered, Assigned, RefusedOnlyIfIsolated
  <1>3. CASE ExpectConnections \/ StopConnecting
    <2>1. assignments' = assignments /\ stage # "assign" /\ stage' \notin {"assign", "error"}
      BY <1>3 DEF ExpectConnections, StopConnecting
    <2> QED
      BY <1>2, <2>1
  <1>4. ASSUME NEW p \in Pairs, SkipConnection(p) \/ AddConnection(p) PROVE CheckInv'
    <2>1. assignments' = assignments /\ stage # "assign" /\ stage' \notin {"assign", "error"}
      BY <1>4 DEF SkipConnection, AddConnection
    <2> QED
      BY <1>2, <2>1
  <1>5. CASE Check
    <2>1. /\ stage # "assign" /\ assignments' = assignments /\ connections' = connections
          /\ stage' = IF ValidatorsCovered /\ PeersCovered THEN "ok" ELSE "error"
      BY <1>5 DEF Check
    <2>2. ValidatorsCovered /\ ValidatorsCovered'
      BY <2>1 DEF CheckInv, ValidatorsCovered, Assigned
    <2>3. stage' = "error" => \E n \in Nodes : connections[n] = {}
      BY <2>1, <2>2, ConnectedCovered
    <2> QED
      BY <2>1, <2>2, <2>3 DEF CheckInv, AssignmentTypes, RefusedOnlyIfIsolated
  <1>6. CASE UNCHANGED vars
    BY <1>6 DEF vars, CheckInv, AssignmentTypes, ValidatorsCovered, Assigned, RefusedOnlyIfIsolated
  <1> QED
    BY <1>1, <1>3, <1>4, <1>5, <1>6 DEF Next

LEMMA CheckInvariance == Spec => []CheckInv
  <1>1. IInv /\ CheckInv /\ [Next]_vars => CheckInv'
    BY CheckStep
  <1> QED
    BY CheckInit, <1>1, Invariance, PTL DEF Spec

\* For every number of validators and nodes, the generator's variables keep to
\* their types.
THEOREM TypeCorrect == Spec => []TypeOK
  <1>1. IInv /\ CheckInv => TypeOK
    BY DEF IInv, Types, CheckInv, AssignmentTypes, TypeOK
  <1> QED
    BY <1>1, Invariance, CheckInvariance, PTL

\* For every number of validators, cuts and nodes: the windows between the cuts
\* give every validator to exactly one node (lib.rs:154-186), so that a network
\* is only refused for a node that neither dials nor is dialled.
THEOREM RefusedForIsolation == Spec => []RefusedOnlyIfIsolated
  <1>1. CheckInv => RefusedOnlyIfIsolated
    BY DEF CheckInv
  <1> QED
    BY <1>1, CheckInvariance, PTL

-----------------------------------------------------------------------------
(* What the simulations take from the generator                            *)

\* The peers each node dials.
Outbound == [n \in Nodes |-> {outbound[n][i] : i \in DOMAIN outbound[n]}]

\* Whoever is in the list of a peer has it as a connection, and is dialled once.
LEMMA DialsCount ==
  ASSUME IInv, NEW a \in Nodes, NEW b \in Nodes
  PROVE  Dials(a, b) \in Nat /\ (b \in Outbound[a] => Dials(a, b) >= 1)
  <1>1. outbound[a] \in Seq(Nodes)
    BY DEF IInv, Types
  <1>2. PICK S : S = {i \in DOMAIN outbound[a] : outbound[a][i] = b}
    OBVIOUS
  <1>3. IsFiniteSet(S)
    <2>1. DOMAIN outbound[a] = 1..Len(outbound[a]) /\ Len(outbound[a]) \in Nat
      BY <1>1
    <2>2. IsFiniteSet(DOMAIN outbound[a])
      BY <2>1, FS_Interval
    <2> QED
      BY <1>2, <2>2, FS_Subset
  <1>4. Cardinality(S) \in Nat
    BY <1>3, FS_CardinalityType
  <1>5. b \in Outbound[a] => S # {}
    BY <1>2 DEF Outbound
  <1>6. S # {} => Cardinality(S) # 0
    BY <1>3, FS_EmptySet
  <1> QED
    BY <1>2, <1>4, <1>5, <1>6 DEF Dials

\* For every network size and connection range, the outbound peers are as
\* EthConsensus and Scoring assume them (their OutboundAssumption): a connection
\* is dialled from one of its ends, and nobody dials itself.
THEOREM OutboundAsAssumed ==
  Spec => []( /\ Outbound \in [Nodes -> SUBSET Nodes]
              /\ \A a, b \in Nodes : b \in Outbound[a] => a # b /\ a \notin Outbound[b] )
  <1>1. ASSUME IInv
        PROVE  /\ Outbound \in [Nodes -> SUBSET Nodes]
               /\ \A a, b \in Nodes : b \in Outbound[a] => a # b /\ a \notin Outbound[b]
    <2>1. Outbound \in [Nodes -> SUBSET Nodes]
      <3>1. ASSUME NEW n \in Nodes PROVE {outbound[n][i] : i \in DOMAIN outbound[n]} \subseteq Nodes
        <4>1. outbound[n] \in Seq(Nodes)
          BY <1>1 DEF IInv, Types
        <4> QED
          BY <4>1
      <3> QED
        BY <3>1 DEF Outbound
    <2>2. ASSUME NEW a \in Nodes, NEW b \in Nodes, b \in Outbound[a]
          PROVE  a # b /\ a \notin Outbound[b]
      <3>1. /\ Dials(a, b) \in Nat /\ Dials(a, b) >= 1
            /\ Dials(b, a) \in Nat /\ (a \in Outbound[b] => Dials(b, a) >= 1)
        BY <1>1, <2>2, DialsCount
      <3>2. Dials(a, b) + Dials(b, a) = IF b \in connections[a] THEN 1 ELSE 0
        BY <1>1 DEF IInv, OneDialPerConnection, Dials
      <3>3. a \notin connections[a]
        BY <1>1 DEF IInv, Irreflexive
      <3> QED
        BY <3>1, <3>2, <3>3
    <2> QED
      BY <2>1, <2>2
  <1>2. IInv => /\ Outbound \in [Nodes -> SUBSET Nodes]
                /\ \A a, b \in Nodes : b \in Outbound[a] => a # b /\ a \notin Outbound[b]
    BY <1>1
  <1> QED
    BY <1>2, Invariance, PTL

=============================================================================
