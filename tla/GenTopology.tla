---------------------------- MODULE GenTopology ----------------------------
(***************************************************************************)
(* Network::generate and Network::new of                                   *)
(* eth_consensus/utils/gen_topology/src/lib.rs: which node runs which      *)
(* validators and who dials whom.  The eth_consensus and scoring plans run *)
(* it on every instance with the same seed, so that all agree; here the    *)
(* generator's draws are nondeterministic choices.                         *)
(***************************************************************************)
EXTENDS Integers, Sequences, FiniteSets

CONSTANTS
    TotalValidators,
    NodesWithVals,      \* total_nodes_with_vals
    TotalNodes,
    MinPeers,           \* connections_range
    MaxPeers

\* What Params::new lets through, and what usize holds.
ASSUME ParamsAssumption ==
    /\ TotalValidators \in Nat \ {0}
    /\ TotalNodes \in Nat \ {0}
    /\ NodesWithVals \in 0..TotalNodes
    /\ MinPeers \in Nat /\ MaxPeers \in Nat /\ MinPeers <= MaxPeers

Nodes == 0 .. TotalNodes - 1
Validators == 0 .. TotalValidators - 1

VARIABLES
    stage,          \* the step of generate() that comes next, or its result
    assignments,    \* validator_assignments
    expected,       \* topology: the expected number of connections
    connections,    \* topology: the connections added so far
    candidates,     \* all_connections, shuffled and popped: in any order
    outbound        \* outbound_peers

vars == <<stage, assignments, expected, connections, candidates, outbound>>

Pairs == {p \in Nodes \X Nodes : p[1] < p[2]}

TypeOK ==
    /\ stage \in {"assign", "expect", "connect", "check", "ok", "error"}
    /\ DOMAIN assignments \subseteq Nat
    /\ \A k \in DOMAIN assignments : assignments[k] \subseteq Validators
    /\ expected \in [Nodes -> 0..MaxPeers]
    /\ connections \in [Nodes -> SUBSET Nodes]
    /\ candidates \subseteq Pairs
    /\ outbound \in [Nodes -> Seq(Nodes)]

Init ==
    /\ stage = "assign"
    /\ assignments = <<>>
    /\ expected = [n \in Nodes |-> 0]
    /\ connections = [n \in Nodes |-> {}]
    /\ candidates = Pairs
    /\ outbound = [n \in Nodes |-> <<>>]

----------------------------------------------------------------------------
(* Validators *)

\* choose_multiple(total_nodes_with_vals - 1) draws at most as many cuts as there
\* are validators.  usize wraps below zero in the release build the Dockerfiles
\* make, and asks for all of them.
CutCount ==
    IF NodesWithVals - 1 \in 0..TotalValidators THEN NodesWithVals - 1
    ELSE TotalValidators

\* Mutant: the end of the last window misses the last validator.
CutShort(drawn, k) ==
    IF k = 0 THEN 0
    ELSE IF k > Cardinality(drawn) THEN TotalValidators - 1
    ELSE CHOOSE c \in drawn : Cardinality({d \in drawn : d < c}) = k - 1

\* The k-th of the sorted cuts, 0 and total_validators added to those drawn.
Cut(drawn, k) ==
    IF k = 0 THEN 0
    ELSE IF k > Cardinality(drawn) THEN TotalValidators
    ELSE CHOOSE c \in drawn : Cardinality({d \in drawn : d < c}) = k - 1

Orders == {f \in [Validators -> Validators] : \A i, j \in Validators : f[i] = f[j] => i = j}

\* cuts.windows(2).enumerate(): one node for each pair of adjacent cuts.
AssignValidators ==
    /\ stage = "assign"
    /\ \E drawn \in SUBSET Validators, shuffled \in Orders :
          /\ Cardinality(drawn) = CutCount
          /\ assignments' =
                [k \in 0..Cardinality(drawn) |->
                    {shuffled[i] : i \in Cut(drawn, k) .. Cut(drawn, k + 1) - 1}]
    /\ stage' = "expect"
    /\ UNCHANGED <<expected, connections, candidates, outbound>>

----------------------------------------------------------------------------
(* Connections *)

\* Mutant: takes the inclusive upper bound for an exclusive one.
ExpectOneMore ==
    /\ stage = "expect"
    /\ expected' \in [Nodes -> MinPeers .. MaxPeers + 1]
    /\ stage' = "connect"
    /\ UNCHANGED <<assignments, connections, candidates, outbound>>

ExpectConnections ==
    /\ stage = "expect"
    /\ expected' \in [Nodes -> MinPeers..MaxPeers]
    /\ stage' = "connect"
    /\ UNCHANGED <<assignments, connections, candidates, outbound>>

\* Mutants: off by one, either way.
SaturatedLate(n) == Cardinality(connections[n]) > expected[n]
SaturatedEarly(n) == Cardinality(connections[n]) + 1 >= expected[n]

Saturated(n) == Cardinality(connections[n]) >= expected[n]

Useful(p) == ~Saturated(p[1]) /\ ~Saturated(p[2])

\* A popped pair is passed over if either end has all it expects.
SkipConnection(p) ==
    /\ stage = "connect"
    /\ p \in candidates
    /\ ~Useful(p)
    /\ candidates' = candidates \ {p}
    /\ UNCHANGED <<stage, assignments, expected, connections, outbound>>

\* Mutant: both ends dial.
AddBothWays(p) ==
    LET a == p[1]  b == p[2] IN
    /\ stage = "connect"
    /\ p \in candidates
    /\ Useful(p)
    /\ candidates' = candidates \ {p}
    /\ connections' = [connections EXCEPT ![a] = @ \cup {b}, ![b] = @ \cup {a}]
    /\ outbound' = [outbound EXCEPT ![a] = Append(@, b), ![b] = Append(@, a)]
    /\ UNCHANGED <<stage, assignments, expected>>

\* Otherwise it is added to the maps of both ends, and one of them dials.
AddConnection(p) ==
    LET a == p[1]  b == p[2] IN
    /\ stage = "connect"
    /\ p \in candidates
    /\ Useful(p)
    /\ candidates' = candidates \ {p}
    /\ connections' = [connections EXCEPT ![a] = @ \cup {b}, ![b] = @ \cup {a}]
    /\ \/ outbound' = [outbound EXCEPT ![a] = Append(@, b)]
       \/ outbound' = [outbound EXCEPT ![b] = Append(@, a)]
    /\ UNCHANGED <<stage, assignments, expected>>

\* A node short of its minimum only makes the program print a warning.
StopConnecting ==
    /\ stage = "connect"
    /\ candidates = {}
    /\ stage' = "check"
    /\ UNCHANGED <<assignments, expected, connections, candidates, outbound>>

----------------------------------------------------------------------------
(* Network::new *)

Dialled(n) == {outbound[n][i] : i \in DOMAIN outbound[n]}

Assigned == UNION {assignments[k] : k \in DOMAIN assignments}

\* Total number, no repetition, largest and smallest id.
ValidatorsCovered ==
    /\ \A j, k \in DOMAIN assignments : j # k => assignments[j] \cap assignments[k] = {}
    /\ Assigned = Validators

\* Every node dials or is dialled.
PeersCovered ==
    UNION {Dialled(n) \cup {n} : n \in {m \in Nodes : outbound[m] # <<>>}} = Nodes

Check ==
    /\ stage = "check"
    /\ stage' = IF ValidatorsCovered /\ PeersCovered THEN "ok" ELSE "error"
    /\ UNCHANGED <<assignments, expected, connections, candidates, outbound>>

Next ==
    \/ AssignValidators \/ ExpectConnections
    \/ \E p \in Pairs : SkipConnection(p) \/ AddConnection(p)
    \/ StopConnecting \/ Check

Spec == Init /\ [][Next]_vars

----------------------------------------------------------------------------
(* Properties *)

\* No order of the pairs and no draw takes a node over the number of connections
\* drawn for it, although a node gains them from pairs popped for others too.
DegreeBound ==
    \A n \in Nodes : /\ Cardinality(connections[n]) <= expected[n]
                     /\ expected[n] <= MaxPeers

\* The maps of the two ends agree, and a connection is dialled by exactly one of
\* them, once: no node dials itself, no two nodes dial each other.
OneDialPerConnection ==
    \A a, b \in Nodes :
        Cardinality({i \in DOMAIN outbound[a] : outbound[a][i] = b})
        + Cardinality({i \in DOMAIN outbound[b] : outbound[b][i] = a})
          = IF b \in connections[a] THEN 1 ELSE 0

\* The loop gives up no connection it could still make: two nodes that are both
\* short of what they expect when it ends are connected already.
NothingLeftToConnect ==
    stage \in {"check", "ok", "error"} =>
        \A a, b \in Nodes :
            /\ a # b
            /\ Cardinality(connections[a]) < expected[a]
            /\ Cardinality(connections[b]) < expected[b]
            => b \in connections[a]

\* Whatever the cuts, the windows hand out every validator to exactly one node:
\* a generated network is only ever refused because a node is isolated.
RefusedOnlyIfIsolated ==
    stage = "error" => \E n \in Nodes : connections[n] = {}

============================================================================
