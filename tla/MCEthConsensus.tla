--------------------------- MODULE MCEthConsensus ---------------------------
(* Instances of EthConsensus: a line of three nodes, where messages need two hops. *)
EXTENDS EthConsensus

CONSTANTS n1, n2, n3

Nodes == {n1, n2, n3}
LineOutbound == [n \in Nodes |-> IF n = n1 THEN {n2} ELSE IF n = n2 THEN {n3} ELSE {}]

=============================================================================
