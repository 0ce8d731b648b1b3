----------------------------- MODULE MCScoring -----------------------------
(* Instances of Scoring: a line of three beacon nodes. *)
EXTENDS Scoring

CONSTANTS b0, b1, b2

Nodes == {b0, b1, b2}
LineOutbound == [n \in Nodes |-> IF n = b0 THEN {b1} ELSE IF n = b1 THEN {b2} ELSE {}]
\* b1 and b2 tie for the most.
TiedValidators == [n \in Nodes |-> IF n = b0 THEN 0 ELSE 1]

=============================================================================
