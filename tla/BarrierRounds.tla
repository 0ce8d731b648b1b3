--------------------------- MODULE BarrierRounds ---------------------------
(***************************************************************************)
(* What every test plan of the repository relies on: the instances run     *)
(* through the same numbered barriers, and a barrier "fires when it        *)
(* reaches all participants" (doc comment of barrier_and_drive_swarm).     *)
(* The plans are shown to implement this specification, or not to.         *)
(***************************************************************************)
EXTENDS Integers

CONSTANTS
    Node,       \* the instances of a run
    Barriers    \* how many barriers a run goes through

VARIABLES
    arrived,    \* arrived[n]: how many barriers n has signalled
    passed      \* passed[n]: how many barriers have let n through

vars == <<arrived, passed>>

Init ==
    /\ arrived = [n \in Node |-> 0]
    /\ passed = [n \in Node |-> 0]

Arrive(n) ==
    /\ arrived[n] = passed[n]
    /\ arrived[n] < Barriers
    /\ arrived' = [arrived EXCEPT ![n] = @ + 1]
    /\ UNCHANGED passed

Pass(n) ==
    /\ passed[n] < arrived[n]
    /\ \A m \in Node : arrived[m] >= arrived[n]
    /\ passed' = [passed EXCEPT ![n] = @ + 1]
    /\ UNCHANGED arrived

Next == \E n \in Node : Arrive(n) \/ Pass(n)

============================================================================
