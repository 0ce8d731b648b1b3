----------------------- MODULE MCMaliciousBehaviour -----------------------
(* An instance of MaliciousBehaviour: two topics whose GRAFTs do not fit   *)
(* into one message together.                                              *)
EXTENDS MaliciousBehaviour

CONSTANTS t1, t2

TwoTopics == {t1, t2}
Lengths == [t \in TwoTopics |-> IF t = t1 THEN 40 ELSE 45]

=============================================================================
