---------------------------- MODULE MCRecording ----------------------------
(* An instance of Recording: two epochs of two slots, the messages around  *)
(* their boundary, one of them the node's own.                             *)
EXTENDS Recording

Msg(t, v, s) == [topic |-> t, validator |-> v, slot |-> s]

OwnMessages == {Msg("Attestations", 2, 2)}
MessagesAtBoundary == OwnMessages \cup
    {Msg("Attestations", 1, 1), Msg("Attestations", 1, 2), Msg("Aggregates", 1, 1)}

=============================================================================
