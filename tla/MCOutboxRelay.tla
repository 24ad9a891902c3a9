--------------------------- MODULE MCOutboxRelay ---------------------------
(* Events of two aggregates, interleaved; two relays. *)
EXTENDS OutboxRelay, TLC

CONSTANTS A, B

MCAggregateOf == [e \in Events |-> IF e \in {1, 3} THEN A ELSE B]
=============================================================================
