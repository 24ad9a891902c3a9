------------------------ MODULE MCConsumerDelivery ------------------------
(***************************************************************************)
(* Two processes of one group; the first also sweeps.  Events 1 and 2 are  *)
(* about one aggregate, and 3 is of a type the group has no handler for.   *)
(***************************************************************************)
EXTENDS ConsumerDelivery, TLC

CONSTANTS A, B, here, there, loop, sweep, peer

MCStream == <<1, 2, 3>>
MCShortStream == <<1, 2>>

MCAggregateOf == [e \in Events |-> IF e \in {1, 2} THEN A ELSE B]

(* The deployment the barrier is meant for. *)
OneProcess == (loop :> here) @@ (sweep :> here)

TwoProcesses == (loop :> here) @@ (sweep :> here) @@ (peer :> there)
=============================================================================
