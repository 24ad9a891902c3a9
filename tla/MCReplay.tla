------------------------------ MODULE MCReplay ------------------------------
(***************************************************************************)
(* The first run rebuilds a group from outbox rows 1 to 3, of which 1 is   *)
(* committed late and 2 is refused; the second replays dead letter 4 to    *)
(* the same group.  Row 3 may fall below the retention floor meanwhile.    *)
(***************************************************************************)
EXTENDS Replay, TLC

CONSTANTS rebuild, redrive, group

MCScope == [q \in Runs |-> IF q = redrive THEN Letters ELSE Events \ Letters]
MCGroupOf == [q \in Runs |-> group]
=============================================================================
