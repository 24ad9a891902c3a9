---------------------------- MODULE OutboxRelay ----------------------------
(***************************************************************************)
(* The transactional outbox: producers insert event rows with their state  *)
(* changes, relays move committed rows to the bus (relay.ts).              *)
(*                                                                         *)
(* One relay cycle is one database transaction: claim a batch, append each *)
(* row to the stream, mark what the bus took or what was quarantined,      *)
(* commit.  The stream is not part of that transaction.                    *)
(***************************************************************************)
EXTENDS Naturals, FiniteSets, Sequences

CONSTANTS
    Events,             \* the events published, named by their outbox id
    AggregateOf,        \* the aggregate each event is about
    Serialized,         \* aggregates whose row a producer locks before it publishes
    Relays,
    BatchSize,
    MaxPublishAttempts,
    MaxCopies,          \* bound: stream entries of an event before a retry lands again
    MaxFaults           \* bound: producers rolled back, relays crashed, sessions lost

ASSUME BoundsAssumption ==
    /\ BatchSize \in Nat \ {0} /\ MaxPublishAttempts \in Nat \ {0}
    /\ MaxCopies \in Nat /\ MaxFaults \in Nat
ASSUME EventsAssumption == IsFiniteSet(Events) /\ Events \subseteq Nat

VARIABLES
    row,        \* outbox_events, by event
    stream,     \* what Redis appended, in order
    dead,       \* committed publish-side dead letters
    cycle,      \* the transaction each relay is in
    faults

vars == <<row, stream, dead, cycle, faults>>

-----------------------------------------------------------------------------

(* No row, or one rolled back, or with its producer's commit outstanding.   *)
RowStates == {"none", "rolled back", "written", "pending", "published"}

(***************************************************************************)
(* A cycle: the rows it locked, those it has yet to append, those it will  *)
(* mark published, those whose attempt it counted, those it quarantined,   *)
(* and whether its database session still lives.                           *)
(***************************************************************************)
Idle == [claimed |-> {}, todo |-> {}, marks |-> {}, tried |-> {}, buried |-> {}, open |-> TRUE]

Init ==
    /\ row = [e \in Events |-> [state |-> "none", attempts |-> 0]]
    /\ stream = <<>>
    /\ dead = {}
    /\ cycle = [r \in Relays |-> Idle]
    /\ faults = 0

OnStream == {stream[i] : i \in 1..Len(stream)}

Pending == {e \in Events : row[e].state = "pending"}

(* A producer publishes inside its transaction and draws the next id. *)
Publish(e) ==
    /\ row[e].state = "none"
    /\ \A f \in Events : f < e => row[f].state # "none"
    /\ AggregateOf[e] \in Serialized =>
          \A f \in Events : AggregateOf[f] = AggregateOf[e] => row[f].state # "written"
    /\ row' = [row EXCEPT ![e].state = "written"]
    /\ UNCHANGED <<stream, dead, cycle, faults>>

(* The producer's transaction commits, *)
CommitProducer(e) ==
    /\ row[e].state = "written"
    /\ row' = [row EXCEPT ![e].state = "pending"]
    /\ UNCHANGED <<stream, dead, cycle, faults>>

(* or it rolls back, and its id is never seen. *)
RollBackProducer(e) ==
    /\ row[e].state = "written"
    /\ faults < MaxFaults
    /\ faults' = faults + 1
    /\ row' = [row EXCEPT ![e].state = "rolled back"]
    /\ UNCHANGED <<stream, dead, cycle>>

(* Rows some live transaction has locked; SKIP LOCKED passes them over. *)
Locked == UNION {cycle[r].claimed : r \in {s \in Relays : cycle[s].open}}

(* Mutant of Claimable: no NOT EXISTS. *)
AnyPending == Pending \ Locked

(* Unpublished, unlocked, and no earlier row of the aggregate unpublished. *)
Claimable ==
    {e \in Pending \ Locked :
        \A f \in Pending : AggregateOf[f] = AggregateOf[e] => e <= f}

(* S is what ORDER BY id LIMIT leaves of the claimable rows. *)
IsBatch(S) ==
    /\ S \subseteq Claimable /\ S # {}
    /\ Cardinality(S) <= BatchSize
    /\ S = Claimable \/ Cardinality(S) = BatchSize
    /\ \A e \in S, f \in Claimable \ S : e < f

Claim(r) ==
    /\ cycle[r].claimed = {}
    /\ \E S \in SUBSET Events :
          /\ IsBatch(S)
          /\ cycle' = [cycle EXCEPT ![r] = [@ EXCEPT !.claimed = S, !.todo = S]]
    /\ UNCHANGED <<row, stream, dead, faults>>

(* The row the loop has reached. *)
IsNext(r, e) ==
    /\ e \in cycle[r].todo
    /\ \A f \in cycle[r].todo : e <= f

(***************************************************************************)
(* An append lands once, or again when the bus client retries an XADD that *)
(* only seemed to fail.                                                    *)
(***************************************************************************)
Lands(e, least) ==
    \E n \in {least} \cup {k \in least..2 :
                 k + Cardinality({i \in 1..Len(stream) : stream[i] = e}) <= MaxCopies} :
        stream' = stream \o [i \in 1..n |-> e]

(* What becomes of e in a cycle. *)
Marked(x, e) == [x EXCEPT !.todo = @ \ {e}, !.marks = @ \cup {e}]
Buried(x, e) == [Marked(x, e) EXCEPT !.buried = @ \cup {e}]
Counted(x, e) == [x EXCEPT !.todo = @ \ {e}, !.tried = @ \cup {e}]

Delivered(r, e) ==
    /\ IsNext(r, e)
    /\ Lands(e, 1)
    /\ cycle' = [cycle EXCEPT ![r] = Marked(@, e)]
    /\ UNCHANGED <<row, dead, faults>>

(* Mutant of Refused: the attempt is not counted. *)
RefusedUncounted(r, e) ==
    /\ IsNext(r, e)
    /\ cycle[r].open
    /\ Lands(e, 0)
    /\ cycle' = [cycle EXCEPT ![r] = [@ EXCEPT !.todo = @ \ {e}]]
    /\ UNCHANGED <<row, dead, faults>>

(* Mutant of Refused: quarantined one attempt too late. *)
RefusedOnceMore(r, e) ==
    /\ IsNext(r, e)
    /\ cycle[r].open
    /\ Lands(e, 0)
    /\ cycle' = [cycle EXCEPT ![r] =
          IF row[e].attempts + 1 > MaxPublishAttempts THEN Buried(@, e) ELSE Counted(@, e)]
    /\ UNCHANGED <<row, dead, faults>>

(***************************************************************************)
(* The bus reports a failure, though an append may have landed.  The last  *)
(* attempt is quarantined and marked; an earlier one is only counted, and  *)
(* the row is claimed again.                                               *)
(***************************************************************************)
Refused(r, e) ==
    /\ IsNext(r, e)
    /\ cycle[r].open
    /\ Lands(e, 0)
    /\ cycle' = [cycle EXCEPT ![r] =
          IF row[e].attempts + 1 >= MaxPublishAttempts THEN Buried(@, e) ELSE Counted(@, e)]
    /\ UNCHANGED <<row, dead, faults>>

(* Mutant of Commit: everything claimed is marked. *)
CommitAll(r) ==
    /\ cycle[r].claimed # {} /\ cycle[r].todo = {} /\ cycle[r].open
    /\ row' = [e \in Events |->
          IF e \in cycle[r].claimed THEN [row[e] EXCEPT !.state = "published"] ELSE row[e]]
    /\ dead' = dead \cup cycle[r].buried
    /\ cycle' = [cycle EXCEPT ![r] = Idle]
    /\ UNCHANGED <<stream, faults>>

(* MARK_PUBLISHED_SQL and the commit. *)
Commit(r) ==
    /\ cycle[r].claimed # {} /\ cycle[r].todo = {} /\ cycle[r].open
    /\ row' = [e \in Events |->
          IF e \in cycle[r].marks THEN [row[e] EXCEPT !.state = "published"]
          ELSE IF e \in cycle[r].tried THEN [row[e] EXCEPT !.attempts = @ + 1]
          ELSE row[e]]
    /\ dead' = dead \cup cycle[r].buried
    /\ cycle' = [cycle EXCEPT ![r] = Idle]
    /\ UNCHANGED <<stream, faults>>

(***************************************************************************)
(* A relay whose session was lost finds out at its next statement: the     *)
(* attempt or quarantine of a refused row, or the final mark.  The cycle   *)
(* throws; the worker's next one starts afresh.                            *)
(***************************************************************************)
Abandon(r) ==
    /\ ~cycle[r].open
    /\ cycle' = [cycle EXCEPT ![r] = Idle]
    /\ UNCHANGED <<row, stream, dead, faults>>

(* The relay dies: the server rolls back and unlocks; what landed stays. *)
Crash(r) ==
    /\ cycle[r].claimed # {}
    /\ faults < MaxFaults
    /\ faults' = faults + 1
    /\ cycle' = [cycle EXCEPT ![r] = Idle]
    /\ UNCHANGED <<row, stream, dead>>

(* Only the connection dies.  The relay is still appending its batch. *)
LoseSession(r) ==
    /\ cycle[r].claimed # {} /\ cycle[r].open
    /\ faults < MaxFaults
    /\ faults' = faults + 1
    /\ cycle' = [cycle EXCEPT ![r] = [@ EXCEPT !.open = FALSE]]
    /\ UNCHANGED <<row, stream, dead>>

Cycle(r) ==
    \/ Claim(r)
    \/ \E e \in Events : Delivered(r, e) \/ Refused(r, e)
    \/ Commit(r)
    \/ Abandon(r)

Next ==
    \/ \E e \in Events : Publish(e) \/ CommitProducer(e) \/ RollBackProducer(e)
    \/ \E r \in Relays : Cycle(r) \/ Crash(r) \/ LoseSession(r)

(* The worker's loop cycles for ever; nobody is obliged to publish. *)
Spec == Init /\ [][Next]_vars /\ \A r \in Relays : WF_vars(Cycle(r))

-----------------------------------------------------------------------------

CycleType ==
    [claimed : SUBSET Events, todo : SUBSET Events, marks : SUBSET Events,
     tried : SUBSET Events, buried : SUBSET Events, open : BOOLEAN]

(* Attempts stay below the limit: the one that reaches it is quarantined. *)
TypeOK ==
    /\ row \in [Events -> [state : RowStates, attempts : 0..MaxPublishAttempts-1]]
    /\ stream \in Seq(Events)
    /\ dead \subseteq Events
    /\ cycle \in [Relays -> CycleType]
    /\ faults \in 0..MaxFaults

(***************************************************************************)
(* "The relay must never fail to deliver one at all": a row that has left  *)
(* the outbox is on the stream or in the dead-letter queue, whatever was   *)
(* refused and wherever a relay died between its append and its commit.    *)
(***************************************************************************)
NothingIsLost ==
    \A e \in Events : row[e].state = "published" => e \in OnStream \/ e \in dead

FirstAppend(e) == CHOOSE i \in 1..Len(stream) :
    /\ stream[i] = e
    /\ \A j \in 1..i-1 : stream[j] # e

(***************************************************************************)
(* "Same aggregate, same event type: strict order" (ordering.md): events   *)
(* of an aggregate first reach the stream in the order of their ids, for   *)
(* all the crashes, retries and relays.  Two exceptions: a quarantined     *)
(* event is the gap ordering.md records, and an aggregate whose producers  *)
(* share no lock is promised nothing (ids are drawn before the commit, so  *)
(* the later one may commit, and leave, first).  The organization is such  *)
(* an aggregate: append of the credits service (service.ts:424) and the    *)
(* hold events publish under it and lock different rows, if any.           *)
(***************************************************************************)
InOrder ==
    \A e, f \in OnStream \ dead :
        (AggregateOf[e] = AggregateOf[f] /\ AggregateOf[e] \in Serialized /\ e < f) =>
            FirstAppend(e) < FirstAppend(f)

(***************************************************************************)
(* The outbox drains: a row the bus keeps refusing is quarantined rather   *)
(* than holding its aggregate up for ever.  Events are finitely many and   *)
(* never come back, so this says that every one of them leaves.            *)
(***************************************************************************)
OutboxDrains == Pending # {} ~> Pending = {}
=============================================================================
