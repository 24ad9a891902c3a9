-------------------------- MODULE ConsumerDelivery --------------------------
(***************************************************************************)
(* One consumer group on its stream: the worker's read loop and            *)
(* acknowledgement (consumer-worker.ts) around the dispatcher's barrier,   *)
(* idempotency marker, handler, retry and dead letter (dispatcher.ts,      *)
(* guards.ts, retry.ts).                                                   *)
(*                                                                         *)
(* OutboxRelay says what the stream may look like: an event can be on it   *)
(* more than once.  Redis keeps every entry handed out and not yet         *)
(* acknowledged in the group's pending list.                               *)
(***************************************************************************)
EXTENDS Naturals, FiniteSets, Sequences

CONSTANTS
    Events,
    Stream,         \* the group's stream: a sequence of events
    AggregateOf,    \* the aggregate each event is about
    Handled,        \* events of a type this group has a handler for
    OwnTransaction, \* events whose handler commits a transaction of its own
    Loops, Sweeps,  \* read loops, and sweeps that reclaim stalled entries
    ProcessOf,      \* the process, and so the barrier, each of them shares
    BatchSize,
    MaxAttempts,    \* policy.maxAttempts
    Failures,       \* the kinds of failure that happen
    MaxFaults       \* bound: how many of them

ASSUME StreamAssumption == Stream \in Seq(Events)
ASSUME SetsAssumption == Handled \subseteq Events /\ OwnTransaction \subseteq Handled
ASSUME BoundsAssumption ==
    BatchSize \in Nat \ {0} /\ MaxAttempts \in Nat \ {0} /\ MaxFaults \in Nat

Kinds == {"read", "handler", "commit", "quarantine", "ack", "crash"}

Callers == Loops \cup Sweeps
Processes == {ProcessOf[c] : c \in Callers}
Entries == DOMAIN Stream

VARIABLES
    cursor,     \* the last entry handed to the group
    pending,    \* the group's pending list
    caller,     \* what each loop and sweep is doing
    active,     \* the aggregates each process's barrier has leased
    processed,  \* committed markers in processed_events
    done,       \* the handlers' effects, in the order they were committed
    dead,       \* dead_letter_events of this group
    faults

vars == <<cursor, pending, caller, active, processed, done, dead, faults>>

-----------------------------------------------------------------------------

(* A caller: the entries of its batch still to deliver, and as which attempt. *)
Idle == [at |-> "idle", todo |-> {}, attempt |-> 0]

Init ==
    /\ cursor = 0
    /\ pending = {}
    /\ caller = [c \in Callers |-> Idle]
    /\ active = [p \in Processes |-> {}]
    /\ processed = {}
    /\ done = <<>>
    /\ dead = {}
    /\ faults = 0

(* The entry c is delivering: the first of its batch. *)
Entry(c) == CHOOSE i \in caller[c].todo : \A j \in caller[c].todo : i <= j
Event(c) == Stream[Entry(c)]
Aggregate(c) == AggregateOf[Event(c)]

Goto(c, s) == caller' = [caller EXCEPT ![c].at = s]

(* c has finished with its entry and turns to the next of the batch. *)
TurnToNext(c) ==
    LET rest == caller[c].todo \ {Entry(c)} IN
    caller' = [caller EXCEPT
                  ![c] = IF rest = {} THEN Idle ELSE [@ EXCEPT !.at = "acquire", !.todo = rest]]

(* An exception leaves deliver: the rest of the batch is not looked at. *)
AbandonBatch(c) == caller' = [caller EXCEPT ![c] = Idle]

Release(c) ==
    active' = [active EXCEPT ![ProcessOf[c]] = @ \ {Aggregate(c)}]

Fault(kind) ==
    /\ kind \in Failures /\ faults < MaxFaults
    /\ faults' = faults + 1

-----------------------------------------------------------------------------
(* Reading.                                                                *)

(* Mutant of Read: the group's position does not move. *)
ReadInPlace(c) ==
    /\ c \in Loops /\ caller[c].at = "idle"
    /\ \E n \in 1..BatchSize :
          /\ cursor + n <= Len(Stream)
          /\ LET batch == cursor + 1 .. cursor + n IN
                /\ pending' = pending \cup batch
                /\ caller' = [caller EXCEPT
                                 ![c] = [at |-> "acquire", todo |-> batch, attempt |-> 1]]
    /\ UNCHANGED <<cursor, active, processed, done, dead, faults>>

(* XREADGROUP > hands out entries no one was given before, as attempt 1. *)
Read(c) ==
    /\ c \in Loops /\ caller[c].at = "idle"
    /\ \E n \in 1..BatchSize :
          /\ cursor + n <= Len(Stream)
          /\ cursor' = cursor + n
          /\ LET batch == cursor + 1 .. cursor + n IN
                /\ pending' = pending \cup batch
                /\ caller' = [caller EXCEPT
                                 ![c] = [at |-> "acquire", todo |-> batch, attempt |-> 1]]
    /\ UNCHANGED <<active, processed, done, dead, faults>>

(* The reply is lost: the entries are pending and nobody looks at them. *)
ReadLost(c) ==
    /\ c \in Loops /\ caller[c].at = "idle"
    /\ Fault("read")
    /\ \E n \in 1..BatchSize :
          /\ cursor + n <= Len(Stream)
          /\ cursor' = cursor + n
          /\ pending' = pending \cup (cursor + 1 .. cursor + n)
    /\ UNCHANGED <<caller, active, processed, done, dead>>

(***************************************************************************)
(* claimStalled: an entry long enough in the pending list goes to a sweep, *)
(* whether its reader died, left it there, or is still at it.  Whoever is  *)
(* handed it counts this as attempt 2.                                     *)
(***************************************************************************)
Reclaim(c, i) ==
    /\ c \in Sweeps /\ caller[c].at = "idle"
    /\ i \in pending
    /\ caller' = [caller EXCEPT ![c] = [at |-> "acquire", todo |-> {i}, attempt |-> 2]]
    /\ UNCHANGED <<cursor, pending, active, processed, done, dead, faults>>

-----------------------------------------------------------------------------
(* dispatch.                                                               *)

(* Mutant of Acquire: the barrier is not asked. *)
AcquireRegardless(c) ==
    /\ caller[c].at = "acquire"
    /\ Goto(c, IF Event(c) \in Handled THEN "claim" ELSE "ack")
    /\ active' = [active EXCEPT ![ProcessOf[c]] = @ \cup {Aggregate(c)}]
    /\ UNCHANGED <<cursor, pending, processed, done, dead, faults>>

(***************************************************************************)
(* A type without a handler is acknowledged unseen.  The barrier lets one  *)
(* event per aggregate through; any other is held: left pending.           *)
(***************************************************************************)
Acquire(c) ==
    /\ caller[c].at = "acquire"
    /\ \/ /\ Event(c) \notin Handled
          /\ Goto(c, "ack")
          /\ UNCHANGED active
       \/ /\ Event(c) \in Handled /\ Aggregate(c) \in active[ProcessOf[c]]
          /\ TurnToNext(c)
          /\ UNCHANGED active
       \/ /\ Event(c) \in Handled /\ Aggregate(c) \notin active[ProcessOf[c]]
          /\ Goto(c, "claim")
          /\ active' = [active EXCEPT ![ProcessOf[c]] = @ \cup {Aggregate(c)}]
    /\ UNCHANGED <<cursor, pending, processed, done, dead, faults>>

(* Callers whose open transaction has inserted the marker of event e. *)
InTransaction(e) == {c \in Callers : caller[c].at \in {"handle", "record"} /\ Event(c) = e}

(* Mutant of ClaimMarker: a lookup, and no insert to wait for. *)
LookUpMarker(c) ==
    /\ caller[c].at = "claim"
    /\ IF Event(c) \in processed
       THEN Goto(c, "ack") /\ Release(c)
       ELSE Goto(c, "handle") /\ UNCHANGED active
    /\ UNCHANGED <<cursor, pending, processed, done, dead, faults>>

(* Mutant of ClaimMarker: a suppressed duplicate is left pending. *)
LeaveDuplicate(c) ==
    /\ caller[c].at = "claim"
    /\ InTransaction(Event(c)) = {}
    /\ IF Event(c) \in processed
       THEN TurnToNext(c) /\ Release(c)
       ELSE Goto(c, "handle") /\ UNCHANGED active
    /\ UNCHANGED <<cursor, pending, processed, done, dead, faults>>

(***************************************************************************)
(* The marker is inserted first, and the insert waits for any transaction  *)
(* that has inserted the same.  A conflict is a duplicate, suppressed.     *)
(***************************************************************************)
ClaimMarker(c) ==
    /\ caller[c].at = "claim"
    /\ InTransaction(Event(c)) = {}
    /\ IF Event(c) \in processed
       THEN Goto(c, "ack") /\ Release(c)
       ELSE Goto(c, "handle") /\ UNCHANGED active
    /\ UNCHANGED <<cursor, pending, processed, done, dead, faults>>

(* A handler such as the credit release commits its effect by itself first. *)
HandleInOwnTransaction(c) ==
    /\ caller[c].at = "handle" /\ Event(c) \in OwnTransaction
    /\ done' = Append(done, Event(c))
    /\ Goto(c, "record")
    /\ UNCHANGED <<cursor, pending, active, processed, dead, faults>>

(* The marker commits, and with it the effects of every other handler. *)
MarkerCommits(c) ==
    /\ \/ caller[c].at = "record" /\ UNCHANGED done
       \/ /\ caller[c].at = "handle" /\ Event(c) \notin OwnTransaction
          /\ done' = Append(done, Event(c))
    /\ processed' = processed \cup {Event(c)}

Commit(c) ==
    /\ MarkerCommits(c)
    /\ Goto(c, "ack")
    /\ Release(c)
    /\ UNCHANGED <<cursor, pending, dead, faults>>

(* Mutant of Decide: the retry is acknowledged like any other outcome. *)
DecideAndAck(c, terminal) ==
    IF terminal \/ caller[c].attempt >= MaxAttempts
    THEN Goto(c, "quarantine") /\ UNCHANGED active
    ELSE Goto(c, "ack") /\ Release(c)

(***************************************************************************)
(* A failure is quarantined under the lease if it is terminal or the last  *)
(* attempt allowed; otherwise the lease is released and the entry stays    *)
(* pending.                                                                *)
(***************************************************************************)
Decide(c, terminal) ==
    IF terminal \/ caller[c].attempt >= MaxAttempts
    THEN Goto(c, "quarantine") /\ UNCHANGED active
    ELSE TurnToNext(c) /\ Release(c)

(***************************************************************************)
(* The handler throws a terminal or a transient code, and the transaction  *)
(* rolls back with the marker.                                             *)
(***************************************************************************)
HandlerThrows(c) ==
    /\ caller[c].at \in {"handle", "record"}
    /\ Fault("handler")
    /\ \E terminal \in BOOLEAN : Decide(c, terminal)
    /\ UNCHANGED <<cursor, pending, processed, done, dead>>

(* The commit happens and its answer is lost: a failure like any other. *)
CommitUnanswered(c) ==
    /\ MarkerCommits(c)
    /\ Fault("commit")
    /\ Decide(c, FALSE)
    /\ UNCHANGED <<cursor, pending, dead>>

(* The dead letter is durable before the barrier opens, with a gap. *)
Quarantine(c) ==
    /\ caller[c].at = "quarantine"
    /\ dead' = dead \cup {Event(c)}
    /\ Goto(c, "ack")
    /\ Release(c)
    /\ UNCHANGED <<cursor, pending, processed, done, faults>>

(***************************************************************************)
(* The quarantine throws, its row written or not.  Nothing catches it in   *)
(* dispatch or deliver, and the lease is not released.                     *)
(***************************************************************************)
QuarantineThrows(c) ==
    /\ caller[c].at = "quarantine"
    /\ Fault("quarantine")
    /\ dead' \in {dead, dead \cup {Event(c)}}
    /\ AbandonBatch(c)
    /\ UNCHANGED <<cursor, pending, active, processed, done>>

-----------------------------------------------------------------------------

Ack(c) ==
    /\ caller[c].at = "ack"
    /\ pending' = pending \ {Entry(c)}
    /\ TurnToNext(c)
    /\ UNCHANGED <<cursor, active, processed, done, dead, faults>>

(* XACK fails, though it may have been carried out. *)
AckThrows(c) ==
    /\ caller[c].at = "ack"
    /\ Fault("ack")
    /\ pending' \in {pending, pending \ {Entry(c)}}
    /\ AbandonBatch(c)
    /\ UNCHANGED <<cursor, active, processed, done, dead>>

(* A process dies; its transactions roll back and its barrier is forgotten. *)
Crash(p) ==
    /\ \E c \in Callers : ProcessOf[c] = p /\ caller[c] # Idle
    /\ Fault("crash")
    /\ caller' = [c \in Callers |-> IF ProcessOf[c] = p THEN Idle ELSE caller[c]]
    /\ active' = [active EXCEPT ![p] = {}]
    /\ UNCHANGED <<cursor, pending, processed, done, dead>>

Deliver(c) ==
    \/ Acquire(c) \/ ClaimMarker(c) \/ HandleInOwnTransaction(c) \/ Commit(c)
    \/ Quarantine(c) \/ Ack(c)

Next ==
    \/ \E c \in Callers :
          \/ Read(c) \/ ReadLost(c) \/ Deliver(c)
          \/ HandlerThrows(c) \/ CommitUnanswered(c) \/ QuarantineThrows(c) \/ AckThrows(c)
          \/ \E i \in Entries : Reclaim(c, i)
    \/ \E p \in Processes : Crash(p)

(***************************************************************************)
(* A loop reads for ever and finishes its batches.  Nothing is assumed of  *)
(* claimStalled: it is there and tested, and no composition root calls it. *)
(***************************************************************************)
Fairness ==
    /\ \A c \in Loops : WF_vars(Read(c))
    /\ \A c \in Callers : WF_vars(Deliver(c))

Spec == Init /\ [][Next]_vars /\ Fairness

(* A deployment that also gets round to every entry that stays pending. *)
SweptSpec == Spec /\ \A c \in Sweeps, i \in Entries : SF_vars(Reclaim(c, i))

-----------------------------------------------------------------------------

Locations == {"idle", "acquire", "claim", "handle", "record", "quarantine", "ack"}

(* Only entries that were handed out are pending or in a batch. *)
TypeOK ==
    /\ cursor \in 0..Len(Stream)
    /\ pending \subseteq 1..cursor
    /\ caller \in [Callers -> [at : Locations, todo : SUBSET (1..cursor), attempt : 0..2]]
    /\ \A c \in Callers : caller[c].todo = {} <=> caller[c] = Idle
    /\ active \in [Processes -> SUBSET {AggregateOf[e] : e \in Events}]
    /\ processed \subseteq Handled /\ dead \subseteq Handled
    /\ done \in Seq(Handled)
    /\ faults \in 0..MaxFaults

TimesDone(e) == Cardinality({n \in DOMAIN done : done[n] = e})

(***************************************************************************)
(* "The bus may deliver an event any number of times, and the guard        *)
(* ensures the effects happen once": a sweep may hand an entry out again   *)
(* at any time, and two processes may be at it at once.  A handler that    *)
(* commits by itself is outside the guard.                                 *)
(***************************************************************************)
EffectsOnce == \A e \in Events \ OwnTransaction : TimesDone(e) <= 1

(***************************************************************************)
(* "Acking a retryable event is how events are lost": an entry that has    *)
(* left the pending list was handled or is a dead letter, unless nobody    *)
(* handles its type.                                                       *)
(***************************************************************************)
AckedIsAccountedFor ==
    \A i \in (1..cursor) \ pending :
        Stream[i] \in Handled => TimesDone(Stream[i]) > 0 \/ Stream[i] \in dead

(* Callers the barrier has let through. *)
Inside == {c \in Callers : caller[c].at \in {"claim", "handle", "record", "quarantine"}}

(***************************************************************************)
(* "Two events for the same aggregate are never handled concurrently", in  *)
(* the single process per group the barrier is meant for.                  *)
(***************************************************************************)
OneAtATime ==
    \A c, d \in Inside :
        (c # d /\ ProcessOf[c] = ProcessOf[d]) => Aggregate(c) # Aggregate(d)

(* Aggregates leased in process p with nobody inside. *)
Stuck(p) == active[p] \ {Aggregate(c) : c \in {d \in Inside : ProcessOf[d] = p}}

(* A caller with entry i in hand finds its aggregate leased in its process, *)
(* to a caller at another entry or, since a quarantine failed, to nobody.   *)
BarredFrom(i) ==
    \E c \in Callers :
        /\ i \in caller[c].todo
        /\ \/ AggregateOf[Stream[i]] \in Stuck(ProcessOf[c])
           \/ \E d \in Inside \ {c} :
                 /\ ProcessOf[d] = ProcessOf[c]
                 /\ Entry(d) # i /\ Aggregate(d) = AggregateOf[Stream[i]]

(***************************************************************************)
(* An entry in hand is acknowledged in the end, if nothing fails from then *)
(* on and the barrier lets it through: no delivery hangs, not on a marker  *)
(* another transaction has inserted either, and none is given up.  Of an   *)
(* entry a failure or the barrier has left pending nothing is claimed: it  *)
(* comes again only if something calls claimStalled.                       *)
(***************************************************************************)
EveryEntryIsFinished ==
    \A i \in Entries, n \in 0..MaxFaults :
        (faults = n /\ \E c \in Callers : i \in caller[c].todo) ~>
            (i \notin pending \/ faults > n \/ BarredFrom(i))

(***************************************************************************)
(* A dead letter releases the barrier with a recorded gap, for otherwise   *)
(* one failed event would be an indefinitely stuck aggregate: where        *)
(* stalled entries are claimed again and again (SweptSpec), the pending    *)
(* list empties without exception.                                         *)
(***************************************************************************)
NoAggregateIsStuck == <>[](pending = {})
=============================================================================
