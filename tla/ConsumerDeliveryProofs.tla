----------------------- MODULE ConsumerDeliveryProofs -----------------------
(***************************************************************************)
(* Proofs about ConsumerDelivery, for any stream, handlers, processes,     *)
(* loops, sweeps, batch size, attempts and failures.                       *)
(*                                                                         *)
(* The inductive invariant is Safe: whoever is past the barrier holds the  *)
(* lease (Barrier), an open transaction is the only one of its event and   *)
(* its marker is not there (Transactions), markers and effects go together *)
(* (Effects), and what is acknowledged is accounted for (Accounted).       *)
(***************************************************************************)
EXTENDS ConsumerDelivery, WellFoundedInduction, FiniteSetTheorems, TLAPS

Caller == [at : Locations, todo : SUBSET (1..cursor), attempt : 0..2]

Shape ==
    /\ cursor \in 0..Len(Stream)
    /\ pending \subseteq 1..cursor
    /\ caller \in [Callers -> Caller]
    /\ \A c \in Callers : /\ caller[c].todo = {} <=> caller[c] = Idle
                          /\ caller[c].at # "idle" => caller[c].todo # {}
    /\ active \in [Processes -> SUBSET {AggregateOf[e] : e \in Events}]
    /\ processed \subseteq Handled /\ dead \subseteq Handled
    /\ done \in Seq(Handled)
    /\ faults \in 0..MaxFaults

InsideLocations == {"claim", "handle", "record", "quarantine"}

(* Whoever the barrier let through holds the lease on its aggregate, alone. *)
Barrier ==
    /\ \A c \in Callers : caller[c].at \in InsideLocations =>
          Event(c) \in Handled /\ Aggregate(c) \in active[ProcessOf[c]]
    /\ \A c, d \in Callers :
          (/\ caller[c].at \in InsideLocations /\ caller[d].at \in InsideLocations
           /\ c # d /\ ProcessOf[c] = ProcessOf[d]) => Aggregate(c) # Aggregate(d)

InTx(c) == caller[c].at \in {"handle", "record"}

(* An open transaction has inserted a marker nobody else has. *)
Transactions ==
    \A c \in Callers : InTx(c) =>
        /\ Event(c) \notin processed
        /\ \A d \in Callers : (InTx(d) /\ Event(d) = Event(c)) => d = c

Done(e) == \E n \in DOMAIN done : done[n] = e

(* An event is marked when its effect commits, and has one effect. *)
Effects ==
    /\ \A e \in processed : Done(e)
    /\ \A n \in DOMAIN done : done[n] \notin OwnTransaction =>
          /\ done[n] \in processed
          /\ \A m \in DOMAIN done : done[m] = done[n] => m = n
    /\ \A c \in Callers : caller[c].at = "record" =>
          Event(c) \in OwnTransaction /\ Done(Event(c))

(* What is acknowledged, or about to be, is done or a dead letter. *)
Accounted ==
    /\ \A c \in Callers : (caller[c].at = "ack" /\ Event(c) \in Handled) =>
          Done(Event(c)) \/ Event(c) \in dead
    /\ \A i \in (1..cursor) \ pending : Stream[i] \in Handled =>
          Done(Stream[i]) \/ Stream[i] \in dead

Safe == Shape /\ Barrier /\ Transactions /\ Effects /\ Accounted

-----------------------------------------------------------------------------
(* Batches. *)

LEMMA LeastOf ==
    ASSUME NEW T \in SUBSET Nat, T # {}
    PROVE  \E i \in T : \A j \in T : i <= j
<1>1. PICK i \in T : \A j \in T : ~(<<j, i>> \in OpToRel(<, Nat))
    BY WFMin, NatLessThanWellFounded
<1>2. \A j \in T : ~(j < i)
    BY <1>1 DEF OpToRel
<1> QED BY <1>2

(* A caller with a batch is at one of its entries, which is an event's. *)
LEMMA AtAnEntry ==
    ASSUME Shape, NEW c \in Callers, caller[c].todo # {}
    PROVE  /\ Entry(c) \in caller[c].todo /\ Entry(c) \in 1..cursor
           /\ Event(c) = Stream[Entry(c)] /\ Event(c) \in Events
<1>1. caller[c].todo \subseteq 1..cursor /\ cursor \in Nat /\ cursor <= Len(Stream)
    BY StreamAssumption DEF Shape, Caller
<1>2. \E i \in caller[c].todo : \A j \in caller[c].todo : i <= j
    BY <1>1, LeastOf
<1>3. Entry(c) \in caller[c].todo
    BY <1>2 DEF Entry
<1> QED BY <1>1, <1>3, StreamAssumption DEF Event

(* How c goes on, with the others left where they are. *)
LEMMA Going ==
    ASSUME Shape, NEW c \in Callers, NEW s \in Locations \ {"idle"}, Goto(c, s),
           caller[c].at # "idle"
    PROVE  /\ caller' \in [Callers -> Caller]
           /\ caller'[c].at = s /\ caller'[c].todo = caller[c].todo
           /\ caller'[c].attempt = caller[c].attempt /\ caller'[c] # Idle
           /\ Event(c)' = Event(c) /\ Entry(c)' = Entry(c)
           /\ \A d \in Callers \ {c} : caller'[d] = caller[d]
           /\ \A d \in Callers : Event(d)' = Event(d)
<1>1. /\ caller' \in [Callers -> Caller]
      /\ caller'[c].at = s /\ caller'[c].todo = caller[c].todo
      /\ caller'[c].attempt = caller[c].attempt
      /\ \A d \in Callers \ {c} : caller'[d] = caller[d]
    BY DEF Shape, Caller, Goto, Locations
<1>2. caller'[c] # Idle
    BY <1>1 DEF Idle
<1>3. \A d \in Callers : caller'[d].todo = caller[d].todo
    BY <1>1
<1> QED BY <1>1, <1>2, <1>3 DEF Event, Entry

LEMMA Turning ==
    ASSUME Shape, NEW c \in Callers, TurnToNext(c) \/ AbandonBatch(c)
    PROVE  /\ caller' \in [Callers -> Caller]
           /\ caller'[c].at \in {"idle", "acquire"}
           /\ caller'[c].todo = {} <=> caller'[c] = Idle
           /\ caller'[c].at # "idle" => caller'[c].todo # {}
           /\ \A d \in Callers \ {c} : caller'[d] = caller[d]
           /\ \A d \in Callers \ {c} : Event(d)' = Event(d)
<1> DEFINE rest == caller[c].todo \ {Entry(c)}
           y == [caller[c] EXCEPT !.at = "acquire", !.todo = rest]
<1>1. caller[c] \in Caller /\ caller \in [Callers -> Caller]
    BY DEF Shape
<1>2. y \in Caller /\ y.at = "acquire" /\ y.todo = rest
    BY <1>1 DEF Caller, Locations
<1>3. Idle \in Caller /\ Idle.at = "idle" /\ Idle.todo = {}
    BY DEF Idle, Caller, Locations
<1>4. \/ caller' = [caller EXCEPT ![c] = Idle]
      \/ caller' = [caller EXCEPT ![c] = y] /\ rest # {}
    BY DEF TurnToNext, AbandonBatch
<1> HIDE DEF rest, y
<1>5. /\ caller' \in [Callers -> Caller]
      /\ caller'[c].at \in {"idle", "acquire"}
      /\ caller'[c].todo = {} <=> caller'[c] = Idle
      /\ caller'[c].at # "idle" => caller'[c].todo # {}
      /\ \A d \in Callers \ {c} : caller'[d] = caller[d]
    <2>1. CASE caller' = [caller EXCEPT ![c] = Idle]
        BY <1>1, <1>3, <2>1
    <2>2. CASE caller' = [caller EXCEPT ![c] = y] /\ rest # {}
        BY <1>1, <1>2, <1>3, <2>2
    <2> QED BY <1>4, <2>1, <2>2
<1> QED BY <1>5 DEF Event, Entry

-----------------------------------------------------------------------------
(* What a step of c does to each part of Safe.                             *)

Others(c) == \A d \in Callers \ {c} : caller'[d] = caller[d] /\ Event(d)' = Event(d)

LEMMA ProcessOfCaller ==
    ASSUME Shape, NEW c \in Callers
    PROVE  ProcessOf[c] \in Processes /\ active \in [Processes -> SUBSET {AggregateOf[e] : e \in Events}]
BY DEF Shape, Processes

(* c is not past the barrier, and opens it at most by leaving. *)
LEMMA BarrierLeft ==
    ASSUME Shape, Barrier, NEW c \in Callers, Others(c), caller'[c].at \notin InsideLocations,
           UNCHANGED active \/ (caller[c].at \in InsideLocations /\ Release(c))
    PROVE  Barrier' /\ active' \in [Processes -> SUBSET {AggregateOf[e] : e \in Events}]
<1>1. ASSUME NEW d \in Callers, caller'[d].at \in InsideLocations
      PROVE  /\ d # c /\ caller[d].at \in InsideLocations /\ Event(d)' = Event(d)
             /\ Event(d) \in Handled /\ Aggregate(d) \in active[ProcessOf[d]]
             /\ Aggregate(d)' = Aggregate(d)
    BY <1>1 DEF Others, Barrier, Aggregate
<1>2. active' \in [Processes -> SUBSET {AggregateOf[e] : e \in Events}]
    BY ProcessOfCaller DEF Release
<1>3. ASSUME NEW d \in Callers, caller'[d].at \in InsideLocations
      PROVE  Aggregate(d) \in active'[ProcessOf[d]]
    <2>1. CASE UNCHANGED active
        BY <1>1, <1>3, <2>1
    <2>2. CASE caller[c].at \in InsideLocations /\ Release(c)
        <3>1. ProcessOf[d] = ProcessOf[c] => Aggregate(d) # Aggregate(c)
            BY <1>1, <1>3, <2>2 DEF Barrier
        <3> QED BY <1>1, <1>3, <2>2, <3>1, ProcessOfCaller DEF Release
    <2> QED BY <2>1, <2>2
<1>4. \A d, f \in Callers :
          (/\ caller'[d].at \in InsideLocations /\ caller'[f].at \in InsideLocations
           /\ d # f /\ ProcessOf[d] = ProcessOf[f]) => Aggregate(d)' # Aggregate(f)'
    BY <1>1 DEF Barrier
<1> QED BY <1>1, <1>2, <1>3, <1>4 DEF Barrier

(* c goes on past the barrier. *)
LEMMA BarrierStays ==
    ASSUME Barrier, NEW c \in Callers, Others(c), Event(c)' = Event(c),
           caller[c].at \in InsideLocations, UNCHANGED active
    PROVE  Barrier'
<1>1. \A d \in Callers : /\ caller'[d].at \in InsideLocations => caller[d].at \in InsideLocations
                         /\ Event(d)' = Event(d) /\ Aggregate(d)' = Aggregate(d)
    BY DEF Others, Aggregate
<1> QED BY <1>1 DEF Barrier

(* c is let through, and takes the lease nobody has. *)
LEMMA BarrierEntered ==
    ASSUME Shape, Barrier, NEW c \in Callers, Others(c), Event(c)' = Event(c),
           Event(c) \in Handled, Aggregate(c) \notin active[ProcessOf[c]],
           active' = [active EXCEPT ![ProcessOf[c]] = @ \cup {Aggregate(c)}]
    PROVE  Barrier'
<1>1. \A d \in Callers : Event(d)' = Event(d) /\ Aggregate(d)' = Aggregate(d)
    BY DEF Others, Aggregate
<1>2. /\ \A d \in Callers : active[ProcessOf[d]] \subseteq active'[ProcessOf[d]]
      /\ Aggregate(c) \in active'[ProcessOf[c]]
    BY ProcessOfCaller
<1>3. \A d \in Callers \ {c} : caller'[d] = caller[d]
    BY DEF Others
<1>4. \A d \in Callers : caller'[d].at \in InsideLocations =>
          Event(d) \in Handled /\ Aggregate(d) \in active'[ProcessOf[d]]
    BY <1>2, <1>3 DEF Barrier
<1>5. \A d \in Callers \ {c} :
          (caller[d].at \in InsideLocations /\ ProcessOf[d] = ProcessOf[c]) => Aggregate(d) # Aggregate(c)
    BY DEF Barrier
<1>6. \A d, f \in Callers :
          (/\ caller'[d].at \in InsideLocations /\ caller'[f].at \in InsideLocations
           /\ d # f /\ ProcessOf[d] = ProcessOf[f]) => Aggregate(d) # Aggregate(f)
    BY <1>3, <1>5 DEF Barrier
<1> QED BY <1>1, <1>4, <1>6 DEF Barrier

(* c is in no transaction, or ends the one it is in, with its marker or not. *)
LEMMA TransactionEnds ==
    ASSUME Transactions, NEW c \in Callers, Others(c), ~InTx(c)',
           processed' = processed \/ (InTx(c) /\ processed' = processed \cup {Event(c)})
    PROVE  Transactions'
<1>1. ASSUME NEW d \in Callers, InTx(d)'
      PROVE  d # c /\ InTx(d) /\ Event(d)' = Event(d)
    BY <1>1 DEF Others, InTx
<1>2. ASSUME NEW d \in Callers, InTx(d)'
      PROVE  Event(d) \notin processed'
    BY <1>1, <1>2 DEF Transactions
<1> QED BY <1>1, <1>2 DEF Transactions

(* c's transaction begins where no other is, or goes on. *)
LEMMA TransactionRuns ==
    ASSUME Transactions, NEW c \in Callers, Others(c), Event(c)' = Event(c), UNCHANGED processed,
           InTx(c) \/ (Event(c) \notin processed /\ \A d \in Callers : InTx(d) => Event(d) # Event(c))
    PROVE  Transactions'
<1>1. \A d \in Callers : Event(d)' = Event(d) /\ (InTx(d)' => InTx(d) \/ d = c)
    BY DEF Others, InTx
<1> QED BY <1>1 DEF Transactions

LEMMA Appending ==
    ASSUME NEW e \in Handled, done \in Seq(Handled), done' = Append(done, e)
    PROVE  /\ done' \in Seq(Handled) /\ Len(done) \in Nat
           /\ DOMAIN done = 1..Len(done) /\ DOMAIN done' = 1..Len(done) + 1
           /\ \A n \in DOMAIN done : done'[n] = done[n]
           /\ done'[Len(done) + 1] = e
OBVIOUS

(* An effect is never undone. *)
LEMMA DoneGrows ==
    ASSUME done \in Seq(Handled), UNCHANGED done \/ \E e \in Handled : done' = Append(done, e)
    PROVE  /\ \A f : Done(f) => Done(f)'
           /\ done' \in Seq(Handled)
<1>1. CASE UNCHANGED done
    BY <1>1 DEF Done
<1>2. ASSUME NEW e \in Handled, done' = Append(done, e)
      PROVE  done' \in Seq(Handled) /\ \A f : Done(f) => Done(f)'
    <2>1. /\ DOMAIN done \subseteq DOMAIN done' /\ done' \in Seq(Handled)
          /\ \A n \in DOMAIN done : done'[n] = done[n]
        BY <1>2, Appending
    <2> QED BY <2>1 DEF Done
<1> QED BY <1>1, <1>2

(* No effect and no marker is added; c records no effect it does not have. *)
LEMMA EffectsKept ==
    ASSUME Effects, NEW c \in Callers, Others(c), UNCHANGED <<done, processed>>,
           caller'[c].at # "record"
    PROVE  Effects'
<1>1. \A e : Done(e)' = Done(e)
    BY DEF Done
<1>2. \A d \in Callers : caller'[d].at = "record" =>
          caller[d].at = "record" /\ Event(d)' = Event(d)
    BY DEF Others
<1> QED BY <1>1, <1>2 DEF Effects

(* The marker commits, with the effect it is about. *)
LEMMA EffectsMarked ==
    ASSUME Shape, Transactions, Effects, NEW c \in Callers, Others(c),
           caller'[c].at # "record", MarkerCommits(c), NEW e \in Handled, e = Event(c)
    PROVE  Effects' /\ Done(e)'
<1>1. done \in Seq(Handled) /\ processed' = processed \cup {e}
    BY DEF Shape, MarkerCommits
<1>2. /\ done' \in Seq(Handled) /\ \A f : Done(f) => Done(f)'
    BY <1>1, DoneGrows DEF MarkerCommits
<1>3. Done(e)' /\ (\A n \in DOMAIN done' : done'[n] \notin OwnTransaction =>
          /\ done'[n] \in processed'
          /\ \A m \in DOMAIN done' : done'[m] = done'[n] => m = n)
    <2>1. CASE caller[c].at = "record" /\ UNCHANGED done
        BY <1>1, <1>2, <2>1 DEF Effects
    <2>2. CASE /\ caller[c].at = "handle" /\ e \notin OwnTransaction
               /\ done' = Append(done, e)
        <3>1. /\ DOMAIN done = 1..Len(done) /\ Len(done) \in Nat /\ DOMAIN done' = 1..Len(done) + 1
              /\ \A n \in DOMAIN done : done'[n] = done[n]
              /\ done'[Len(done) + 1] = e
            BY <1>1, <2>2, Appending
        <3>2. \A n \in DOMAIN done : done[n] # e
            BY <2>2 DEF Effects, Transactions, InTx
        <3>3. Done(e)'
            BY <3>1 DEF Done
        <3>4. ASSUME NEW n \in DOMAIN done', done'[n] \notin OwnTransaction
              PROVE  done'[n] \in processed'
            BY <1>1, <3>1, <3>4 DEF Effects
        <3>5. ASSUME NEW n \in DOMAIN done', NEW m \in DOMAIN done',
                     done'[n] \notin OwnTransaction, done'[m] = done'[n]
              PROVE  m = n
            <4>1. CASE n \in DOMAIN done /\ m \in DOMAIN done
                BY <3>1, <3>5, <4>1 DEF Effects
            <4>2. CASE n \notin DOMAIN done \/ m \notin DOMAIN done
                BY <3>1, <3>2, <3>5, <4>2
            <4> QED BY <4>1, <4>2
        <3> QED BY <3>3, <3>4, <3>5
    <2> QED BY <2>1, <2>2 DEF MarkerCommits
<1>4. \A f \in processed' : Done(f)'
    BY <1>1, <1>2, <1>3 DEF Effects
<1>5. ASSUME NEW d \in Callers, caller'[d].at = "record"
      PROVE  Event(d)' \in OwnTransaction /\ Done(Event(d))'
    <2>1. caller[d].at = "record" /\ Event(d)' = Event(d)
        BY <1>5 DEF Others
    <2>2. Event(d) \in OwnTransaction /\ Done(Event(d))
        BY <2>1 DEF Effects
    <2>3. PICK n \in DOMAIN done : done[n] = Event(d)
        BY <2>2 DEF Done
    <2>4. n \in DOMAIN done' /\ done'[n] = done[n]
        BY <1>1, <2>3, Appending DEF MarkerCommits
    <2> QED BY <2>1, <2>2, <2>3, <2>4 DEF Done
<1> QED BY <1>3, <1>4, <1>5 DEF Effects

(* A handler of its own transaction commits its effect before the marker. *)
LEMMA EffectsAhead ==
    ASSUME Shape, Effects, NEW c \in Callers, Others(c), Event(c)' = Event(c),
           Event(c) \in OwnTransaction, done' = Append(done, Event(c)), UNCHANGED processed
    PROVE  Effects'
<1>1. Event(c) \in Handled /\ done \in Seq(Handled)
    BY SetsAssumption DEF Shape
<1>2. /\ DOMAIN done = 1..Len(done) /\ Len(done) \in Nat /\ DOMAIN done' = 1..Len(done) + 1
      /\ \A n \in DOMAIN done : done'[n] = done[n]
      /\ done'[Len(done) + 1] = Event(c)
    BY <1>1, Appending
<1>3. \A e \in processed' : Done(e)'
    BY <1>2 DEF Effects, Done
<1>4. \A n \in DOMAIN done' : done'[n] \notin OwnTransaction =>
          n \in DOMAIN done /\ done'[n] = done[n]
    BY <1>2
<1>5. \A n \in DOMAIN done' : done'[n] \notin OwnTransaction =>
          /\ done'[n] \in processed'
          /\ \A m \in DOMAIN done' : done'[m] = done'[n] => m = n
    BY <1>4 DEF Effects
<1>6. ASSUME NEW d \in Callers, caller'[d].at = "record"
      PROVE  Event(d)' \in OwnTransaction /\ Done(Event(d))'
    <2>1. CASE d = c
        <3>1. Len(done) + 1 \in DOMAIN done'
            BY <1>2
        <3>2. Event(d)' = Event(c)
            BY <2>1
        <3> QED BY <1>2, <3>1, <3>2 DEF Done
    <2>2. CASE d # c
        <3>1. caller[d].at = "record" /\ Event(d)' = Event(d)
            BY <1>6, <2>2 DEF Others
        <3>2. Event(d) \in OwnTransaction /\ \E n \in DOMAIN done : done[n] = Event(d)
            BY <3>1 DEF Effects, Done
        <3> QED BY <1>2, <3>1, <3>2 DEF Done
    <2> QED BY <2>1, <2>2
<1> QED BY <1>3, <1>5, <1>6 DEF Effects

(* c is at its acknowledgement only when its event is accounted for, and only *)
(* accounted entries leave the pending list.                                  *)
LEMMA AccountedKept ==
    ASSUME Accounted, NEW c \in Callers, Others(c),
           \A f : Done(f) => Done(f)', dead \subseteq dead',
           (caller'[c].at = "ack" /\ Event(c)' \in Handled) =>
               (Done(Event(c)) \/ Event(c) \in dead)',
           \A i \in (1..cursor') \ pending' :
               Stream[i] \in Handled =>
                   i \in (1..cursor) \ pending \/ (Done(Stream[i]) \/ Stream[i] \in dead)'
    PROVE  Accounted'
<1>1. ASSUME NEW d \in Callers, caller'[d].at = "ack", Event(d)' \in Handled
      PROVE  Done(Event(d))' \/ Event(d)' \in dead'
    <2>1. CASE d = c
        BY <1>1, <2>1
    <2>2. CASE d # c
        <3>1. caller[d].at = "ack" /\ Event(d)' = Event(d)
            BY <1>1, <2>2 DEF Others
        <3>2. Done(Event(d)) \/ Event(d) \in dead
            BY <1>1, <3>1 DEF Accounted
        <3>3. CASE Event(d) \in dead
            BY <3>1, <3>3
        <3>4. CASE Done(Event(d))
            <4>1. PICK f : f = Event(d)
                OBVIOUS
            <4>2. Done(f)' /\ Event(d)' = f
                BY <3>1, <3>4, <4>1
            <4> QED BY <4>2 DEF Done
        <3> QED BY <3>2, <3>3, <3>4
    <2> QED BY <2>1, <2>2
<1>2. ASSUME NEW i \in (1..cursor') \ pending', Stream[i] \in Handled
      PROVE  Done(Stream[i])' \/ Stream[i] \in dead'
    BY <1>2 DEF Accounted
<1> QED BY <1>1, <1>2 DEF Accounted

LEMMA ShapeKept ==
    ASSUME Shape, NEW c \in Callers, Others(c), UNCHANGED cursor,
           caller' \in [Callers -> Caller],
           caller'[c].todo = {} <=> caller'[c] = Idle,
           caller'[c].at # "idle" => caller'[c].todo # {},
           pending' \subseteq pending,
           active' \in [Processes -> SUBSET {AggregateOf[e] : e \in Events}],
           processed' \subseteq Handled, dead' \subseteq Handled, done' \in Seq(Handled),
           faults' \in 0..MaxFaults
    PROVE  Shape'
<1>1. \A d \in Callers : /\ caller'[d].todo = {} <=> caller'[d] = Idle
                         /\ caller'[d].at # "idle" => caller'[d].todo # {}
    BY DEF Shape, Others
<1>2. caller' \in [Callers -> Caller'] /\ pending' \subseteq 1..cursor'
    BY DEF Caller, Shape
<1> QED BY <1>1, <1>2 DEF Shape

LEMMA FaultCounts ==
    ASSUME Shape, NEW k, Fault(k)
    PROVE  faults' \in 0..MaxFaults
BY BoundsAssumption DEF Shape, Fault

-----------------------------------------------------------------------------
(* Each kind of step. *)

LEMMA SafeInit == Init => Safe
<1> SUFFICES ASSUME Init PROVE Safe
    OBVIOUS
<1>1. \A c \in Callers : caller[c] = Idle /\ caller[c].at = "idle" /\ caller[c].todo = {}
    BY DEF Init, Idle
<1>2. Idle \in Caller
    BY DEF Idle, Caller, Locations
<1>3. Len(Stream) \in Nat
    BY StreamAssumption
<1>4. Shape
    BY <1>1, <1>2, <1>3, BoundsAssumption DEF Init, Shape
<1>5. Barrier /\ Transactions
    BY <1>1 DEF Barrier, Transactions, InTx, InsideLocations
<1>6. Effects
    BY <1>1 DEF Effects, Init
<1>7. Accounted
    BY <1>1, <1>3 DEF Accounted, Init
<1> QED BY <1>4, <1>5, <1>6, <1>7 DEF Safe

(* An idle caller takes up entries, or they are handed out to nobody. *)
LEMMA TakeSafe ==
    ASSUME Safe, NEW c \in Callers, caller[c].at = "idle",
           UNCHANGED <<active, processed, done, dead>>, faults' \in 0..MaxFaults,
           cursor' \in 0..Len(Stream), cursor <= cursor',
           pending' = pending \cup (cursor + 1 .. cursor'),
           \/ UNCHANGED caller
           \/ \E T \in SUBSET (1..cursor') : \E n \in 1..2 :
                 T # {} /\ caller' = [caller EXCEPT ![c] = [at |-> "acquire", todo |-> T, attempt |-> n]]
    PROVE  Safe'
<1> USE DEF Safe
<1>0. cursor \in Nat /\ cursor' \in Nat /\ pending \subseteq 1..cursor
    BY StreamAssumption DEF Shape
<1>1. caller \in [Callers -> Caller'] /\ caller \in [Callers -> Caller]
    BY <1>0 DEF Shape, Caller
<1>2. /\ caller' \in [Callers -> Caller']
      /\ caller'[c].todo = {} <=> caller'[c] = Idle
      /\ caller'[c].at \in {"idle", "acquire"}
      /\ caller'[c].at # "idle" => caller'[c].todo # {}
      /\ \A d \in Callers \ {c} : caller'[d] = caller[d]
    <2>1. CASE UNCHANGED caller
        BY <1>1, <2>1 DEF Shape
    <2>2. ASSUME NEW T \in SUBSET (1..cursor'), NEW n \in 1..2, T # {},
                 caller' = [caller EXCEPT ![c] = [at |-> "acquire", todo |-> T, attempt |-> n]]
          PROVE  /\ caller' \in [Callers -> Caller']
                 /\ caller'[c].at = "acquire" /\ caller'[c].todo = T
                 /\ \A d \in Callers \ {c} : caller'[d] = caller[d]
        <3> DEFINE x == [at |-> "acquire", todo |-> T, attempt |-> n]
        <3>1. x \in Caller' /\ x.at = "acquire" /\ x.todo = T
            BY DEF Caller, Locations
        <3>2. caller' = [caller EXCEPT ![c] = x]
            BY <2>2
        <3> HIDE DEF x
        <3> QED BY <1>1, <3>1, <3>2
    <2> QED BY <2>1, <2>2 DEF Idle
<1>3. Others(c)
    BY <1>2 DEF Others, Event, Entry
<1>4. Shape'
    <2>1. \A d \in Callers : /\ caller'[d].todo = {} <=> caller'[d] = Idle
                             /\ caller'[d].at # "idle" => caller'[d].todo # {}
        BY <1>2 DEF Shape
    <2>2. pending' \subseteq 1..cursor'
        BY <1>0
    <2> QED BY <1>2, <2>1, <2>2 DEF Shape
<1>5. Barrier'
    BY <1>2, <1>3, BarrierLeft DEF InsideLocations
<1>6. Transactions'
    BY <1>2, <1>3, TransactionEnds DEF InTx
<1>7. Effects'
    BY <1>2, <1>3, EffectsKept
<1>8. Accounted'
    <2>1. \A i \in (1..cursor') \ pending' : i \in (1..cursor) \ pending
        BY <1>0
    <2>2. \A f : Done(f) => Done(f)'
        BY DEF Done
    <2> QED BY <1>2, <1>3, <2>1, <2>2, AccountedKept
<1> QED BY <1>4, <1>5, <1>6, <1>7, <1>8

(* c leaves its entry pending, its transaction rolled back or never begun. *)
LEMMA LeaveSafe ==
    ASSUME Safe, NEW c \in Callers, caller[c].at # "idle", TurnToNext(c) \/ AbandonBatch(c),
           UNCHANGED active \/ (caller[c].at \in InsideLocations /\ Release(c)),
           UNCHANGED <<cursor, pending, processed, done>>, dead \subseteq dead', dead' \subseteq Handled,
           faults' \in 0..MaxFaults
    PROVE  Safe'
<1> USE DEF Safe
<1>1. /\ caller' \in [Callers -> Caller] /\ caller'[c].at \in {"idle", "acquire"}
      /\ caller'[c].todo = {} <=> caller'[c] = Idle
      /\ caller'[c].at # "idle" => caller'[c].todo # {}
      /\ Others(c)
    BY Turning DEF Others
<1>2. Barrier' /\ active' \in [Processes -> SUBSET {AggregateOf[e] : e \in Events}]
    BY <1>1, BarrierLeft DEF InsideLocations
<1>3. Shape'
    BY <1>1, <1>2, ShapeKept DEF Shape
<1>4. Transactions'
    BY <1>1, TransactionEnds DEF InTx
<1>5. Effects'
    BY <1>1, EffectsKept
<1>6. \A f : Done(f) => Done(f)'
    BY DEF Done
<1>7. Accounted'
    BY <1>1, <1>6, AccountedKept
<1> QED BY <1>2, <1>3, <1>4, <1>5, <1>7

LEMMA GoingOn ==
    ASSUME Shape, NEW c \in Callers, NEW s \in Locations \ {"idle"}, Goto(c, s),
           caller[c].at # "idle"
    PROVE  /\ caller' \in [Callers -> Caller] /\ caller'[c].at = s
           /\ caller'[c].todo = {} <=> caller'[c] = Idle
           /\ caller'[c].at # "idle" => caller'[c].todo # {}
           /\ Others(c) /\ Event(c)' = Event(c)
BY Going DEF Others, Shape

LEMMA AcquireSafe ==
    ASSUME Safe, NEW c \in Callers, Acquire(c)
    PROVE  Safe'
<1> USE DEF Safe
<1>1. /\ caller[c].at = "acquire" /\ UNCHANGED <<cursor, pending, processed, done, dead, faults>>
      /\ faults' \in 0..MaxFaults /\ dead' \subseteq Handled
    BY DEF Acquire, Shape
<1>2. CASE TurnToNext(c) /\ UNCHANGED active
    BY <1>1, <1>2, LeaveSafe
<1>3. CASE \/ Event(c) \notin Handled /\ Goto(c, "ack") /\ UNCHANGED active
           \/ /\ Event(c) \in Handled /\ Aggregate(c) \notin active[ProcessOf[c]] /\ Goto(c, "claim")
              /\ active' = [active EXCEPT ![ProcessOf[c]] = @ \cup {Aggregate(c)}]
    <2>1. PICK s \in {"ack", "claim"} : Goto(c, s)
        BY <1>3
    <2>2. /\ caller' \in [Callers -> Caller] /\ caller'[c].at = s
          /\ caller'[c].todo = {} <=> caller'[c] = Idle
          /\ caller'[c].at # "idle" => caller'[c].todo # {}
          /\ Others(c) /\ Event(c)' = Event(c)
        BY <1>1, <2>1, GoingOn DEF Locations
    <2>3. Aggregate(c) \in {AggregateOf[e] : e \in Events}
        <3>1. caller[c].todo # {}
            BY <1>1 DEF Shape
        <3> QED BY <3>1, AtAnEntry DEF Aggregate
    <2>4. active' \in [Processes -> SUBSET {AggregateOf[e] : e \in Events}]
        BY <1>3, <2>3, ProcessOfCaller
    <2>5. Shape'
        BY <1>1, <2>2, <2>4, ShapeKept DEF Shape
    <2>6. Barrier'
        <3>1. CASE Event(c) \notin Handled /\ Goto(c, "ack") /\ UNCHANGED active
            <4>1. caller'[c].at = "ack"
                BY <1>1, <3>1, GoingOn DEF Locations
            <4> QED BY <2>2, <3>1, <4>1, BarrierLeft DEF InsideLocations
        <3>2. CASE /\ Event(c) \in Handled /\ Aggregate(c) \notin active[ProcessOf[c]]
                   /\ active' = [active EXCEPT ![ProcessOf[c]] = @ \cup {Aggregate(c)}]
            BY <2>2, <3>2, BarrierEntered
        <3> QED BY <1>3, <3>1, <3>2
    <2>7. Transactions'
        BY <1>1, <2>2, TransactionEnds DEF InTx
    <2>8. Effects'
        BY <1>1, <2>2, EffectsKept
    <2>9. Accounted'
        <3>1. caller'[c].at = "ack" => Event(c) \notin Handled
            <4>1. CASE Goto(c, "ack") /\ Event(c) \notin Handled
                BY <4>1
            <4>2. CASE Goto(c, "claim")
                BY <1>1, <4>2, GoingOn DEF Locations
            <4> QED BY <1>3, <4>1, <4>2
        <3>2. \A f : Done(f) => Done(f)'
            BY <1>1 DEF Done
        <3> QED BY <1>1, <2>2, <3>1, <3>2, AccountedKept
    <2> QED BY <2>5, <2>6, <2>7, <2>8, <2>9
<1> QED BY <1>2, <1>3 DEF Acquire

(* The marker's insert: a duplicate is suppressed, for it was handled. *)
LEMMA ClaimMarkerSafe ==
    ASSUME Safe, NEW c \in Callers, ClaimMarker(c)
    PROVE  Safe'
<1> USE DEF Safe
<1>1. /\ caller[c].at = "claim" /\ UNCHANGED <<cursor, pending, processed, done, dead, faults>>
      /\ InTransaction(Event(c)) = {} /\ faults' \in 0..MaxFaults
    BY DEF ClaimMarker, Shape
<1>2. PICK s \in {"ack", "handle"} :
          /\ Goto(c, s)
          /\ s = "ack" => Event(c) \in processed /\ Release(c)
          /\ s = "handle" => Event(c) \notin processed /\ UNCHANGED active
    BY DEF ClaimMarker
<1>3. /\ caller' \in [Callers -> Caller] /\ caller'[c].at = s
      /\ caller'[c].todo = {} <=> caller'[c] = Idle
      /\ caller'[c].at # "idle" => caller'[c].todo # {}
      /\ Others(c) /\ Event(c)' = Event(c)
    BY <1>1, <1>2, GoingOn DEF Locations
<1>4. Barrier' /\ active' \in [Processes -> SUBSET {AggregateOf[e] : e \in Events}]
    <2>1. CASE s = "ack"
        BY <1>1, <1>2, <1>3, <2>1, BarrierLeft DEF InsideLocations
    <2>2. CASE s = "handle"
        BY <1>1, <1>2, <1>3, <2>2, BarrierStays, ProcessOfCaller DEF InsideLocations
    <2> QED BY <2>1, <2>2
<1>5. Shape'
    BY <1>1, <1>3, <1>4, ShapeKept DEF Shape
<1>6. Transactions'
    <2>1. \A d \in Callers : InTx(d) => Event(d) # Event(c)
        BY <1>1 DEF InTransaction, InTx
    <2>2. CASE s = "ack"
        BY <1>1, <1>3, <2>2, TransactionEnds DEF InTx
    <2>3. CASE s = "handle"
        BY <1>1, <1>2, <1>3, <2>1, <2>3, TransactionRuns
    <2> QED BY <2>2, <2>3
<1>7. Effects'
    BY <1>1, <1>3, EffectsKept
<1>8. Accounted'
    <2>1. \A f : Done(f) => Done(f)'
        BY <1>1 DEF Done
    <2>2. s = "ack" => (Done(Event(c)))'
        <3>1. PICK e : e = Event(c)
            OBVIOUS
        <3>2. s = "ack" => Done(e)
            BY <1>2, <3>1 DEF Effects
        <3> QED BY <1>3, <2>1, <3>1, <3>2 DEF Done
    <2> QED BY <1>1, <1>3, <2>1, <2>2, AccountedKept
<1> QED BY <1>4, <1>5, <1>6, <1>7, <1>8

LEMMA HandleSafe ==
    ASSUME Safe, NEW c \in Callers, HandleInOwnTransaction(c)
    PROVE  Safe'
<1> USE DEF Safe
<1>1. /\ caller[c].at = "handle" /\ Event(c) \in OwnTransaction /\ Goto(c, "record")
      /\ done' = Append(done, Event(c))
      /\ UNCHANGED <<cursor, pending, active, processed, dead, faults>>
    BY DEF HandleInOwnTransaction
<1>2. /\ caller' \in [Callers -> Caller] /\ caller'[c].at = "record"
      /\ caller'[c].todo = {} <=> caller'[c] = Idle
      /\ caller'[c].at # "idle" => caller'[c].todo # {}
      /\ Others(c) /\ Event(c)' = Event(c)
    BY <1>1, GoingOn DEF Locations
<1>3. PICK e \in Handled : e = Event(c)
    BY <1>1, SetsAssumption
<1>4. done' \in Seq(Handled) /\ \A f : Done(f) => Done(f)'
    BY <1>1, <1>3, DoneGrows DEF Shape
<1>5. Shape'
    BY <1>1, <1>2, <1>4, ShapeKept, ProcessOfCaller DEF Shape
<1>6. Barrier'
    BY <1>1, <1>2, BarrierStays DEF InsideLocations
<1>7. Transactions'
    BY <1>1, <1>2, TransactionRuns DEF InTx
<1>8. Effects'
    BY <1>1, <1>2, EffectsAhead
<1>9. Accounted'
    BY <1>1, <1>2, <1>4, AccountedKept
<1> QED BY <1>5, <1>6, <1>7, <1>8, <1>9

(* The marker commits, and c goes on to acknowledge, or believes it failed. *)
LEMMA CommitSafe ==
    ASSUME Safe, NEW c \in Callers, MarkerCommits(c), UNCHANGED <<cursor, pending, dead>>,
           faults' \in 0..MaxFaults,
           \/ Goto(c, "ack") /\ Release(c)
           \/ Goto(c, "quarantine") /\ UNCHANGED active
           \/ TurnToNext(c) /\ Release(c)
    PROVE  Safe'
<1> USE DEF Safe
<1>1. caller[c].at \in {"handle", "record"}
    BY DEF MarkerCommits
<1>2. PICK e \in Handled : e = Event(c)
    BY <1>1 DEF Barrier, InsideLocations
<1>3. /\ caller' \in [Callers -> Caller] /\ caller'[c].at \notin {"handle", "record"}
      /\ caller'[c].todo = {} <=> caller'[c] = Idle
      /\ caller'[c].at # "idle" => caller'[c].todo # {}
      /\ Others(c) /\ (caller'[c].at = "ack" => Event(c)' = Event(c))
      /\ Barrier' /\ active' \in [Processes -> SUBSET {AggregateOf[f] : f \in Events}]
    <2>1. CASE Goto(c, "ack") /\ Release(c)
        <3>1. /\ caller' \in [Callers -> Caller] /\ caller'[c].at = "ack"
              /\ caller'[c].todo = {} <=> caller'[c] = Idle
              /\ caller'[c].at # "idle" => caller'[c].todo # {}
              /\ Others(c) /\ Event(c)' = Event(c)
            BY <1>1, <2>1, GoingOn DEF Locations
        <3>2. Barrier' /\ active' \in [Processes -> SUBSET {AggregateOf[f] : f \in Events}]
            BY <1>1, <2>1, <3>1, BarrierLeft DEF InsideLocations
        <3> QED BY <3>1, <3>2
    <2>2. CASE Goto(c, "quarantine") /\ UNCHANGED active
        <3>1. /\ caller' \in [Callers -> Caller] /\ caller'[c].at = "quarantine"
              /\ caller'[c].todo = {} <=> caller'[c] = Idle
              /\ caller'[c].at # "idle" => caller'[c].todo # {}
              /\ Others(c) /\ Event(c)' = Event(c)
            BY <1>1, <2>2, GoingOn DEF Locations
        <3>2. Barrier' /\ active' \in [Processes -> SUBSET {AggregateOf[f] : f \in Events}]
            BY <1>1, <2>2, <3>1, BarrierStays, ProcessOfCaller DEF InsideLocations
        <3> QED BY <3>1, <3>2
    <2>3. CASE TurnToNext(c) /\ Release(c)
        <3>1. /\ caller' \in [Callers -> Caller] /\ caller'[c].at \in {"idle", "acquire"}
              /\ caller'[c].todo = {} <=> caller'[c] = Idle
              /\ caller'[c].at # "idle" => caller'[c].todo # {}
              /\ Others(c)
            BY <2>3, Turning DEF Others
        <3>2. Barrier' /\ active' \in [Processes -> SUBSET {AggregateOf[f] : f \in Events}]
            BY <1>1, <2>3, <3>1, BarrierLeft DEF InsideLocations
        <3> QED BY <3>1, <3>2
    <2> QED BY <2>1, <2>2, <2>3
<1>4. processed' = processed \cup {e}
    BY <1>2 DEF MarkerCommits
<1>5. done' \in Seq(Handled) /\ \A f : Done(f) => Done(f)'
    BY <1>2, DoneGrows DEF MarkerCommits, Shape
<1>6. Shape'
    BY <1>3, <1>4, <1>5, ShapeKept DEF Shape
<1>7. Transactions'
    BY <1>1, <1>2, <1>3, <1>4, TransactionEnds DEF InTx
<1>8. Effects' /\ Done(e)'
    BY <1>2, <1>3, EffectsMarked
<1>9. Accounted'
    <2>1. caller'[c].at = "ack" => Done(Event(c))'
        BY <1>2, <1>3, <1>8 DEF Done
    <2> QED BY <1>3, <1>5, <2>1, AccountedKept
<1> QED BY <1>3, <1>6, <1>7, <1>8, <1>9

(* A failure keeps the lease for its quarantine, which then opens the barrier. *)
LEMMA BurySafe ==
    ASSUME Safe, NEW c \in Callers, UNCHANGED <<cursor, pending, processed, done>>,
           faults' \in 0..MaxFaults,
           \/ /\ caller[c].at \in {"handle", "record"} /\ Goto(c, "quarantine")
              /\ UNCHANGED <<active, dead>>
           \/ /\ caller[c].at = "quarantine" /\ Goto(c, "ack") /\ Release(c)
              /\ dead' = dead \cup {Event(c)}
    PROVE  Safe'
<1> USE DEF Safe
<1>1. caller[c].at \in InsideLocations /\ Event(c) \in Handled
    BY DEF Barrier, InsideLocations
<1>2. PICK s \in {"ack", "quarantine"} :
          /\ Goto(c, s)
          /\ s = "ack" => Release(c) /\ dead' = dead \cup {Event(c)}
          /\ s = "quarantine" => UNCHANGED <<active, dead>>
    OBVIOUS
<1>3. /\ caller' \in [Callers -> Caller] /\ caller'[c].at = s
      /\ caller'[c].todo = {} <=> caller'[c] = Idle
      /\ caller'[c].at # "idle" => caller'[c].todo # {}
      /\ Others(c) /\ Event(c)' = Event(c)
    BY <1>1, <1>2, GoingOn DEF Locations, InsideLocations
<1>4. Barrier' /\ active' \in [Processes -> SUBSET {AggregateOf[e] : e \in Events}]
    <2>1. CASE s = "ack"
        BY <1>1, <1>2, <1>3, <2>1, BarrierLeft DEF InsideLocations
    <2>2. CASE s = "quarantine"
        BY <1>1, <1>2, <1>3, <2>2, BarrierStays, ProcessOfCaller
    <2> QED BY <2>1, <2>2
<1>5. dead \subseteq dead' /\ dead' \subseteq Handled /\ (s = "ack" => Event(c) \in dead')
    BY <1>1, <1>2 DEF Shape
<1>6. Shape'
    BY <1>3, <1>4, <1>5, ShapeKept DEF Shape
<1>7. Transactions'
    BY <1>3, TransactionEnds DEF InTx
<1>8. Effects'
    BY <1>3, EffectsKept
<1>9. \A f : Done(f) => Done(f)'
    BY DEF Done
<1>10. Accounted'
    BY <1>3, <1>5, <1>9, AccountedKept
<1> QED BY <1>4, <1>6, <1>7, <1>8, <1>10

(* XACK takes an entry off the pending list that is accounted for. *)
LEMMA AckSafe ==
    ASSUME Safe, NEW c \in Callers, caller[c].at = "ack", TurnToNext(c) \/ AbandonBatch(c),
           pending' \in {pending, pending \ {Entry(c)}},
           UNCHANGED <<cursor, active, processed, done, dead>>, faults' \in 0..MaxFaults
    PROVE  Safe'
<1> USE DEF Safe
<1>1. /\ caller' \in [Callers -> Caller] /\ caller'[c].at \in {"idle", "acquire"}
      /\ caller'[c].todo = {} <=> caller'[c] = Idle
      /\ caller'[c].at # "idle" => caller'[c].todo # {}
      /\ Others(c)
    BY Turning DEF Others
<1>2. Barrier' /\ active' \in [Processes -> SUBSET {AggregateOf[e] : e \in Events}]
    BY <1>1, BarrierLeft DEF InsideLocations
<1>3. Shape'
    BY <1>1, <1>2, ShapeKept DEF Shape
<1>4. Transactions'
    BY <1>1, TransactionEnds DEF InTx
<1>5. Effects'
    BY <1>1, EffectsKept
<1>6. \A f : Done(f) <=> Done(f)'
    BY DEF Done
<1>7. PICK i : i = Entry(c)
    OBVIOUS
<1>8. Stream[i] \in Handled => (Done(Stream[i]) \/ Stream[i] \in dead)'
    <2>1. Stream[i] \in Handled => Done(Stream[i]) \/ Stream[i] \in dead
        BY <1>7 DEF Accounted, Event
    <2> QED BY <1>6, <2>1
<1>9. \A j \in (1..cursor') \ pending' : j \in (1..cursor) \ pending \/ j = i
    BY <1>7
<1>10. Accounted'
    BY <1>1, <1>6, <1>8, <1>9, AccountedKept
<1> QED BY <1>2, <1>3, <1>4, <1>5, <1>10

(* A process dies, with its transactions and its barrier. *)
LEMMA CrashSafe ==
    ASSUME Safe, NEW p \in Processes, Crash(p)
    PROVE  Safe'
<1> USE DEF Safe
<1>1. /\ UNCHANGED <<cursor, pending, processed, done, dead>> /\ faults' \in 0..MaxFaults
      /\ caller' = [c \in Callers |-> IF ProcessOf[c] = p THEN Idle ELSE caller[c]]
      /\ active' = [active EXCEPT ![p] = {}]
    BY FaultCounts DEF Crash
<1>2. /\ Idle \in Caller /\ Idle.at = "idle" /\ Idle.todo = {} /\ Caller' = Caller
      /\ active \in [Processes -> SUBSET {AggregateOf[e] : e \in Events}]
    BY <1>1 DEF Idle, Caller, Locations, Shape
<1>3. ASSUME NEW c \in Callers
      PROVE  /\ caller'[c] \in Caller
             /\ caller'[c].todo = {} <=> caller'[c] = Idle
             /\ caller'[c].at # "idle" => caller'[c].todo # {}
             /\ caller'[c].at # "idle" =>
                   ProcessOf[c] # p /\ caller'[c] = caller[c] /\ Event(c)' = Event(c)
    BY <1>1, <1>2 DEF Shape, Event, Entry
<1>4. Shape'
    BY <1>1, <1>2, <1>3 DEF Shape
<1>5. Barrier'
    <2>1. ASSUME NEW c \in Callers, caller'[c].at \in InsideLocations
          PROVE  /\ caller[c].at \in InsideLocations /\ Aggregate(c)' = Aggregate(c)
                 /\ Event(c)' = Event(c) /\ active'[ProcessOf[c]] = active[ProcessOf[c]]
        BY <1>1, <1>2, <1>3, <2>1 DEF InsideLocations, Aggregate, Processes
    <2> QED BY <2>1 DEF Barrier
<1>6. Transactions'
    BY <1>1, <1>3 DEF Transactions, InTx
<1>7. \A f : Done(f) <=> Done(f)'
    BY <1>1 DEF Done
<1>8. Effects'
    BY <1>1, <1>3, <1>7 DEF Effects
<1>9. Accounted'
    BY <1>1, <1>3, <1>7 DEF Accounted
<1> QED BY <1>4, <1>5, <1>6, <1>8, <1>9

LEMMA SafeStep == Safe /\ [Next]_vars => Safe'
<1> SUFFICES ASSUME Safe, [Next]_vars PROVE Safe'
    OBVIOUS
<1>0. Shape /\ faults \in 0..MaxFaults /\ processed \subseteq Handled /\ dead \subseteq Handled
    BY DEF Safe, Shape
<1>1. ASSUME NEW c \in Callers, Read(c) \/ ReadLost(c) PROVE Safe'
    <2>1. PICK n \in 1..BatchSize :
              /\ cursor + n <= Len(Stream) /\ cursor' = cursor + n
              /\ pending' = pending \cup (cursor + 1 .. cursor + n)
              /\ \/ UNCHANGED caller
                 \/ caller' = [caller EXCEPT ![c] =
                       [at |-> "acquire", todo |-> cursor + 1 .. cursor + n, attempt |-> 1]]
        BY <1>1 DEF Read, ReadLost
    <2>2. /\ n \in Nat \ {0} /\ cursor \in Nat /\ Len(Stream) \in Nat
        BY BoundsAssumption, StreamAssumption DEF Safe, Shape
    <2>3. PICK T : T = cursor + 1 .. cursor + n
        OBVIOUS
    <2>5. T \in SUBSET (1..cursor + n) /\ cursor + 1 \in T
        BY <2>2, <2>3
    <2>6. cursor + n \in 0..Len(Stream) /\ cursor <= cursor + n
        BY <2>1, <2>2
    <2>7. /\ cursor' \in 0..Len(Stream) /\ cursor <= cursor'
          /\ pending' = pending \cup (cursor + 1 .. cursor')
          /\ T # {} /\ T \in SUBSET (1..cursor')
          /\ UNCHANGED caller \/ caller' = [caller EXCEPT ![c] = [at |-> "acquire", todo |-> T, attempt |-> 1]]
        BY <2>1, <2>3, <2>5, <2>6
    <2>4. /\ caller[c].at = "idle" /\ UNCHANGED <<active, processed, done, dead>>
          /\ faults' \in 0..MaxFaults
        BY <1>0, <1>1, FaultCounts DEF Read, ReadLost
    <2> QED BY <2>4, <2>7, TakeSafe
<1>2. ASSUME NEW c \in Callers, NEW i \in Entries, Reclaim(c, i) PROVE Safe'
    <2>1. cursor \in 0..Len(Stream) /\ pending \subseteq 1..cursor /\ cursor \in Nat
        BY StreamAssumption DEF Safe, Shape
    <2>2. {i} \in SUBSET (1..cursor') /\ cursor <= cursor' /\ cursor' \in 0..Len(Stream)
          /\ pending' = pending \cup (cursor + 1 .. cursor')
        BY <1>2, <2>1 DEF Reclaim
    <2>3. /\ caller[c].at = "idle" /\ UNCHANGED <<active, processed, done, dead>>
          /\ faults' \in 0..MaxFaults
          /\ caller' = [caller EXCEPT ![c] = [at |-> "acquire", todo |-> {i}, attempt |-> 2]]
        BY <1>0, <1>2 DEF Reclaim
    <2>4. {i} # {} /\ 2 \in 1..2
        OBVIOUS
    <2> QED BY <2>2, <2>3, <2>4, TakeSafe
<1>3. ASSUME NEW c \in Callers, Deliver(c) PROVE Safe'
    <2>1. CASE Commit(c)
        BY <1>0, <2>1, CommitSafe DEF Commit
    <2>2. CASE Quarantine(c)
        BY <1>0, <2>2, BurySafe DEF Quarantine
    <2>3. CASE Ack(c)
        BY <1>0, <2>3, AckSafe DEF Ack
    <2> QED BY <1>3, <2>1, <2>2, <2>3, AcquireSafe, ClaimMarkerSafe, HandleSafe DEF Deliver
<1>4. ASSUME NEW c \in Callers, HandlerThrows(c) PROVE Safe'
    <2>1. /\ caller[c].at \in {"handle", "record"} /\ faults' \in 0..MaxFaults
          /\ UNCHANGED <<cursor, pending, processed, done, dead>>
          /\ \/ Goto(c, "quarantine") /\ UNCHANGED active
             \/ TurnToNext(c) /\ Release(c)
        BY <1>0, <1>4, FaultCounts DEF HandlerThrows, Decide
    <2> QED BY <1>0, <2>1, BurySafe, LeaveSafe DEF InsideLocations
<1>5. ASSUME NEW c \in Callers, CommitUnanswered(c) PROVE Safe'
    <2>1. /\ MarkerCommits(c) /\ faults' \in 0..MaxFaults /\ UNCHANGED <<cursor, pending, dead>>
          /\ \/ Goto(c, "quarantine") /\ UNCHANGED active
             \/ TurnToNext(c) /\ Release(c)
        BY <1>0, <1>5, FaultCounts DEF CommitUnanswered, Decide
    <2> QED BY <2>1, CommitSafe
<1>6. ASSUME NEW c \in Callers, QuarantineThrows(c) PROVE Safe'
    <2>1. /\ caller[c].at = "quarantine" /\ AbandonBatch(c) /\ faults' \in 0..MaxFaults
          /\ UNCHANGED <<cursor, pending, active, processed, done>>
          /\ dead' \in {dead, dead \cup {Event(c)}}
        BY <1>0, <1>6, FaultCounts DEF QuarantineThrows
    <2>2. Event(c) \in Handled
        BY <2>1 DEF Safe, Barrier, InsideLocations
    <2>3. dead \subseteq dead' /\ dead' \subseteq Handled
        BY <1>0, <2>1, <2>2
    <2> QED BY <2>1, <2>3, LeaveSafe
<1>7. ASSUME NEW c \in Callers, AckThrows(c) PROVE Safe'
    BY <1>0, <1>7, AckSafe, FaultCounts DEF AckThrows
<1>8. ASSUME NEW p \in Processes, Crash(p) PROVE Safe'
    BY <1>8, CrashSafe
<1>9. CASE UNCHANGED vars
    <2>1. UNCHANGED <<cursor, pending, caller, active, processed, done, dead, faults>>
        BY <1>9 DEF vars
    <2>2. /\ \A c \in Callers : Event(c)' = Event(c) /\ Aggregate(c)' = Aggregate(c) /\ InTx(c)' = InTx(c)
          /\ \A f : Done(f)' = Done(f)
        BY <2>1 DEF Event, Entry, Aggregate, InTx, Done
    <2>3. Shape' /\ Barrier'
        BY <2>1, <2>2 DEF Safe, Shape, Caller, Barrier
    <2>4. Transactions' /\ Effects' /\ Accounted'
        BY <2>1, <2>2 DEF Safe, Transactions, Effects, Accounted
    <2> QED BY <2>3, <2>4 DEF Safe
<1> QED BY <1>1, <1>2, <1>3, <1>4, <1>5, <1>6, <1>7, <1>8, <1>9 DEF Next

-----------------------------------------------------------------------------

(* Every reachable state of the worker and its dispatchers is Safe. *)
THEOREM AlwaysSafe == Spec => []Safe
<1> QED BY SafeInit, SafeStep, PTL DEF Spec

(* Positions, batches, leases and rows keep their shape: only entries that *)
(* were handed out are pending or in a batch (consumer-worker.ts).         *)
THEOREM TypeCorrect == Spec => []TypeOK
<1>1. Safe => TypeOK
    BY DEF Safe, Shape, Caller, TypeOK
<1> QED BY <1>1, AlwaysSafe, PTL

(* What TimesDone counts, by what is done. *)
LEMMA Counting ==
    ASSUME Shape, NEW e
    PROVE  /\ Done(e) => TimesDone(e) > 0
           /\ (\A m, n \in DOMAIN done : (done[m] = e /\ done[n] = e) => m = n) => TimesDone(e) <= 1
<1> DEFINE S == {n \in DOMAIN done : done[n] = e}
<1>1. IsFiniteSet(S)
    <2>1. DOMAIN done = 1..Len(done) /\ Len(done) \in Nat
        BY DEF Shape
    <2>2. IsFiniteSet(1..Len(done))
        BY <2>1, FS_Interval
    <2> QED BY <2>1, <2>2, FS_Subset
<1>2. Cardinality(S) \in Nat /\ (Cardinality(S) = 0 <=> S = {})
    BY <1>1, FS_CardinalityType, FS_EmptySet
<1>3. Done(e) => Cardinality(S) > 0
    BY <1>2 DEF Done
<1>4. ASSUME \A m, n \in DOMAIN done : (done[m] = e /\ done[n] = e) => m = n
      PROVE  Cardinality(S) <= 1
    <2>1. CASE S = {}
        BY <1>2, <2>1
    <2>2. CASE S # {}
        <3>1. PICK m : S = {m}
            BY <1>4, <2>2
        <3>2. Cardinality({m}) = 1
            BY FS_Singleton
        <3> HIDE DEF S
        <3> QED BY <3>1, <3>2
    <2> QED BY <2>1, <2>2
<1> QED BY <1>3, <1>4 DEF TimesDone

(* An event may be delivered any number of times, and its effects happen    *)
(* once, unless its handler commits by itself (the marker of guards.ts).    *)
THEOREM EffectsHappenOnce == Spec => []EffectsOnce
<1>1. Safe => EffectsOnce
    <2> SUFFICES ASSUME Safe, NEW e \in Events \ OwnTransaction PROVE TimesDone(e) <= 1
        BY DEF EffectsOnce
    <2>1. \A m, n \in DOMAIN done : (done[m] = e /\ done[n] = e) => m = n
        BY DEF Safe, Effects
    <2> QED BY <2>1, Counting DEF Safe
<1> QED BY <1>1, AlwaysSafe, PTL

(* An entry that left the pending list was handled or is a dead letter,     *)
(* unless nobody handles its type (the acknowledgement of                   *)
(* consumer-worker.ts and the decision of dispatcher.ts).                   *)
THEOREM NoEventIsLost == Spec => []AckedIsAccountedFor
<1>1. Safe => AckedIsAccountedFor
    <2> SUFFICES ASSUME Safe, NEW i \in (1..cursor) \ pending, Stream[i] \in Handled
                 PROVE  TimesDone(Stream[i]) > 0 \/ Stream[i] \in dead
        BY DEF AckedIsAccountedFor
    <2>1. Done(Stream[i]) \/ Stream[i] \in dead
        BY DEF Safe, Accounted
    <2> QED BY <2>1, Counting DEF Safe
<1> QED BY <1>1, AlwaysSafe, PTL

(* In one process, two callers are never past the barrier with events of    *)
(* one aggregate (AggregateBarrier in guards.ts).                           *)
THEOREM BarrierExcludes == Spec => []OneAtATime
<1>1. Safe => OneAtATime
    BY DEF Safe, Barrier, OneAtATime, Inside, InsideLocations
<1> QED BY <1>1, AlwaysSafe, PTL
=============================================================================
