---------------------------- MODULE ReplayProofs ----------------------------
(***************************************************************************)
(* Proofs about Replay, for any events, runs, scopes, groups, executors,   *)
(* operators and bounds.                                                   *)
(*                                                                         *)
(* The inductive invariant is Safe.  A row or an executor stands at a      *)
(* cursor with a count, and the two Fit: what was promised up to the       *)
(* cursor has been reached, and the count lies between what was promised   *)
(* and what was reached.  An executor's batch is what comes next (Next-    *)
(* InLine), so that moving over its first event keeps the fit.  Of a run   *)
(* that nobody drives twice, each event handed over beyond the checkpoint  *)
(* is among the first CheckpointInterval that are owed (Redelivered).      *)
(***************************************************************************)
EXTENDS Replay, FiniteSetTheorems, TLAPS

ExecRow == [run : Runs, at : Places, cursor : Keys, count : Nat, since : Nat,
            batch : SUBSET Events, then : Statuses]
ProgressRow == [status : Statuses, checkpoint : Keys, count : Nat]
OpRow == [command : {"none", "start"} \cup DOMAIN Written, runs : SUBSET Runs]

(* TypeOK, but for the bound of the counts, which follows from Fits. *)
Types ==
    /\ present \subseteq Events
    /\ run \in [Runs -> ProgressRow]
    /\ exec \in [Executors -> ExecRow]
    /\ op \in [Operators -> OpRow]
    /\ promised \in [Runs -> SUBSET Events]
    /\ reached \in [Runs -> SUBSET Events]
    /\ handed \in [Runs -> SUBSET Events]
    /\ doubled \subseteq Runs
    /\ commands \in 0..MaxCommands /\ faults \in 0..MaxFaults

(* A command is about one run. *)
Aimed == \A o \in Operators : op[o].command \in DOMAIN Written => \E r \in Runs : op[o].runs = {r}

(***************************************************************************)
(* Progress at cursor k with count n, where p is promised and there, and q *)
(* has been reached, leaves nothing out and counts nothing twice.          *)
(***************************************************************************)
Fits(p, q, k, n) ==
    /\ UpTo(p, k) \subseteq q
    /\ n <= Cardinality(UpTo(q, k))
    /\ Cardinality(UpTo(p, k)) <= n

(* What is in p up to an event of batch b is behind cursor k or in b. *)
NextInLine(p, k, b) ==
    \A f \in b : f > k /\ \A e \in p : e <= f => e <= k \/ e \in b

(* What is to be handed over, seen from checkpoint k. *)
Owed(p, k) == {e \in p : e > k /\ e \notin Refused}

(* Of h, handed over, the events beyond k are the first that are owed. *)
Redelivered(p, h, k) ==
    \A e \in h \cap p : e > k => Cardinality(UpTo(Owed(p, k), e)) <= CheckpointInterval

Pledged(r) == promised[r] \cap present

Whole(r) == Pledged(r) \ Letters \subseteq reached[r]

RowOK(r) ==
    /\ promised[r] \subseteq Scope[r] /\ promised[r] \cap Late \subseteq present
    /\ handed[r] \cap Refused = {}
    /\ run[r].status = "none" => run[r].checkpoint = 0 /\ run[r].count = 0 /\ handed[r] = {}
    /\ Fits(Pledged(r), reached[r], run[r].checkpoint, run[r].count)
    /\ run[r].status = "completed" => Whole(r)
    /\ r \notin doubled => Redelivered(Pledged(r), handed[r], run[r].checkpoint)

Busy(x) == exec[x].at # "idle"
Reading == {"begin", "check", "read", "deliver"}

(* How many events x, alone with its run, has moved over unsaved. *)
Unsaved(p, k, cursor) == Cardinality(UpTo(Owed(p, k), cursor))

OnTime(x, r) ==
    /\ run[r].checkpoint <= exec[x].cursor
    /\ exec[x].at \in Reading =>
          /\ Unsaved(Pledged(r), run[r].checkpoint, exec[x].cursor) <= exec[x].since
          /\ Unsaved(Pledged(r), run[r].checkpoint, exec[x].cursor) < CheckpointInterval

CursorOK(x, r) ==
    /\ run[r].status # "none"
    /\ Fits(Pledged(r), reached[r], exec[x].cursor, exec[x].count)
    /\ NextInLine(Pledged(r), exec[x].cursor, exec[x].batch)
    /\ exec[x].at = "deliver" => exec[x].batch # {}
    /\ exec[x].at = "set" => exec[x].then # "none"
    /\ exec[x].then = "completed" => Whole(r)
    /\ r \notin doubled => OnTime(x, r)

Rows == \A r \in Runs : RowOK(r)

Cursors == \A x \in Executors, r \in Runs : Busy(x) /\ exec[x].run = r => CursorOK(x, r)

Alone == \A x, y \in Executors :
    Busy(x) /\ Busy(y) /\ exec[x].run = exec[y].run /\ exec[x].run \notin doubled => x = y

Safe == Types /\ Aimed /\ Rows /\ Cursors /\ Alone

-----------------------------------------------------------------------------
(* Cardinalities of sets of events.                                        *)

LEMMA SetsOfEvents ==
    ASSUME NEW S \in SUBSET Events
    PROVE  IsFiniteSet(S) /\ Cardinality(S) \in Nat /\ Cardinality(S) <= Cardinality(Events)
<1>1. IsFiniteSet(Events)
    BY EventsAssumption
<1>2. IsFiniteSet(S) /\ Cardinality(S) <= Cardinality(Events)
    BY <1>1, FS_Subset
<1>3. QED
    BY <1>2, FS_CardinalityType

LEMMA Smaller ==
    ASSUME NEW T \in SUBSET Events, NEW S \in SUBSET T
    PROVE  Cardinality(S) <= Cardinality(T) /\ Cardinality(S) \in Nat /\ Cardinality(T) \in Nat
<1>1. IsFiniteSet(T) /\ Cardinality(T) \in Nat /\ S \in SUBSET Events
    BY SetsOfEvents
<1>2. QED
    BY <1>1, SetsOfEvents, FS_Subset

LEMMA OneMore ==
    ASSUME NEW S \in SUBSET Events, NEW e \in Events
    PROVE  /\ Cardinality(S \cup {e}) <= Cardinality(S) + 1
           /\ e \notin S => Cardinality(S \cup {e}) = Cardinality(S) + 1
<1>1. IsFiniteSet(S) /\ Cardinality(S) \in Nat
    BY SetsOfEvents
<1>2. QED
    BY <1>1, FS_AddElement

LEMMA UpToSet ==
    ASSUME NEW S, NEW k
    PROVE  /\ \A e : e \in UpTo(S, k) <=> e \in S /\ e <= k
           /\ UpTo(S, k) \subseteq S
           /\ \A T : S \in SUBSET T => UpTo(S, k) \in SUBSET T
BY DEF UpTo

LEMMA None == Cardinality({}) = 0
BY FS_EmptySet

LEMMA Numbers ==
    /\ \A e \in Events : e \in Nat /\ e > 0 /\ e \in Keys
    /\ \A k \in Keys : k \in Nat
    /\ 0 \in Keys
    /\ BatchSize \in Nat /\ BatchSize > 0 /\ CheckpointInterval \in Nat /\ CheckpointInterval > 0
BY EventsAssumption, BoundsAssumption DEF Keys

-----------------------------------------------------------------------------
(* Progress.                                                               *)

LEMMA FitsStill ==
    ASSUME NEW p \in SUBSET Events, NEW q \in SUBSET Events,
           NEW newp \in SUBSET p, NEW newq \in SUBSET Events, q \subseteq newq,
           NEW k \in Keys, NEW n \in Nat, Fits(p, q, k, n)
    PROVE  Fits(newp, newq, k, n)
<1>1. UpTo(newp, k) \subseteq UpTo(p, k) /\ UpTo(q, k) \subseteq UpTo(newq, k)
      /\ UpTo(p, k) \in SUBSET Events /\ UpTo(newq, k) \in SUBSET Events
    BY DEF UpTo
<1>2. /\ Cardinality(UpTo(newp, k)) <= Cardinality(UpTo(p, k))
      /\ Cardinality(UpTo(newp, k)) \in Nat /\ Cardinality(UpTo(p, k)) \in Nat
    BY <1>1, Smaller
<1>3. /\ Cardinality(UpTo(q, k)) <= Cardinality(UpTo(newq, k))
      /\ Cardinality(UpTo(q, k)) \in Nat /\ Cardinality(UpTo(newq, k)) \in Nat
    BY <1>1, Smaller
<1>4. UpTo(newp, k) \subseteq newq
    BY <1>1 DEF Fits
<1>5. QED
    BY <1>2, <1>3, <1>4 DEF Fits

LEMMA FitsAtFirst ==
    ASSUME NEW p \in SUBSET Events, NEW q \in SUBSET Events
    PROVE  Fits(p, q, 0, 0)
<1>1. UpTo(p, 0) = {} /\ UpTo(q, 0) = {}
    BY Numbers DEF UpTo
<1>2. QED
    BY <1>1, None DEF Fits

LEMMA FitsBound ==
    ASSUME NEW p \in SUBSET Events, NEW q \in SUBSET Events,
           NEW k \in Keys, NEW n \in Nat, Fits(p, q, k, n)
    PROVE  n \in 0..Cardinality(Events)
<1>1. UpTo(q, k) \in SUBSET Events
    BY DEF UpTo
<1>2. /\ Cardinality(UpTo(q, k)) <= Cardinality(Events)
      /\ Cardinality(UpTo(q, k)) \in Nat /\ Cardinality(Events) \in Nat
    BY <1>1, Smaller
<1>3. QED
    BY <1>2 DEF Fits

(* e is the next of p after k. *)
LEMMA FitsNext ==
    ASSUME NEW p \in SUBSET Events, NEW q \in SUBSET Events,
           NEW k \in Keys, NEW n \in Nat, Fits(p, q, k, n),
           NEW e \in Events, e > k, \A f \in p : f <= e => f <= k \/ f = e
    PROVE  Fits(p, q \cup {e}, e, n + 1)
<1> DEFINE before == UpTo(p, k)
           behind == UpTo(q, k)
<1>1. before \in SUBSET Events /\ behind \in SUBSET Events /\ e \notin behind /\ k \in Nat /\ e \in Nat
    <2>1. k \in Nat /\ e \in Nat
        BY Numbers
    <2>2. before \in SUBSET Events /\ behind \in SUBSET Events
        BY UpToSet
    <2>3. e \notin behind
        <3>1. ~(e <= k)
            BY <2>1
        <3>2. QED
            BY <3>1, UpToSet
    <2>4. QED
        BY <2>1, <2>2, <2>3
<1>2. UpTo(p, e) \subseteq before \cup {e} /\ before \cup {e} \in SUBSET Events
    BY <1>1 DEF UpTo
<1>3. behind \cup {e} \subseteq UpTo(q \cup {e}, e) /\ UpTo(q \cup {e}, e) \in SUBSET Events
    <2>1. \A f \in q : f <= k => f <= e
        BY <1>1, Numbers
    <2>2. e <= e
        BY <1>1
    <2>3. q \cup {e} \in SUBSET Events
        OBVIOUS
    <2>4. QED
        BY <2>1, <2>2, <2>3, UpToSet
<1>4. before \subseteq q /\ n <= Cardinality(behind) /\ Cardinality(before) <= n
    BY DEF Fits
<1>5. UpTo(p, e) \subseteq q \cup {e}
    BY <1>2, <1>4
<1> HIDE DEF before, behind
<1>6. n + 1 <= Cardinality(UpTo(q \cup {e}, e))
    <2>1. Cardinality(behind \cup {e}) = Cardinality(behind) + 1 /\ Cardinality(behind) \in Nat
        BY <1>1, OneMore, SetsOfEvents
    <2>2. Cardinality(behind \cup {e}) <= Cardinality(UpTo(q \cup {e}, e))
          /\ Cardinality(UpTo(q \cup {e}, e)) \in Nat
        BY <1>3, Smaller
    <2>3. QED
        BY <1>4, <2>1, <2>2
<1>7. Cardinality(UpTo(p, e)) <= n + 1
    <2>1. Cardinality(before \cup {e}) <= Cardinality(before) + 1 /\ Cardinality(before) \in Nat
        BY <1>1, OneMore, SetsOfEvents
    <2>2. Cardinality(UpTo(p, e)) <= Cardinality(before \cup {e})
          /\ Cardinality(UpTo(p, e)) \in Nat /\ Cardinality(before \cup {e}) \in Nat
        BY <1>2, Smaller
    <2>3. QED
        BY <1>4, <2>1, <2>2
<1>8. QED
    BY <1>5, <1>6, <1>7 DEF Fits

LEMMA LineStill ==
    ASSUME NEW p, NEW newp \in SUBSET p, NEW k, NEW b, NextInLine(p, k, b)
    PROVE  NextInLine(newp, k, b)
BY DEF NextInLine

-----------------------------------------------------------------------------
(* The first and the last of some events.                                  *)

LEMMA Minimal ==
    ASSUME NEW F \in SUBSET (SUBSET Events), F # {}
    PROVE  \E T \in F : \A U \in F : U \subseteq T => U = T
<1> DEFINE R == StrictSubsetOrdering(Events)
<1>1. \A T \in F : IsFiniteSet(T)
    BY SetsOfEvents
<1>2. F \subseteq FiniteSubsetsOf(Events)
    BY <1>1 DEF FiniteSubsetsOf
<1>3. IsWellFoundedOn(R, FiniteSubsetsOf(Events))
    BY FS_StrictSubsetOrderingWellFounded
<1>4. \A T, U \in F : U \subseteq T /\ U # T => <<U, T>> \in R
    BY DEF StrictSubsetOrdering
<1> HIDE DEF R
<1>5. PICK T \in F : \A U \in F : <<U, T>> \notin R
    BY <1>2, <1>3, WFMin
<1>6. QED
    BY <1>4, <1>5

LEMMA FirstEvent ==
    ASSUME NEW S \in SUBSET Events, S # {}
    PROVE  \E e \in S : \A f \in S : e <= f
<1> DEFINE Below(e) == {f \in S : f < e}
           F == {Below(e) : e \in S}
<1>1. PICK e \in S : \A f \in S : Below(f) \subseteq Below(e) => Below(f) = Below(e)
    <2>1. F \in SUBSET (SUBSET Events) /\ F # {}
        OBVIOUS
    <2>2. PICK T \in F : \A U \in F : U \subseteq T => U = T
        <3> HIDE DEF F
        <3>1. QED
            BY <2>1, Minimal
    <2>3. PICK e \in S : T = Below(e)
        OBVIOUS
    <2>4. \A f \in S : Below(f) \in F
        OBVIOUS
    <2> HIDE DEF F, Below
    <2>5. QED
        BY <2>2, <2>3, <2>4
<1>2. ASSUME NEW f \in S, ~(e <= f)
      PROVE  FALSE
    <2>1. f \in Nat /\ e \in Nat /\ \A g \in S : g \in Nat
        BY Numbers
    <2>2. f < e /\ ~(f < f) /\ \A g \in S : g < f => g < e
        BY <1>2, <2>1
    <2>3. f \in Below(e) /\ f \notin Below(f) /\ Below(f) \subseteq Below(e)
        BY <2>2
    <2>4. QED
        BY <1>1, <2>3
<1>3. QED
    BY <1>2

LEMMA LastEvent ==
    ASSUME NEW S \in SUBSET Events, S # {}
    PROVE  \E e \in S : \A f \in S : f <= e
<1> DEFINE Above(e) == {f \in S : f > e}
           F == {Above(e) : e \in S}
<1>1. PICK e \in S : \A f \in S : Above(f) \subseteq Above(e) => Above(f) = Above(e)
    <2>1. F \in SUBSET (SUBSET Events) /\ F # {}
        OBVIOUS
    <2>2. PICK T \in F : \A U \in F : U \subseteq T => U = T
        <3> HIDE DEF F
        <3>1. QED
            BY <2>1, Minimal
    <2>3. PICK e \in S : T = Above(e)
        OBVIOUS
    <2>4. \A f \in S : Above(f) \in F
        OBVIOUS
    <2> HIDE DEF F, Above
    <2>5. QED
        BY <2>2, <2>3, <2>4
<1>2. ASSUME NEW f \in S, ~(f <= e)
      PROVE  FALSE
    <2>1. f \in Nat /\ e \in Nat /\ \A g \in S : g \in Nat
        BY Numbers
    <2>2. f > e /\ ~(f > f) /\ \A g \in S : g > f => g > e
        BY <1>2, <2>1
    <2>3. f \in Above(e) /\ f \notin Above(f) /\ Above(f) \subseteq Above(e)
        BY <2>2
    <2>4. QED
        BY <1>1, <2>3
<1>3. QED
    BY <1>2

-----------------------------------------------------------------------------
(* Redelivery.                                                             *)

LEMMA OwedSets ==
    ASSUME NEW p \in SUBSET Events, NEW k, NEW c
    PROVE  /\ Owed(p, k) \in SUBSET Events /\ UpTo(Owed(p, k), c) \in SUBSET Events
           /\ \A e : e \in UpTo(Owed(p, k), c) <=> e \in p /\ e > k /\ e \notin Refused /\ e <= c
BY DEF UpTo, Owed

LEMMA UnsavedType ==
    ASSUME NEW p \in SUBSET Events, NEW k, NEW c
    PROVE  Unsaved(p, k, c) \in Nat
BY OwedSets, SetsOfEvents DEF Unsaved

(* Less is pledged, or the checkpoint is later: less is unsaved. *)
LEMMA UnsavedShrinks ==
    ASSUME NEW p \in SUBSET Events, NEW newp \in SUBSET p, NEW k \in Keys, NEW newk \in Keys,
           k <= newk, NEW c
    PROVE  Unsaved(newp, newk, c) <= Unsaved(p, k, c)
<1>1. \A e \in Events : e > newk => e > k
    BY Numbers
<1>2. newp \in SUBSET Events
    OBVIOUS
<1>3. \A e \in UpTo(Owed(newp, newk), c) : e \in newp /\ e > newk /\ e \notin Refused /\ e <= c
    BY <1>2, OwedSets
<1>4. \A e \in UpTo(Owed(newp, newk), c) : e \in UpTo(Owed(p, k), c)
    BY <1>1, <1>3, OwedSets
<1>5. UpTo(Owed(newp, newk), c) \in SUBSET UpTo(Owed(p, k), c)
    BY <1>4
<1>6. QED
    BY <1>5, OwedSets, Smaller DEF Unsaved

LEMMA NothingUnsaved ==
    ASSUME NEW p \in SUBSET Events, NEW k \in Keys
    PROVE  Unsaved(p, k, k) = 0
<1>1. \A e \in Events : ~(e > k /\ e <= k)
    BY Numbers
<1>2. UpTo(Owed(p, k), k) = {}
    BY <1>1, OwedSets
<1>3. QED
    BY <1>2, None DEF Unsaved

(* e is the next of p after c. *)
LEMMA UnsavedNext ==
    ASSUME NEW p \in SUBSET Events, NEW k \in Keys, NEW c \in Keys,
           NEW e \in Events, e > c, \A f \in p : f <= e => f <= c \/ f = e
    PROVE  /\ Unsaved(p, k, e) <= Unsaved(p, k, c) + 1
           /\ e \in Refused => Unsaved(p, k, e) <= Unsaved(p, k, c)
<1> DEFINE old == UpTo(Owed(p, k), c)
           new == UpTo(Owed(p, k), e)
<1>1. old \in SUBSET Events /\ new \in SUBSET Events
    BY OwedSets
<1>2. ASSUME NEW f \in new
      PROVE  f \in old \/ (f = e /\ e \notin Refused)
    <2>1. f \in p /\ f > k /\ f \notin Refused /\ f <= e
        BY OwedSets
    <2>2. f <= c \/ f = e
        BY <2>1
    <2>3. f <= c => f \in old
        BY <2>1, OwedSets
    <2>4. QED
        BY <2>1, <2>2, <2>3
<1>3. Unsaved(p, k, e) = Cardinality(new) /\ Unsaved(p, k, c) = Cardinality(old)
    BY DEF Unsaved
<1> HIDE DEF old, new
<1>4. new \in SUBSET (old \cup {e}) /\ old \cup {e} \in SUBSET Events
    BY <1>1, <1>2
<1>5. Cardinality(new) <= Cardinality(old) + 1
    <2>1. /\ Cardinality(new) <= Cardinality(old \cup {e})
          /\ Cardinality(new) \in Nat /\ Cardinality(old \cup {e}) \in Nat
        BY <1>4, Smaller
    <2>2. Cardinality(old \cup {e}) <= Cardinality(old) + 1 /\ Cardinality(old) \in Nat
        BY <1>1, OneMore, SetsOfEvents
    <2>3. QED
        BY <2>1, <2>2
<1>6. ASSUME e \in Refused
      PROVE  Cardinality(new) <= Cardinality(old)
    <2>1. new \in SUBSET old
        BY <1>2, <1>6
    <2>2. QED
        BY <1>1, <2>1, Smaller
<1>7. QED
    BY <1>3, <1>5, <1>6

LEMMA RedeliveryShrinks ==
    ASSUME NEW p \in SUBSET Events, NEW newp \in SUBSET p, NEW k \in Keys, NEW newk \in Keys,
           k <= newk, NEW h, Redelivered(p, h, k)
    PROVE  Redelivered(newp, h, newk)
<1> SUFFICES ASSUME NEW e \in h \cap newp, e > newk
             PROVE  Unsaved(newp, newk, e) <= CheckpointInterval
    BY DEF Redelivered, Unsaved
<1>1. e > k
    BY Numbers
<1>2. Unsaved(p, k, e) <= CheckpointInterval
    BY <1>1 DEF Redelivered, Unsaved
<1>3. newp \in SUBSET Events
    OBVIOUS
<1>4. Unsaved(newp, newk, e) <= Unsaved(p, k, e)
    BY UnsavedShrinks
<1>5. Unsaved(newp, newk, e) \in Nat /\ Unsaved(p, k, e) \in Nat
    BY <1>3, UnsavedType
<1>6. QED
    BY <1>2, <1>4, <1>5, Numbers

(* The next event after c is handed over. *)
LEMMA RedeliveryNext ==
    ASSUME NEW p \in SUBSET Events, NEW k \in Keys, NEW c \in Keys, NEW h, Redelivered(p, h, k),
           NEW e \in Events, e > c, \A f \in p : f <= e => f <= c \/ f = e,
           Unsaved(p, k, c) < CheckpointInterval
    PROVE  Redelivered(p, h \cup {e}, k)
<1>1. Unsaved(p, k, e) <= CheckpointInterval
    <2>1. Unsaved(p, k, e) <= Unsaved(p, k, c) + 1
        BY UnsavedNext
    <2>2. Unsaved(p, k, e) \in Nat /\ Unsaved(p, k, c) \in Nat
        BY UnsavedType
    <2>3. QED
        BY <2>1, <2>2, Numbers
<1>2. QED
    BY <1>1 DEF Redelivered, Unsaved

LEMMA RedeliveryBound ==
    ASSUME NEW p \in SUBSET Events, NEW k \in Keys, NEW h \in SUBSET Events, Redelivered(p, h, k),
           h \cap Refused = {}
    PROVE  Cardinality({e \in h : e > k} \cap p) <= CheckpointInterval
<1> DEFINE ahead == {e \in h : e > k} \cap p
<1>1. CASE ahead = {}
    BY <1>1, None, Numbers
<1>2. CASE ahead # {}
    <2>1. PICK last \in ahead : \A e \in ahead : e <= last
        BY <1>2, LastEvent
    <2>2. Unsaved(p, k, last) <= CheckpointInterval
        BY <2>1 DEF Redelivered, Unsaved
    <2>3. \A e \in ahead : e \in UpTo(Owed(p, k), last)
        BY <2>1, OwedSets
    <2>4. Cardinality(ahead) <= Unsaved(p, k, last) /\ Cardinality(ahead) \in Nat
        BY <2>3, OwedSets, Smaller DEF Unsaved
    <2>5. QED
        BY <2>2, <2>4, UnsavedType, Numbers
<1>3. QED
    BY <1>1, <1>2

-----------------------------------------------------------------------------
(* What a step leaves as it was.                                           *)

LEMMA Shapes ==
    ASSUME Types
    PROVE  /\ \A r \in Runs : /\ run[r] \in ProgressRow /\ run[r].status \in Statuses
                              /\ run[r].checkpoint \in Keys /\ run[r].count \in Nat
                              /\ promised[r] \in SUBSET Events /\ Pledged(r) \in SUBSET Events
                              /\ reached[r] \in SUBSET Events /\ handed[r] \in SUBSET Events
           /\ \A x \in Executors : /\ exec[x] \in ExecRow /\ exec[x].run \in Runs
                                   /\ exec[x].at \in Places /\ exec[x].then \in Statuses
                                   /\ exec[x].cursor \in Keys /\ exec[x].count \in Nat
                                   /\ exec[x].since \in Nat /\ exec[x].batch \in SUBSET Events
<1>1. ASSUME NEW r \in Runs
      PROVE  /\ run[r] \in ProgressRow /\ promised[r] \in SUBSET Events
             /\ reached[r] \in SUBSET Events /\ handed[r] \in SUBSET Events
    BY DEF Types
<1>2. ASSUME NEW x \in Executors
      PROVE  exec[x] \in ExecRow
    BY DEF Types
<1>3. QED
    BY <1>1, <1>2 DEF ProgressRow, ExecRow, Pledged

LEMMA NextShapes ==
    ASSUME Types'
    PROVE  /\ \A r \in Runs : /\ run'[r] \in ProgressRow /\ run'[r].status \in Statuses
                              /\ run'[r].checkpoint \in Keys /\ run'[r].count \in Nat
                              /\ promised'[r] \in SUBSET Events /\ Pledged(r)' \in SUBSET Events
                              /\ reached'[r] \in SUBSET Events /\ handed'[r] \in SUBSET Events
           /\ \A x \in Executors : /\ exec'[x] \in ExecRow /\ exec'[x].run \in Runs
                                   /\ exec'[x].at \in Places /\ exec'[x].then \in Statuses
                                   /\ exec'[x].cursor \in Keys /\ exec'[x].count \in Nat
                                   /\ exec'[x].since \in Nat /\ exec'[x].batch \in SUBSET Events
<1>1. ASSUME NEW r \in Runs
      PROVE  /\ run'[r] \in ProgressRow /\ promised'[r] \in SUBSET Events
             /\ reached'[r] \in SUBSET Events /\ handed'[r] \in SUBSET Events
    BY DEF Types
<1>2. ASSUME NEW x \in Executors
      PROVE  exec'[x] \in ExecRow
    BY DEF Types
<1>3. QED
    BY <1>1, <1>2 DEF ProgressRow, ExecRow, Pledged

(* What no step takes back from a run. *)
Same(r) ==
    /\ promised'[r] = promised[r] /\ reached[r] \subseteq reached'[r]
    /\ Pledged(r)' \subseteq Pledged(r)
    /\ promised[r] \cap Late \subseteq present => promised[r] \cap Late \subseteq present'
    /\ run[r].status # "none" => run'[r].status # "none"
    /\ doubled \subseteq doubled'

LEMMA RowKept ==
    ASSUME Types, Types', NEW r \in Runs, RowOK(r), Same(r), handed'[r] = handed[r],
           run'[r].checkpoint = run[r].checkpoint, run'[r].count = run[r].count,
           run'[r].status = "completed" => run[r].status = "completed" \/ Whole(r)
    PROVE  RowOK(r)'
<1>1. /\ Pledged(r) \in SUBSET Events /\ reached[r] \in SUBSET Events
      /\ run[r].checkpoint \in Keys /\ run[r].count \in Nat
    BY Shapes
<1>2. reached'[r] \in SUBSET Events /\ Pledged(r)' \in SUBSET Pledged(r) /\ reached[r] \subseteq reached'[r]
    BY NextShapes DEF Same
<1>3. Fits(Pledged(r)', reached'[r], run'[r].checkpoint, run'[r].count)
    BY <1>1, <1>2, FitsStill DEF RowOK
<1>4. r \notin doubled' => Redelivered(Pledged(r)', handed'[r], run'[r].checkpoint)
    <2>1. run[r].checkpoint <= run[r].checkpoint
        BY <1>1, Numbers
    <2>2. QED
        BY <1>1, <1>2, <2>1, RedeliveryShrinks DEF RowOK, Same
<1>5. /\ promised'[r] \subseteq Scope[r] /\ promised'[r] \cap Late \subseteq present'
      /\ handed'[r] \cap Refused = {}
    BY DEF RowOK, Same
<1>6. run'[r].status = "none" => run'[r].checkpoint = 0 /\ run'[r].count = 0 /\ handed'[r] = {}
    BY DEF RowOK, Same
<1>7. run'[r].status = "completed" => Whole(r)'
    BY DEF RowOK, Same, Whole
<1>8. QED
    BY <1>3, <1>4, <1>5, <1>6, <1>7 DEF RowOK

(* y moves elsewhere, its cursor stays. *)
LEMMA CursorMoved ==
    ASSUME Types, Types', NEW y \in Executors, NEW r \in Runs, CursorOK(y, r), Same(r),
           r \notin doubled' => run'[r].checkpoint = run[r].checkpoint,
           exec'[y].cursor = exec[y].cursor, exec'[y].count = exec[y].count,
           exec'[y].since = exec[y].since,
           exec'[y].at \in Reading => exec[y].at \in Reading,
           NextInLine(Pledged(r), exec[y].cursor, exec'[y].batch),
           exec'[y].at = "deliver" => exec'[y].batch # {},
           exec'[y].at = "set" => exec'[y].then # "none",
           exec'[y].then = "completed" => Whole(r)
    PROVE  CursorOK(y, r)'
<1>1. /\ Pledged(r) \in SUBSET Events /\ reached[r] \in SUBSET Events /\ run[r].checkpoint \in Keys
      /\ exec[y].cursor \in Keys /\ exec[y].count \in Nat /\ exec[y].since \in Nat
    BY Shapes
<1>2. /\ reached'[r] \in SUBSET Events /\ Pledged(r)' \in SUBSET Pledged(r)
      /\ reached[r] \subseteq reached'[r] /\ Pledged(r)' \in SUBSET Events
    BY NextShapes DEF Same
<1>3. Fits(Pledged(r)', reached'[r], exec'[y].cursor, exec'[y].count)
    BY <1>1, <1>2, FitsStill DEF CursorOK
<1>4. NextInLine(Pledged(r)', exec'[y].cursor, exec'[y].batch)
    BY <1>2, LineStill
<1>5. ASSUME r \notin doubled'
      PROVE  OnTime(y, r)'
    <2> DEFINE k == run[r].checkpoint
               c == exec[y].cursor
               old == Unsaved(Pledged(r), k, c)
               new == Unsaved(Pledged(r)', k, c)
    <2>1. run'[r].checkpoint = k /\ exec'[y].cursor = c /\ OnTime(y, r)
        BY <1>5 DEF CursorOK, Same
    <2>2. k <= k
        BY <1>1, Numbers
    <2>3. new <= old /\ new \in Nat /\ old \in Nat
        BY <1>1, <1>2, <2>2, UnsavedShrinks, UnsavedType
    <2>4. k <= c /\ (exec[y].at \in Reading => old <= exec[y].since /\ old < CheckpointInterval)
        BY <2>1 DEF OnTime
    <2> HIDE DEF new, old
    <2>5. exec'[y].at \in Reading => new <= exec'[y].since /\ new < CheckpointInterval
        BY <1>1, <2>3, <2>4, Numbers
    <2>6. QED
        BY <2>1, <2>4, <2>5 DEF OnTime, new
<1>6. run'[r].status # "none" /\ (exec'[y].then = "completed" => Whole(r)')
    BY DEF CursorOK, Same, Whole
<1>7. QED
    BY <1>3, <1>4, <1>5, <1>6 DEF CursorOK

LEMMA CursorKept ==
    ASSUME Types, Types', NEW y \in Executors, NEW r \in Runs, CursorOK(y, r), Same(r),
           r \notin doubled' => run'[r].checkpoint = run[r].checkpoint, exec'[y] = exec[y]
    PROVE  CursorOK(y, r)'
<1>1. NextInLine(Pledged(r), exec[y].cursor, exec'[y].batch)
    BY DEF CursorOK
<1>2. /\ exec'[y].at = "deliver" => exec'[y].batch # {}
      /\ exec'[y].at = "set" => exec'[y].then # "none"
      /\ exec'[y].then = "completed" => Whole(r)
    BY DEF CursorOK
<1>3. QED
    BY <1>1, <1>2, CursorMoved

(* x alone moves, and nobody else's checkpoint. *)
LEMMA CursorsKept ==
    ASSUME Safe, Types', NEW x \in Executors,
           \A y \in Executors \ {x} : exec'[y] = exec[y],
           \A r \in Runs : run[r].status # "none" => Same(r),
           \A r \in Runs : run'[r].checkpoint # run[r].checkpoint => Busy(x) /\ r = exec[x].run,
           doubled \subseteq doubled',
           \A r \in Runs : Busy(x)' /\ exec'[x].run = r => CursorOK(x, r)',
           \A y \in Executors \ {x} :
              Busy(x)' /\ Busy(y) /\ exec[y].run = exec'[x].run =>
                 exec[y].run \in doubled' \/ (Busy(x) /\ exec[x].run = exec'[x].run)
    PROVE  Cursors' /\ Alone'
<1>1. ASSUME NEW y \in Executors, NEW r \in Runs, Busy(y)', exec'[y].run = r
      PROVE  CursorOK(y, r)'
    <2>1. CASE y = x
        BY <1>1, <2>1
    <2>2. CASE y # x
        <3>1. exec'[y] = exec[y] /\ Busy(y) /\ exec[y].run = r
            BY <1>1, <2>2 DEF Busy
        <3>2. CursorOK(y, r)
            BY <3>1 DEF Safe, Cursors
        <3>3. Same(r)
            BY <3>2 DEF CursorOK
        <3>4. r \notin doubled' => run'[r].checkpoint = run[r].checkpoint
            BY <2>2, <3>1 DEF Safe, Alone
        <3>5. QED
            BY <3>1, <3>2, <3>3, <3>4, CursorKept DEF Safe
    <2>3. QED
        BY <2>1, <2>2
<1>2. ASSUME NEW y \in Executors, NEW z \in Executors,
             Busy(y)', Busy(z)', exec'[y].run = exec'[z].run, exec'[y].run \notin doubled', y # z
      PROVE  FALSE
    <2>1. CASE y # x /\ z # x
        <3>1. Busy(y) /\ Busy(z) /\ exec[y].run = exec[z].run /\ exec[y].run \notin doubled
            BY <1>2, <2>1 DEF Busy
        <3>2. QED
            BY <1>2, <3>1 DEF Safe, Alone
    <2>2. ASSUME NEW w \in Executors \ {x}, Busy(w)', Busy(x)', exec'[w].run = exec'[x].run,
                 exec'[x].run \notin doubled'
          PROVE  FALSE
        <3>1. exec'[w] = exec[w] /\ Busy(w) /\ exec[w].run = exec'[x].run
            BY <2>2 DEF Busy
        <3>2. Busy(x) /\ exec[x].run = exec'[x].run
            BY <2>2, <3>1
        <3>3. exec[w].run \notin doubled /\ exec[w].run = exec[x].run
            BY <2>2, <3>1, <3>2
        <3>4. QED
            BY <3>1, <3>2, <3>3 DEF Safe, Alone
    <2>3. QED
        BY <1>2, <2>1, <2>2
<1>3. Cursors'
    BY <1>1 DEF Cursors
<1>4. Alone'
    BY <1>2 DEF Alone
<1>5. QED
    BY <1>3, <1>4

(* Nobody moves. *)
LEMMA CursorsStay ==
    ASSUME Safe, Types', exec' = exec, doubled' = doubled,
           \A r \in Runs : run[r].status # "none" =>
              Same(r) /\ run'[r].checkpoint = run[r].checkpoint
    PROVE  Cursors' /\ Alone'
<1>1. ASSUME NEW y \in Executors, NEW r \in Runs, Busy(y)', exec'[y].run = r
      PROVE  CursorOK(y, r)'
    <2>1. CursorOK(y, r)
        BY <1>1 DEF Safe, Cursors, Busy
    <2>2. Same(r) /\ run'[r].checkpoint = run[r].checkpoint
        BY <2>1 DEF CursorOK
    <2>3. QED
        BY <2>1, <2>2, CursorKept DEF Safe
<1>2. Cursors'
    BY <1>1 DEF Cursors
<1>3. Alone'
    BY DEF Safe, Alone, Busy
<1>4. QED
    BY <1>2, <1>3

LEMMA AimedStill == ASSUME Safe, op' = op PROVE Aimed'
BY DEF Safe, Aimed

(* Some conditions under which nothing is taken back. *)
LEMMA SameRun ==
    ASSUME Types, NEW r \in Runs, promised'[r] = promised[r], reached[r] \subseteq reached'[r],
           present' = present, run[r].status # "none" => run'[r].status # "none",
           doubled \subseteq doubled'
    PROVE  Same(r)
<1>1. Pledged(r)' = Pledged(r)
    BY DEF Pledged
<1>2. QED
    BY <1>1 DEF Same

-----------------------------------------------------------------------------
(* The status of a run.                                                    *)

LEMMA StatusRow ==
    ASSUME Types, NEW r \in Runs, NEW status \in Statuses, SetStatus(r, status)
    PROVE  /\ run' \in [Runs -> ProgressRow] /\ run'[r].status = status
           /\ \A q \in Runs : /\ run'[q].checkpoint = run[q].checkpoint /\ run'[q].count = run[q].count
                              /\ q # r => run'[q].status = run[q].status
<1> DEFINE row == [run[r] EXCEPT !.status = status]
<1>1. run[r] \in ProgressRow /\ run \in [Runs -> ProgressRow]
    BY Shapes DEF Types
<1>2. row \in ProgressRow /\ row.status = status
      /\ row.checkpoint = run[r].checkpoint /\ row.count = run[r].count
    BY <1>1 DEF ProgressRow
<1>3. run' = [run EXCEPT ![r] = row]
    BY DEF SetStatus
<1> HIDE DEF row
<1>4. QED
    BY <1>1, <1>2, <1>3

(* The rows hold after a change of status that a whole run may be given. *)
LEMMA StatusRows ==
    ASSUME Safe, Types', NEW r \in Runs, NEW status \in Statuses \ {"none"}, SetStatus(r, status),
           status = "completed" => Whole(r),
           UNCHANGED <<present, promised, reached, handed, doubled>>
    PROVE  /\ Rows' /\ \A q \in Runs : Same(q) /\ run'[q].checkpoint = run[q].checkpoint
<1>1. ASSUME NEW q \in Runs
      PROVE  /\ Same(q) /\ run'[q].checkpoint = run[q].checkpoint /\ run'[q].count = run[q].count
             /\ run'[q].status = "completed" => run[q].status = "completed" \/ Whole(q)
    <2>1. /\ run'[q].checkpoint = run[q].checkpoint /\ run'[q].count = run[q].count
          /\ q # r => run'[q].status = run[q].status
          /\ run'[r].status = status
        BY StatusRow DEF Safe
    <2>2. Same(q)
        BY <2>1, SameRun DEF Safe
    <2>3. QED
        BY <2>1, <2>2
<1>2. ASSUME NEW q \in Runs
      PROVE  RowOK(q)'
    <2>1. RowOK(q) /\ handed'[q] = handed[q] /\ Types
        BY DEF Safe, Rows
    <2>2. QED
        BY <1>1, <2>1, RowKept
<1>3. QED
    BY <1>1, <1>2 DEF Rows

-----------------------------------------------------------------------------
(* The moves of an executor.                                               *)

LEMMA SetTyped ==
    ASSUME Types, NEW x \in Executors, NEW row \in ExecRow, Set(x, row)
    PROVE  /\ exec' \in [Executors -> ExecRow] /\ exec'[x] = row
           /\ \A y \in Executors \ {x} : exec'[y] = exec[y]
BY DEF Types, Set

LEMMA IdleTyped == IdleExecutor \in ExecRow /\ IdleExecutor.at = "idle"
<1>1. (CHOOSE r \in Runs : TRUE) \in Runs
    BY ScopeAssumption
<1>2. QED
    BY <1>1, Numbers DEF IdleExecutor, ExecRow, Places, Statuses

(* x stays with its run and its cursor. *)
Stays(x, row) ==
    /\ row.run = exec[x].run /\ row.cursor = exec[x].cursor
    /\ row.count = exec[x].count /\ row.since = exec[x].since
    /\ row.at \in Reading => exec[x].at \in Reading
    /\ NextInLine(Pledged(exec[x].run), exec[x].cursor, row.batch)
    /\ row.at = "deliver" => row.batch # {}
    /\ row.at = "set" => row.then # "none"
    /\ row.then = "completed" => Whole(exec[x].run)

LEMMA MoveCursors ==
    ASSUME Safe, Types', NEW x \in Executors, Busy(x), NEW row \in ExecRow, Set(x, row),
           \A r \in Runs : Same(r) /\ run'[r].checkpoint = run[r].checkpoint,
           doubled' = doubled, row.at = "idle" \/ Stays(x, row)
    PROVE  Cursors' /\ Alone'
<1>1. exec'[x] = row /\ \A y \in Executors \ {x} : exec'[y] = exec[y]
    BY SetTyped DEF Safe
<1>2. ASSUME NEW r \in Runs, Busy(x)', exec'[x].run = r
      PROVE  CursorOK(x, r)'
    <2>1. Stays(x, row) /\ exec[x].run = r
        BY <1>1, <1>2 DEF Busy, Stays
    <2>2. CursorOK(x, r)
        BY <2>1 DEF Safe, Cursors
    <2>3. QED
        BY <1>1, <2>1, <2>2, CursorMoved DEF Safe, Stays
<1>3. Busy(x)' => exec'[x].run = exec[x].run
    BY <1>1 DEF Busy, Stays
<1>4. QED
    BY <1>1, <1>2, <1>3, CursorsKept

(* Where x is when it is to save its progress. *)
Leaving(x, status) == [exec[x] EXCEPT !.at = "save", !.then = status, !.batch = {}]

LEMMA LeavingStays ==
    ASSUME Safe, NEW x \in Executors, Busy(x), NEW status \in Statuses,
           status = "completed" => Whole(exec[x].run)
    PROVE  Leaving(x, status) \in ExecRow /\ Stays(x, Leaving(x, status))
<1>1. exec[x] \in ExecRow
    BY Shapes DEF Safe
<1> DEFINE row == Leaving(x, status)
<1>2. /\ row \in ExecRow /\ row.run = exec[x].run /\ row.cursor = exec[x].cursor
      /\ row.count = exec[x].count /\ row.since = exec[x].since
      /\ row.at = "save" /\ row.then = status /\ row.batch = {}
    BY <1>1 DEF Leaving, ExecRow, Places
<1> HIDE DEF row
<1>3. Stays(x, row)
    BY <1>2 DEF Stays, Reading, NextInLine
<1>4. QED
    BY <1>2, <1>3 DEF row

(* x moves and the rows stay as they are. *)
LEMMA MoveSafe ==
    ASSUME Safe, NEW x \in Executors, Busy(x), NEW row \in ExecRow, Set(x, row),
           row.at = "idle" \/ Stays(x, row),
           UNCHANGED <<present, run, op, promised, reached, handed, doubled, commands>>,
           faults' \in 0..MaxFaults
    PROVE  Safe'
<1>1. Types'
    BY SetTyped DEF Safe, Types
<1>2. ASSUME NEW r \in Runs
      PROVE  Same(r) /\ RowOK(r)'
    <2>1. Same(r)
        BY SameRun DEF Safe
    <2>2. RowOK(r)
        BY DEF Safe, Rows
    <2>3. QED
        BY <1>1, <2>1, <2>2, RowKept DEF Safe
<1>3. Cursors' /\ Alone'
    BY <1>1, <1>2, MoveCursors
<1>4. QED
    BY <1>1, <1>2, <1>3, AimedStill DEF Safe, Rows

LEMMA FaultTyped == ASSUME Types PROVE faults' = faults \/ Fault => faults' \in 0..MaxFaults
BY BoundsAssumption DEF Types, Fault

LEMMA CheckSafe == ASSUME Safe, NEW x \in Executors, Check(x) PROVE Safe'
<1>1. Busy(x) /\ exec[x] \in ExecRow /\ exec[x].at = "check" /\ faults' \in 0..MaxFaults
    BY Shapes, FaultTyped DEF Check, Busy, Safe
<1>2. CASE Leave(x, "none")
    <2>1. Leaving(x, "none") \in ExecRow /\ Stays(x, Leaving(x, "none"))
        BY <1>1, LeavingStays DEF Statuses
    <2>2. Set(x, Leaving(x, "none"))
        BY <1>2 DEF Leave, Leaving
    <2>3. QED
        BY <1>1, <2>1, <2>2, MoveSafe DEF Check
<1>3. CASE Set(x, [exec[x] EXCEPT !.at = "read"])
    <2> DEFINE row == [exec[x] EXCEPT !.at = "read"]
    <2>1. /\ row \in ExecRow /\ row.at = "read" /\ row.run = exec[x].run /\ row.cursor = exec[x].cursor
          /\ row.count = exec[x].count /\ row.since = exec[x].since
          /\ row.then = exec[x].then /\ row.batch = exec[x].batch
        BY <1>1 DEF ExecRow, Places
    <2> HIDE DEF row
    <2>2. exec[x].run \in Runs /\ CursorOK(x, exec[x].run)
        BY <1>1, Shapes DEF Safe, Cursors
    <2>3. Stays(x, row)
        BY <1>1, <2>1, <2>2 DEF Stays, Reading, CursorOK
    <2>4. Set(x, row)
        BY <1>3 DEF row
    <2>5. QED
        BY <1>1, <2>1, <2>3, <2>4, MoveSafe DEF Check
<1>4. QED
    BY <1>2, <1>3 DEF Check

LEMMA InterruptSafe == ASSUME Safe, NEW x \in Executors, Interrupt(x) PROVE Safe'
<1>1. Busy(x) /\ faults' \in 0..MaxFaults
    BY FaultTyped DEF Interrupt, Busy, Safe
<1>2. Leaving(x, "paused") \in ExecRow /\ Stays(x, Leaving(x, "paused"))
    BY <1>1, LeavingStays DEF Statuses
<1>3. Set(x, Leaving(x, "paused"))
    BY DEF Interrupt, Leave, Leaving
<1>4. QED
    BY <1>1, <1>2, <1>3, MoveSafe DEF Interrupt

LEMMA CrashSafe == ASSUME Safe, NEW x \in Executors, Crash(x) PROVE Safe'
<1>1. Busy(x) /\ faults' \in 0..MaxFaults /\ Set(x, IdleExecutor)
    BY FaultTyped DEF Crash, Busy, Safe, Return
<1>2. QED
    BY <1>1, IdleTyped, MoveSafe DEF Crash

-----------------------------------------------------------------------------
(* The batch that is read next.                                            *)

LEMMA FirstOfAll ==
    ASSUME NEW S \in SUBSET Events
    PROVE  /\ FirstOf(S) \subseteq S
           /\ \A f \in FirstOf(S), e \in S : e <= f => e \in FirstOf(S)
           /\ S # {} => \E e \in FirstOf(S) : \A f \in S : e <= f
<1> DEFINE Below(e) == {f \in S : f < e}
<1>1. FirstOf(S) = {e \in S : Cardinality(Below(e)) < BatchSize}
    BY DEF FirstOf
<1>2. \A e \in S : Below(e) \in SUBSET Events
    OBVIOUS
<1>3. ASSUME NEW f \in FirstOf(S), NEW e \in S, e <= f
      PROVE  e \in FirstOf(S)
    <2>1. f \in S /\ Cardinality(Below(f)) < BatchSize
        BY <1>1
    <2>2. \A g \in S : g < e => g < f
        <3>1. e \in Nat /\ f \in Nat /\ \A g \in S : g \in Nat
            BY <2>1, Numbers
        <3>2. QED
            BY <1>3, <3>1
    <2>3. Below(e) \in SUBSET Below(f)
        BY <2>2
    <2> HIDE DEF Below
    <2>4. /\ Cardinality(Below(e)) <= Cardinality(Below(f))
          /\ Cardinality(Below(e)) \in Nat /\ Cardinality(Below(f)) \in Nat
        BY <1>2, <2>1, <2>3, Smaller
    <2>5. Cardinality(Below(e)) < BatchSize
        BY <2>1, <2>4, Numbers
    <2>6. QED
        BY <1>1, <2>5
<1>4. ASSUME S # {}
      PROVE  \E e \in FirstOf(S) : \A f \in S : e <= f
    <2>1. PICK e \in S : \A f \in S : e <= f
        BY <1>4, FirstEvent
    <2>2. \A f \in S : ~(f < e)
        BY <2>1, Numbers
    <2>3. Below(e) = {}
        BY <2>2
    <2>4. Cardinality(Below(e)) < BatchSize
        BY <2>3, None, Numbers
    <2>5. QED
        BY <1>1, <2>1, <2>4
<1>5. QED
    BY <1>1, <1>3, <1>4

LEMMA RemainingSet ==
    ASSUME Types, NEW x \in Executors
    PROVE  /\ Remaining(x) \in SUBSET Events
           /\ \A e : e \in Remaining(x) <=>
                 /\ e \in Scope[exec[x].run] /\ e > exec[x].cursor
                 /\ e \in Letters \/ e \in present
<1>1. Scope[exec[x].run] \in SUBSET Events
    BY Shapes, ScopeAssumption
<1>2. QED
    BY <1>1 DEF Remaining

LEMMA NextBatch ==
    ASSUME Safe, NEW x \in Executors
    PROVE  NextInLine(Pledged(exec[x].run), exec[x].cursor, FirstOf(Remaining(x)) \cap present)
<1> DEFINE r == exec[x].run
           c == exec[x].cursor
           all == Remaining(x)
           batch == FirstOf(all) \cap present
<1>1. r \in Runs /\ c \in Keys /\ all \in SUBSET Events
    BY Shapes, RemainingSet DEF Safe
<1>2. ASSUME NEW f \in batch
      PROVE  f > c
    <2>1. f \in all
        BY <1>1, FirstOfAll
    <2>2. QED
        BY <2>1, RemainingSet DEF Safe
<1>3. ASSUME NEW f \in batch, NEW e \in Pledged(r), e <= f, ~(e <= c)
      PROVE  e \in batch
    <2>1. e \in Scope[r] /\ e \in present /\ e \in Events
        <3>1. promised[r] \subseteq Scope[r] /\ promised[r] \in SUBSET Events
            BY <1>1, Shapes DEF Safe, Rows, RowOK
        <3>2. QED
            BY <3>1 DEF Pledged
    <2>2. e > c
        BY <1>1, <1>3, <2>1, Numbers
    <2>3. e \in all
        BY <2>1, <2>2, RemainingSet DEF Safe
    <2> HIDE DEF all
    <2>4. QED
        BY <1>1, <1>3, <2>1, <2>3, FirstOfAll
<1>4. QED
    BY <1>2, <1>3 DEF NextInLine

(* An empty batch: nothing promised is left. *)
LEMMA NothingIsLeft ==
    ASSUME Safe, NEW x \in Executors, Busy(x), FirstOf(Remaining(x)) \cap present = {}
    PROVE  Whole(exec[x].run)
<1> DEFINE r == exec[x].run
           c == exec[x].cursor
           all == Remaining(x)
<1>1. r \in Runs /\ c \in Keys /\ all \in SUBSET Events /\ RowOK(r) /\ CursorOK(x, r)
    BY Shapes, RemainingSet DEF Safe, Rows, Cursors
<1>2. CASE Scope[r] \subseteq Letters
    BY <1>1, <1>2 DEF RowOK, Whole, Pledged
<1>3. CASE Scope[r] \cap Letters = {}
    <2>1. \A e \in all : e \in present
        BY <1>3, RemainingSet DEF Safe
    <2>2. all = {}
        <3> HIDE DEF all
        <3>1. FirstOf(all) \subseteq all /\ (all # {} => FirstOf(all) # {})
            BY <1>1, FirstOfAll
        <3>2. FirstOf(all) \cap present = {}
            BY DEF all
        <3>3. QED
            BY <2>1, <3>1, <3>2
    <2>3. ASSUME NEW e \in Pledged(r) \ Letters
          PROVE  e \in reached[r]
        <3>1. e \in Scope[r] /\ e \in present /\ e \in Pledged(r) /\ e \in Events
            BY <1>1, Shapes DEF RowOK, Pledged, Safe
        <3>2. ~(e > c)
            BY <2>2, <3>1, RemainingSet DEF Safe
        <3>3. e <= c
            BY <1>1, <3>1, <3>2, Numbers
        <3>4. e \in UpTo(Pledged(r), c)
            BY <3>1, <3>3, UpToSet
        <3>5. QED
            BY <1>1, <3>4 DEF CursorOK, Fits
    <2>4. QED
        BY <2>3 DEF Whole
<1>4. QED
    BY <1>1, <1>2, <1>3, ScopeAssumption

LEMMA ReadBatchSafe == ASSUME Safe, NEW x \in Executors, ReadBatch(x) PROVE Safe'
<1> DEFINE batch == FirstOf(Remaining(x)) \cap present
           row == [exec[x] EXCEPT !.at = "deliver", !.batch = batch]
<1>1. Busy(x) /\ exec[x] \in ExecRow /\ exec[x].at = "read" /\ faults' \in 0..MaxFaults
    BY Shapes, FaultTyped DEF ReadBatch, Busy, Safe
<1>2. CASE batch # {} /\ Set(x, row)
    <2>1. batch \in SUBSET Events /\ NextInLine(Pledged(exec[x].run), exec[x].cursor, batch)
        BY NextBatch DEF Safe, Types
    <2> HIDE DEF batch
    <2>2. /\ row \in ExecRow /\ row.at = "deliver" /\ row.run = exec[x].run /\ row.cursor = exec[x].cursor
          /\ row.count = exec[x].count /\ row.since = exec[x].since
          /\ row.then = exec[x].then /\ row.batch = batch
        BY <1>1, <2>1 DEF ExecRow, Places
    <2> HIDE DEF row
    <2>3. exec[x].run \in Runs /\ CursorOK(x, exec[x].run)
        BY <1>1, Shapes DEF Safe, Cursors
    <2>4. Stays(x, row)
        BY <1>1, <1>2, <2>1, <2>2, <2>3 DEF Stays, Reading, CursorOK
    <2>5. QED
        BY <1>1, <1>2, <2>2, <2>4, MoveSafe DEF ReadBatch
<1>3. CASE batch = {} /\ Leave(x, "completed")
    <2>1. Leaving(x, "completed") \in ExecRow /\ Stays(x, Leaving(x, "completed"))
        BY <1>1, <1>3, LeavingStays, NothingIsLeft DEF Statuses
    <2>2. Set(x, Leaving(x, "completed"))
        BY <1>3 DEF Leave, Leaving
    <2>3. QED
        BY <1>1, <2>1, <2>2, MoveSafe DEF ReadBatch
<1>4. QED
    BY <1>2, <1>3 DEF ReadBatch

-----------------------------------------------------------------------------
(* Deliveries.                                                             *)

(* The event of x's batch is the next that was promised. *)
LEMMA NextEvent ==
    ASSUME Safe, NEW x \in Executors, exec[x].at = "deliver"
    PROVE  /\ EventOf(x) \in exec[x].batch /\ EventOf(x) \in Events
           /\ EventOf(x) > exec[x].cursor
           /\ \A f \in Pledged(exec[x].run) : f <= EventOf(x) => f <= exec[x].cursor \/ f = EventOf(x)
           /\ \A f \in exec[x].batch \ {EventOf(x)} : f > EventOf(x)
<1> DEFINE e == EventOf(x)
           batch == exec[x].batch
           r == exec[x].run
<1>1. batch \in SUBSET Events /\ r \in Runs /\ CursorOK(x, r)
    BY Shapes DEF Safe, Cursors, Busy
<1>2. batch # {}
    BY <1>1 DEF CursorOK
<1>3. \E f \in batch : \A g \in batch : f <= g
    BY <1>1, <1>2, FirstEvent
<1>4. e \in batch /\ \A f \in batch : e <= f
    BY <1>3 DEF EventOf
<1> HIDE DEF e
<1>5. \A f \in batch : f \in Nat
    BY <1>1, Numbers
<1>6. \A f \in batch \ {e} : f > e
    BY <1>4, <1>5
<1>7. e > exec[x].cursor
    BY <1>1, <1>4 DEF CursorOK, NextInLine
<1>8. \A f \in Pledged(r) : f <= e => f <= exec[x].cursor \/ f = e
    <2>1. ASSUME NEW f \in Pledged(r), f <= e, ~(f <= exec[x].cursor)
          PROVE  f = e
        <3>1. f \in batch
            BY <1>1, <1>4, <2>1 DEF CursorOK, NextInLine
        <3>2. QED
            BY <1>4, <1>5, <2>1, <3>1
    <2>2. QED
        BY <2>1
<1>9. QED
    BY <1>1, <1>4, <1>6, <1>7, <1>8 DEF e

(* r hands over e, or nothing. *)
LEMMA RowHands ==
    ASSUME Types, Types', NEW r \in Runs, RowOK(r), Same(r), run' = run,
           run[r].status # "none", NEW e \in Events \ Refused,
           handed'[r] = handed[r] \/ handed'[r] = handed[r] \cup {e},
           r \notin doubled => Redelivered(Pledged(r), handed[r] \cup {e}, run[r].checkpoint)
    PROVE  RowOK(r)'
<1>1. /\ Pledged(r) \in SUBSET Events /\ reached[r] \in SUBSET Events
      /\ run[r].checkpoint \in Keys /\ run[r].count \in Nat
    BY Shapes
<1>2. reached'[r] \in SUBSET Events /\ Pledged(r)' \in SUBSET Pledged(r) /\ reached[r] \subseteq reached'[r]
    BY NextShapes DEF Same
<1>3. Fits(Pledged(r)', reached'[r], run'[r].checkpoint, run'[r].count)
    BY <1>1, <1>2, FitsStill DEF RowOK
<1>4. r \notin doubled' => Redelivered(Pledged(r)', handed'[r], run'[r].checkpoint)
    <2>1. run[r].checkpoint <= run[r].checkpoint
        BY <1>1, Numbers
    <2>2. r \notin doubled => Redelivered(Pledged(r), handed'[r], run[r].checkpoint)
        BY DEF RowOK
    <2>3. QED
        BY <1>1, <1>2, <2>1, <2>2, RedeliveryShrinks DEF Same
<1>5. /\ promised'[r] \subseteq Scope[r] /\ promised'[r] \cap Late \subseteq present'
      /\ handed'[r] \cap Refused = {}
    BY DEF RowOK, Same
<1>6. run'[r].status # "none" /\ (run'[r].status = "completed" => Whole(r)')
    BY DEF RowOK, Same, Whole
<1>7. QED
    BY <1>3, <1>4, <1>5, <1>6 DEF RowOK

(* Alone with its run, x may hand over its event. *)
LEMMA MayHand ==
    ASSUME Safe, NEW x \in Executors, exec[x].at = "deliver", exec[x].run \notin doubled
    PROVE  Redelivered(Pledged(exec[x].run), handed[exec[x].run] \cup {EventOf(x)},
                       run[exec[x].run].checkpoint)
<1> DEFINE r == exec[x].run
           k == run[r].checkpoint
           c == exec[x].cursor
           e == EventOf(x)
<1>1. /\ r \in Runs /\ c \in Keys
      /\ CursorOK(x, r) /\ RowOK(r) /\ Busy(x)
    BY Shapes DEF Safe, Cursors, Rows, Busy
<1>2. Pledged(r) \in SUBSET Events /\ k \in Keys
    BY <1>1, Shapes DEF Safe
<1>3. Redelivered(Pledged(r), handed[r], k) /\ Unsaved(Pledged(r), k, c) < CheckpointInterval
    BY <1>1 DEF RowOK, CursorOK, OnTime, Reading
<1>4. e \in Events /\ e > c /\ \A f \in Pledged(r) : f <= e => f <= c \/ f = e
    BY NextEvent
<1> HIDE DEF r, k, c, e
<1>5. Redelivered(Pledged(r), handed[r] \cup {e}, k)
    BY <1>1, <1>2, <1>3, <1>4, RedeliveryNext
<1>6. QED
    BY <1>5 DEF r, k, e

LEMMA HandsTyped ==
    ASSUME Types, NEW r \in Runs, NEW e \in Events, NEW f, f = [handed EXCEPT ![r] = @ \cup {e}]
    PROVE  /\ f \in [Runs -> SUBSET Events] /\ f[r] = handed[r] \cup {e}
           /\ \A q \in Runs \ {r} : f[q] = handed[q]
BY DEF Types

LEMMA DeliveryThrowsSafe == ASSUME Safe, NEW x \in Executors, DeliveryThrows(x) PROVE Safe'
<1> DEFINE r == exec[x].run
           e == EventOf(x)
           row == Leaving(x, "failed")
<1>1. /\ Busy(x) /\ r \in Runs /\ faults' \in 0..MaxFaults /\ exec[x].at = "deliver"
      /\ e \in Events \ Refused
    BY Shapes, FaultTyped, NextEvent DEF DeliveryThrows, Busy, Safe
<1>2. row \in ExecRow /\ Stays(x, row)
    BY <1>1, LeavingStays DEF Statuses
<1>3. Set(x, row)
    BY DEF DeliveryThrows, Leave, Leaving
<1> HIDE DEF row
<1>4. /\ handed' \in [Runs -> SUBSET Events]
      /\ handed'[r] = handed[r] \/ handed'[r] = handed[r] \cup {e}
      /\ \A q \in Runs \ {r} : handed'[q] = handed[q]
    <2>1. handed' = handed \/ handed' = [handed EXCEPT ![r] = @ \cup {e}]
        BY DEF DeliveryThrows
    <2>2. handed \in [Runs -> SUBSET Events]
        BY DEF Safe, Types
    <2>3. QED
        BY <1>1, <2>1, <2>2, HandsTyped DEF Safe
<1>5. Types'
    BY <1>1, <1>2, <1>3, <1>4, SetTyped DEF Safe, Types, DeliveryThrows
<1>6. ASSUME NEW q \in Runs
      PROVE  Same(q) /\ RowOK(q)'
    <2>1. Same(q)
        BY SameRun DEF Safe, DeliveryThrows
    <2>2. RowOK(q) /\ run' = run
        BY DEF Safe, Rows, DeliveryThrows
    <2>3. CASE q # r
        BY <1>4, <1>5, <2>1, <2>2, <2>3, RowKept DEF Safe
    <2>4. CASE q = r
        <3>1. run[r].status # "none"
            BY <1>1 DEF Safe, Cursors, CursorOK
        <3>2. r \notin doubled => Redelivered(Pledged(r), handed[r] \cup {e}, run[r].checkpoint)
            BY <1>1, MayHand
        <3> HIDE DEF r, e
        <3>3. QED
            BY <1>1, <1>4, <1>5, <2>1, <2>2, <2>4, <3>1, <3>2, RowHands DEF Safe
    <2>5. QED
        BY <2>1, <2>3, <2>4
<1>7. Cursors' /\ Alone'
    BY <1>1, <1>2, <1>3, <1>5, <1>6, MoveCursors DEF DeliveryThrows
<1>8. QED
    BY <1>5, <1>6, <1>7, AimedStill DEF Safe, Rows, DeliveryThrows

(* x counts its event and moves over it. *)
LEMMA CountTyped ==
    ASSUME Safe, NEW x \in Executors, exec[x].at = "deliver", NEW due \in BOOLEAN, Count(x, due)
    PROVE  /\ exec' \in [Executors -> ExecRow]
           /\ \A y \in Executors \ {x} : exec'[y] = exec[y]
           /\ exec'[x].run = exec[x].run /\ exec'[x].then = exec[x].then
           /\ exec'[x].cursor = EventOf(x) /\ exec'[x].count = exec[x].count + 1
           /\ exec'[x].since = exec[x].since + 1 /\ exec'[x].batch = exec[x].batch \ {EventOf(x)}
           /\ exec'[x].at = NextStop(exec[x].batch \ {EventOf(x)}, due)
           /\ reached' \in [Runs -> SUBSET Events]
           /\ reached'[exec[x].run] = reached[exec[x].run] \cup {EventOf(x)}
           /\ \A q \in Runs \ {exec[x].run} : reached'[q] = reached[q]
<1> DEFINE e == EventOf(x)
           rest == exec[x].batch \ {e}
           stop == NextStop(rest, due)
           row == [exec[x] EXCEPT !.cursor = e, !.count = exec[x].count + 1,
                                  !.since = exec[x].since + 1, !.batch = rest, !.at = stop]
<1>1. Set(x, row) /\ reached' = [reached EXCEPT ![exec[x].run] = @ \cup {e}]
    BY DEF Count
<1>2. e \in Events /\ e \in Keys
    BY NextEvent, Numbers
<1>3. stop \in Places
    BY DEF NextStop, Places
<1>4. exec[x] \in ExecRow /\ exec[x].run \in Runs /\ rest \in SUBSET Events
    BY Shapes DEF Safe
<1>5. exec[x].count + 1 \in Nat /\ exec[x].since + 1 \in Nat
    BY Shapes DEF Safe
<1> HIDE DEF e, rest, stop
<1>6. /\ row \in ExecRow /\ row.run = exec[x].run /\ row.then = exec[x].then
      /\ row.cursor = e /\ row.count = exec[x].count + 1 /\ row.since = exec[x].since + 1
      /\ row.batch = rest /\ row.at = stop
    BY <1>2, <1>3, <1>4, <1>5 DEF ExecRow
<1> HIDE DEF row
<1>7. /\ exec' \in [Executors -> ExecRow] /\ exec'[x] = row
      /\ \A y \in Executors \ {x} : exec'[y] = exec[y]
    BY <1>1, <1>6, SetTyped DEF Safe
<1>8. reached \in [Runs -> SUBSET Events]
    BY DEF Safe, Types
<1>9. /\ reached' \in [Runs -> SUBSET Events] /\ reached'[exec[x].run] = reached[exec[x].run] \cup {e}
      /\ \A q \in Runs \ {exec[x].run} : reached'[q] = reached[q]
    BY <1>1, <1>2, <1>4, <1>8
<1>10. QED
    BY <1>6, <1>7, <1>9 DEF e, rest, stop

(* What is unsaved then is on time, unless a checkpoint is due. *)
LEMMA CountOnTime ==
    ASSUME Safe, NEW x \in Executors, NEW r \in Runs, r = exec[x].run, r \notin doubled,
           exec[x].at = "deliver", NEW due \in BOOLEAN, Count(x, due), UNCHANGED <<present, run, promised>>,
           due \/ EventOf(x) \in Refused \/ exec[x].since + 1 < CheckpointInterval
    PROVE  OnTime(x, r)'
<1> DEFINE p == Pledged(r)
           k == run[r].checkpoint
           c == exec[x].cursor
           e == EventOf(x)
           old == Unsaved(p, k, c)
           new == Unsaved(p, k, e)
           since == exec[x].since
<1>1. r \in Runs /\ c \in Keys /\ since \in Nat /\ CursorOK(x, r)
    BY Shapes DEF Safe, Cursors, Busy
<1>2. p \in SUBSET Events /\ k \in Keys
    BY <1>1, Shapes DEF Safe
<1>3. k <= c /\ old <= since /\ old < CheckpointInterval
    BY <1>1 DEF CursorOK, OnTime, Reading
<1>4. e \in Events /\ e > c /\ \A f \in p : f <= e => f <= c \/ f = e
    BY NextEvent
<1>5. k <= e
    BY <1>1, <1>2, <1>3, <1>4, Numbers
<1>6. /\ exec'[x].run = r /\ exec'[x].cursor = e /\ exec'[x].since = since + 1
      /\ exec'[x].at = NextStop(exec[x].batch \ {e}, due)
    BY CountTyped
<1>7. Pledged(r)' = p /\ run'[r].checkpoint = k
    BY DEF Pledged
<1>8. exec'[x].at \in Reading => ~due
    BY <1>6 DEF NextStop, Reading
<1> HIDE DEF p, k, c, e, since
<1>9. new <= old + 1 /\ (e \in Refused => new <= old) /\ new \in Nat /\ old \in Nat
    BY <1>1, <1>2, <1>4, UnsavedNext, UnsavedType
<1> HIDE DEF old, new
<1>10. exec'[x].at \in Reading => new <= since + 1 /\ new < CheckpointInterval
    <2>1. due \/ e \in Refused \/ since + 1 < CheckpointInterval
        BY DEF e, since
    <2>2. QED
        BY <1>1, <1>3, <1>8, <1>9, <2>1, Numbers
<1>11. QED
    BY <1>5, <1>6, <1>7, <1>10 DEF OnTime, new

LEMMA CountCursor ==
    ASSUME Safe, NEW x \in Executors, NEW r \in Runs, r = exec[x].run,
           exec[x].at = "deliver", NEW due \in BOOLEAN, Count(x, due), UNCHANGED <<present, run, promised, doubled>>,
           due \/ EventOf(x) \in Refused \/ exec[x].since + 1 < CheckpointInterval
    PROVE  exec'[x].run = r /\ CursorOK(x, r)'
<1> DEFINE p == Pledged(r)
           c == exec[x].cursor
           n == exec[x].count
           e == EventOf(x)
           rest == exec[x].batch \ {e}
<1>1. r \in Runs /\ c \in Keys /\ n \in Nat /\ CursorOK(x, r)
    BY Shapes DEF Safe, Cursors, Busy
<1>2. p \in SUBSET Events /\ reached[r] \in SUBSET Events
    BY <1>1, Shapes DEF Safe
<1>3. /\ e \in Events /\ e > c /\ \A f \in p : f <= e => f <= c \/ f = e
      /\ \A f \in rest : f > e
    BY NextEvent
<1>4. /\ exec'[x].run = r /\ exec'[x].then = exec[x].then
      /\ exec'[x].cursor = e /\ exec'[x].count = n + 1 /\ exec'[x].batch = rest
      /\ exec'[x].at = NextStop(rest, due)
      /\ reached'[r] = reached[r] \cup {e}
    BY CountTyped
<1>5. Pledged(r)' = p /\ promised'[r] = promised[r] /\ run'[r].status = run[r].status
    BY DEF Pledged
<1>6. Fits(p, reached[r], c, n) /\ NextInLine(p, c, exec[x].batch)
    BY <1>1 DEF CursorOK
<1>7. r \notin doubled' => OnTime(x, r)'
    BY <1>4, CountOnTime
<1> HIDE DEF p, c, n
<1>8. Fits(p, reached[r] \cup {e}, e, n + 1)
    <2> HIDE DEF e
    <2>1. QED
        BY <1>1, <1>2, <1>3, <1>6, FitsNext
<1>9. NextInLine(p, e, rest)
    <2>1. ASSUME NEW f \in rest, NEW g \in p, g <= f, ~(g <= e)
          PROVE  g \in rest
        <3>1. f \in exec[x].batch /\ g \in Events
            BY <1>2, <2>1
        <3>2. g <= c \/ g \in exec[x].batch
            BY <1>6, <2>1, <3>1 DEF NextInLine
        <3>3. g \in Nat /\ e \in Nat /\ c \in Nat
            BY <1>1, <1>3, <3>1, Numbers
        <3>4. ~(g <= c) /\ g # e
            BY <1>3, <2>1, <3>3
        <3>5. QED
            BY <3>2, <3>4
    <2>2. QED
        BY <1>3, <2>1 DEF NextInLine
<1> HIDE DEF e, rest
<1>10. /\ exec'[x].at = "deliver" => exec'[x].batch # {}
       /\ exec'[x].at # "set"
    BY <1>4 DEF NextStop
<1>11. /\ run'[r].status # "none"
       /\ exec'[x].then = "completed" => Whole(r)'
    <2>1. exec'[x].then = exec[x].then /\ run'[r].status = run[r].status
        BY <1>4, <1>5
    <2>2. run[r].status # "none" /\ (exec[x].then = "completed" => Whole(r))
        BY <1>1 DEF CursorOK
    <2>3. Whole(r) => Whole(r)'
        BY <1>4, <1>5 DEF Whole, p
    <2>4. QED
        BY <2>1, <2>2, <2>3
<1>12. QED
    BY <1>4, <1>5, <1>7, <1>8, <1>9, <1>10, <1>11 DEF CursorOK

LEMMA CountSafe ==
    ASSUME Safe, NEW x \in Executors, exec[x].at = "deliver",
           NEW due \in BOOLEAN, Count(x, due),
           UNCHANGED <<present, run, op, promised, doubled, commands, faults>>,
           due \/ EventOf(x) \in Refused \/ exec[x].since + 1 < CheckpointInterval,
           handed' = handed \/ (EventOf(x) \notin Refused
                                /\ handed' = [handed EXCEPT ![exec[x].run] = @ \cup {EventOf(x)}])
    PROVE  Safe'
<1> DEFINE e == EventOf(x)
<1> PICK r \in Runs : r = exec[x].run
    BY Shapes DEF Safe
<1>1. Busy(x) /\ r \in Runs /\ e \in Events /\ run[r].status # "none"
    BY Shapes, NextEvent DEF Busy, Safe, Cursors, CursorOK
<1>2. /\ handed' \in [Runs -> SUBSET Events]
      /\ handed'[r] = handed[r] \/ (e \notin Refused /\ handed'[r] = handed[r] \cup {e})
      /\ \A q \in Runs \ {r} : handed'[q] = handed[q]
    <2>1. handed \in [Runs -> SUBSET Events]
        BY DEF Safe, Types
    <2>2. QED
        BY <1>1, <2>1, HandsTyped DEF Safe
<1>3. /\ exec' \in [Executors -> ExecRow] /\ reached' \in [Runs -> SUBSET Events]
      /\ reached'[r] = reached[r] \cup {e} /\ \A q \in Runs \ {r} : reached'[q] = reached[q]
      /\ exec'[x].run = r /\ \A y \in Executors \ {x} : exec'[y] = exec[y]
    BY CountTyped
<1>4. Types'
    BY <1>2, <1>3 DEF Safe, Types
<1>5. CursorOK(x, r)'
    BY CountCursor
<1>6. \A q \in Runs : reached[q] \subseteq reached'[q]
    BY <1>3
<1>7. ASSUME r \notin doubled
      PROVE  Redelivered(Pledged(r), handed[r] \cup {e}, run[r].checkpoint)
    BY <1>7, MayHand
<1> HIDE DEF e
<1>8. ASSUME NEW q \in Runs
      PROVE  Same(q) /\ RowOK(q)'
    <2>1. Same(q)
        BY <1>6, SameRun DEF Safe
    <2>2. RowOK(q)
        BY DEF Safe, Rows
    <2>3. CASE handed'[q] = handed[q]
        BY <1>4, <2>1, <2>2, <2>3, RowKept DEF Safe
    <2>4. CASE handed'[q] # handed[q]
        <3>1. q = r /\ e \in Events \ Refused /\ handed'[r] = handed[r] \cup {e}
            BY <1>1, <1>2, <2>4
        <3>2. QED
            BY <1>1, <1>4, <1>7, <2>1, <2>2, <3>1, RowHands DEF Safe
    <2>5. QED
        BY <2>3, <2>4
<1>9. Cursors' /\ Alone'
    <2>1. \A q \in Runs : Busy(x)' /\ exec'[x].run = q => CursorOK(x, q)'
        BY <1>3, <1>5
    <2>2. QED
        BY <1>1, <1>3, <1>4, <1>8, <2>1, CursorsKept
<1>10. QED
    BY <1>4, <1>8, <1>9, AimedStill DEF Safe, Rows

LEMMA DeliverSafe == ASSUME Safe, NEW x \in Executors, Deliver(x) PROVE Safe'
<1> DEFINE due == exec[x].since + 1 >= CheckpointInterval
<1>1. exec[x].at = "deliver" /\ EventOf(x) \notin Refused
    BY DEF Deliver
<1>2. exec[x].since \in Nat
    BY Shapes DEF Safe
<1>3. due \/ exec[x].since + 1 < CheckpointInterval
    BY <1>2, Numbers
<1>4. due \in BOOLEAN /\ Count(x, due)
    BY DEF Deliver
<1> HIDE DEF due
<1>5. QED
    BY <1>1, <1>3, <1>4, CountSafe DEF Deliver

LEMMA SkipSafe == ASSUME Safe, NEW x \in Executors, Skip(x) PROVE Safe'
<1>1. exec[x].at = "deliver" /\ EventOf(x) \in Refused /\ Count(x, FALSE) /\ FALSE \in BOOLEAN
    BY DEF Skip
<1>2. QED
    BY <1>1, CountSafe DEF Skip

-----------------------------------------------------------------------------
(* Checkpoints.                                                            *)

LEMMA SaveTyped ==
    ASSUME Types, NEW x \in Executors, NEW r \in Runs, r = exec[x].run, SaveProgress(x)
    PROVE  /\ run' \in [Runs -> ProgressRow] /\ run'[r].status = run[r].status
           /\ run'[r].checkpoint = exec[x].cursor /\ run'[r].count = exec[x].count
           /\ \A q \in Runs \ {r} : run'[q] = run[q]
<1> DEFINE row == [run[r] EXCEPT !.checkpoint = exec[x].cursor, !.count = exec[x].count]
<1>1. run[r] \in ProgressRow /\ run \in [Runs -> ProgressRow]
    BY Shapes DEF Types
<1>2. exec[x].cursor \in Keys /\ exec[x].count \in Nat
    BY Shapes
<1>3. /\ row \in ProgressRow /\ row.status = run[r].status
      /\ row.checkpoint = exec[x].cursor /\ row.count = exec[x].count
    BY <1>1, <1>2 DEF ProgressRow
<1>4. run' = [run EXCEPT ![r] = row]
    BY DEF SaveProgress
<1> HIDE DEF row
<1>5. QED
    BY <1>1, <1>3, <1>4

(* The row takes over the fit of the cursor. *)
LEMMA SaveRow ==
    ASSUME Safe, Types', NEW x \in Executors, Busy(x), NEW r \in Runs, r = exec[x].run,
           SaveProgress(x), UNCHANGED <<present, promised, reached, handed, doubled>>
    PROVE  RowOK(r)'
<1> DEFINE p == Pledged(r)
           k == run[r].checkpoint
           c == exec[x].cursor
<1>1. RowOK(r) /\ CursorOK(x, r) /\ p \in SUBSET Events /\ k \in Keys /\ c \in Keys
    BY Shapes DEF Safe, Rows, Cursors
<1>2. /\ run'[r].status = run[r].status /\ run'[r].checkpoint = c /\ run'[r].count = exec[x].count
      /\ Pledged(r)' = p /\ Whole(r)' = Whole(r)
    BY SaveTyped DEF Safe, Pledged, Whole
<1>3. Fits(p, reached'[r], c, exec[x].count)
    BY <1>1 DEF CursorOK
<1>4. r \notin doubled => Redelivered(p, handed[r], c)
    <2>1. r \notin doubled => k <= c /\ Redelivered(p, handed[r], k)
        BY <1>1 DEF CursorOK, RowOK, OnTime
    <2>2. p \in SUBSET p
        OBVIOUS
    <2> HIDE DEF p, k, c
    <2>3. QED
        BY <1>1, <2>1, <2>2, RedeliveryShrinks
<1>5. run'[r].status # "none"
    BY <1>1, <1>2 DEF CursorOK
<1>6. /\ promised'[r] \subseteq Scope[r] /\ promised'[r] \cap Late \subseteq present'
      /\ handed'[r] \cap Refused = {} /\ (run'[r].status = "completed" => Whole(r)')
    BY <1>1, <1>2 DEF RowOK
<1> HIDE DEF p, k, c
<1>7. QED
    BY <1>2, <1>3, <1>4, <1>5, <1>6 DEF RowOK

(* x goes on with nothing unsaved. *)
LEMMA SaveCursor ==
    ASSUME Safe, Types', NEW x \in Executors, Busy(x), NEW r \in Runs, r = exec[x].run,
           SaveProgress(x), UNCHANGED <<present, promised, reached, handed, doubled>>,
           exec'[x].cursor = exec[x].cursor, exec'[x].count = exec[x].count,
           exec'[x].batch = exec[x].batch, exec'[x].then = exec[x].then,
           exec'[x].at = "deliver" => exec'[x].batch # {},
           exec'[x].at = "set" => exec'[x].then # "none"
    PROVE  CursorOK(x, r)'
<1> DEFINE p == Pledged(r)
           c == exec[x].cursor
<1>1. CursorOK(x, r) /\ p \in SUBSET Events /\ c \in Keys /\ exec'[x].since \in Nat
    BY Shapes, NextShapes DEF Safe, Cursors
<1>2. /\ run'[r].status = run[r].status /\ run'[r].checkpoint = c
      /\ Pledged(r)' = p /\ Whole(r)' = Whole(r) /\ exec'[x].cursor = c
    BY SaveTyped DEF Safe, Pledged, Whole
<1>3. Fits(p, reached'[r], c, exec'[x].count) /\ NextInLine(p, c, exec'[x].batch)
    BY <1>1 DEF CursorOK
<1>4. Unsaved(p, c, c) = 0 /\ c <= c
    <2> HIDE DEF p, c
    <2>1. QED
        BY <1>1, NothingUnsaved, Numbers
<1>5. run'[r].status # "none" /\ (exec'[x].then = "completed" => Whole(r)')
    BY <1>1, <1>2 DEF CursorOK
<1> HIDE DEF p, c
<1>6. OnTime(x, r)'
    BY <1>1, <1>2, <1>4, Numbers DEF OnTime
<1>7. QED
    BY <1>2, <1>3, <1>5, <1>6 DEF CursorOK

LEMMA SaveSafe ==
    ASSUME Safe, NEW x \in Executors, Busy(x), SaveProgress(x), NEW row \in ExecRow, Set(x, row),
           UNCHANGED <<present, op, promised, reached, handed, doubled, commands, faults>>,
           \/ row.at = "idle"
           \/ /\ row.run = exec[x].run /\ row.cursor = exec[x].cursor /\ row.count = exec[x].count
              /\ row.batch = exec[x].batch /\ row.then = exec[x].then
              /\ row.at = "deliver" => row.batch # {}
              /\ row.at = "set" => row.then # "none"
    PROVE  Safe'
<1> PICK r \in Runs : r = exec[x].run
    BY Shapes DEF Safe
<1>1. exec' \in [Executors -> ExecRow] /\ exec'[x] = row /\ \A y \in Executors \ {x} : exec'[y] = exec[y]
    BY SetTyped DEF Safe
<1>2. /\ run' \in [Runs -> ProgressRow] /\ run'[r].status = run[r].status
      /\ \A q \in Runs \ {r} : run'[q] = run[q]
    BY SaveTyped DEF Safe
<1>3. Types'
    BY <1>1, <1>2 DEF Safe, Types
<1>4. ASSUME NEW q \in Runs
      PROVE  Same(q) /\ RowOK(q)'
    <2>1. Same(q)
        BY <1>2, SameRun DEF Safe
    <2>2. CASE q = r
        BY <1>3, <2>1, <2>2, SaveRow
    <2>3. CASE q # r
        <3>1. RowOK(q) /\ run'[q] = run[q] /\ handed'[q] = handed[q]
            BY <1>2, <2>3 DEF Safe, Rows
        <3>2. QED
            BY <1>3, <2>1, <3>1, RowKept DEF Safe
    <2>4. QED
        BY <2>2, <2>3
<1>5. ASSUME Busy(x)'
      PROVE  exec'[x].run = r /\ CursorOK(x, r)'
    <2>1. /\ row.run = exec[x].run /\ row.cursor = exec[x].cursor /\ row.count = exec[x].count
          /\ row.batch = exec[x].batch /\ row.then = exec[x].then
          /\ row.at = "deliver" => row.batch # {}
          /\ row.at = "set" => row.then # "none"
        BY <1>1, <1>5 DEF Busy
    <2>2. QED
        BY <1>1, <1>3, <2>1, SaveCursor
<1>6. \A q \in Runs : run'[q].checkpoint # run[q].checkpoint => q = exec[x].run
    BY <1>2
<1>7. Cursors' /\ Alone'
    BY <1>1, <1>3, <1>4, <1>5, <1>6, CursorsKept
<1>8. QED
    BY <1>3, <1>4, <1>7, AimedStill DEF Safe, Rows

LEMMA CheckpointSafe == ASSUME Safe, NEW x \in Executors, Checkpoint(x) PROVE Safe'
<1> DEFINE stop == NextStop(exec[x].batch, FALSE)
           row == [exec[x] EXCEPT !.since = 0, !.at = stop]
<1>1. exec[x] \in ExecRow /\ Busy(x)
    BY Shapes DEF Safe, Checkpoint, Busy
<1>2. stop \in Places /\ stop # "set" /\ (stop = "deliver" => exec[x].batch # {})
    BY DEF NextStop, Places
<1>3. Set(x, row) /\ SaveProgress(x)
    BY DEF Checkpoint
<1> HIDE DEF stop
<1>4. /\ row \in ExecRow /\ row.run = exec[x].run /\ row.cursor = exec[x].cursor
      /\ row.count = exec[x].count /\ row.batch = exec[x].batch /\ row.then = exec[x].then
      /\ row.at = stop
    BY <1>1, <1>2 DEF ExecRow
<1> HIDE DEF row
<1>5. QED
    BY <1>1, <1>2, <1>3, <1>4, SaveSafe DEF Checkpoint

LEMMA SaveLastSafe == ASSUME Safe, NEW x \in Executors, SaveLast(x) PROVE Safe'
<1>1. exec[x] \in ExecRow /\ Busy(x) /\ SaveProgress(x)
    BY Shapes DEF Safe, SaveLast, Busy
<1>2. CASE Return(x)
    BY <1>1, <1>2, IdleTyped, SaveSafe DEF SaveLast, Return
<1>3. CASE exec[x].then # "none" /\ Set(x, [exec[x] EXCEPT !.at = "set"])
    <2> DEFINE row == [exec[x] EXCEPT !.at = "set"]
    <2>1. /\ row \in ExecRow /\ row.run = exec[x].run /\ row.cursor = exec[x].cursor
          /\ row.count = exec[x].count /\ row.batch = exec[x].batch /\ row.then = exec[x].then
          /\ row.at = "set"
        BY <1>1 DEF ExecRow, Places
    <2>2. Set(x, row)
        BY <1>3
    <2> HIDE DEF row
    <2>3. QED
        BY <1>1, <1>3, <2>1, <2>2, SaveSafe DEF SaveLast
<1>4. QED
    BY <1>2, <1>3 DEF SaveLast

-----------------------------------------------------------------------------
(* The status an execution writes.                                         *)

LEMMA StatusSafe ==
    ASSUME Safe, NEW x \in Executors, Busy(x), NEW r \in Runs, r = exec[x].run,
           NEW status \in Statuses \ {"none"}, SetStatus(r, status),
           status = "completed" => Whole(r),
           NEW row \in ExecRow, Set(x, row), row.at = "idle" \/ Stays(x, row),
           UNCHANGED <<present, op, promised, reached, handed, doubled, commands, faults>>
    PROVE  Safe'
<1>1. run' \in [Runs -> ProgressRow] /\ exec' \in [Executors -> ExecRow]
    BY StatusRow, SetTyped DEF Safe
<1>2. Types'
    BY <1>1 DEF Safe, Types
<1>3. Rows' /\ \A q \in Runs : Same(q) /\ run'[q].checkpoint = run[q].checkpoint
    BY <1>2, StatusRows
<1>4. Cursors' /\ Alone'
    BY <1>2, <1>3, MoveCursors
<1>5. QED
    BY <1>2, <1>3, <1>4, AimedStill DEF Safe

LEMMA BeginSafe == ASSUME Safe, NEW x \in Executors, Begin(x) PROVE Safe'
<1> PICK r \in Runs : r = exec[x].run
    BY Shapes DEF Safe
<1>1. Busy(x) /\ exec[x] \in ExecRow /\ exec[x].at = "begin" /\ faults' \in 0..MaxFaults
    BY Shapes, FaultTyped DEF Begin, Busy, Safe
<1>2. CASE SetStatus(r, "running") /\ Set(x, [exec[x] EXCEPT !.at = "check"])
    <2> DEFINE row == [exec[x] EXCEPT !.at = "check"]
    <2>1. /\ row \in ExecRow /\ row.at = "check" /\ row.run = exec[x].run
          /\ row.cursor = exec[x].cursor /\ row.count = exec[x].count /\ row.since = exec[x].since
          /\ row.then = exec[x].then /\ row.batch = exec[x].batch
        BY <1>1 DEF ExecRow, Places
    <2>2. Set(x, row)
        BY <1>2
    <2> HIDE DEF row
    <2>3. CursorOK(x, exec[x].run)
        BY <1>1 DEF Safe, Cursors
    <2>4. Stays(x, row)
        BY <1>1, <2>1, <2>3 DEF Stays, Reading, CursorOK
    <2>5. "running" \in Statuses \ {"none"} /\ "running" # "completed"
        BY DEF Statuses
    <2>6. QED
        BY <1>1, <1>2, <2>1, <2>2, <2>4, <2>5, StatusSafe DEF Begin
<1>3. CASE Return(x) /\ UNCHANGED run
    BY <1>1, <1>3, IdleTyped, MoveSafe DEF Begin, Return
<1>4. QED
    BY <1>2, <1>3 DEF Begin

LEMMA SetLastSafe == ASSUME Safe, NEW x \in Executors, SetLast(x) PROVE Safe'
<1> PICK r \in Runs : r = exec[x].run
    BY Shapes DEF Safe
<1>1. Busy(x) /\ faults' \in 0..MaxFaults /\ CursorOK(x, r) /\ exec[x].at = "set"
    BY FaultTyped DEF SetLast, Busy, Safe, Cursors
<1>2. exec[x].then \in Statuses \ {"none"} /\ (exec[x].then = "completed" => Whole(r))
    BY <1>1, Shapes DEF CursorOK, Safe
<1>3. CASE SetStatus(r, exec[x].then) /\ Return(x)
    BY <1>1, <1>2, <1>3, IdleTyped, StatusSafe DEF SetLast, Return
<1>4. CASE Leave(x, "failed") /\ UNCHANGED run
    <2>1. Leaving(x, "failed") \in ExecRow /\ Stays(x, Leaving(x, "failed"))
        BY <1>1, LeavingStays DEF Statuses
    <2>2. Set(x, Leaving(x, "failed"))
        BY <1>4 DEF Leave, Leaving
    <2>3. QED
        BY <1>1, <1>4, <2>1, <2>2, MoveSafe DEF SetLast
<1>5. QED
    BY <1>3, <1>4 DEF SetLast

LEMMA ExecuteSafe == ASSUME Safe, NEW x \in Executors, NEW r \in Runs, Execute(x, r) PROVE Safe'
<1> DEFINE row == [run |-> r, at |-> "begin", cursor |-> run[r].checkpoint,
                   count |-> run[r].count, since |-> 0, batch |-> {}, then |-> "none"]
           p == Pledged(r)
           k == run[r].checkpoint
<1>1. /\ ~Busy(x) /\ run[r].status # "none" /\ RowOK(r)
      /\ p \in SUBSET Events /\ k \in Keys /\ run[r].count \in Nat
    BY Shapes DEF Execute, Busy, Safe, Rows
<1>2. row \in ExecRow
    BY <1>1 DEF ExecRow, Places, Statuses
<1>3. /\ row.run = r /\ row.at = "begin" /\ row.cursor = k /\ row.count = run[r].count
      /\ row.since = 0 /\ row.batch = {} /\ row.then = "none"
    OBVIOUS
<1>4. Set(x, row)
    BY DEF Execute
<1> HIDE DEF row
<1>5. exec' \in [Executors -> ExecRow] /\ exec'[x] = row /\ \A y \in Executors \ {x} : exec'[y] = exec[y]
    BY <1>2, <1>4, SetTyped DEF Safe
<1>6. /\ doubled' \subseteq Runs /\ doubled \subseteq doubled'
      /\ \A y \in Executors : Busy(y) /\ exec[y].run = r => r \in doubled'
    BY DEF Execute, Busy, Safe, Types
<1>7. Types'
    BY <1>5, <1>6 DEF Safe, Types, Execute
<1>8. ASSUME NEW q \in Runs
      PROVE  Same(q) /\ RowOK(q)'
    <2>1. Same(q)
        BY <1>6, SameRun DEF Safe, Execute
    <2>2. RowOK(q) /\ run' = run /\ handed' = handed
        BY DEF Safe, Rows, Execute
    <2>3. QED
        BY <1>7, <2>1, <2>2, RowKept DEF Safe
<1>9. CursorOK(x, r)'
    <2>1. /\ exec'[x].at = "begin" /\ exec'[x].cursor = k /\ exec'[x].count = run[r].count
          /\ exec'[x].since = 0 /\ exec'[x].batch = {} /\ exec'[x].then = "none"
        BY <1>3, <1>5
    <2>2. Pledged(r)' = p /\ run' = run /\ reached' = reached
        BY DEF Pledged, Execute
    <2>3. Fits(p, reached[r], k, run[r].count) /\ NextInLine(p, k, {})
        BY <1>1 DEF RowOK, NextInLine
    <2>4. Unsaved(p, k, k) = 0 /\ k <= k
        <3> HIDE DEF p, k
        <3>1. QED
            BY <1>1, NothingUnsaved, Numbers
    <2>5. OnTime(x, r)'
        BY <2>1, <2>2, <2>4, Numbers DEF OnTime
    <2> HIDE DEF p
    <2>6. QED
        BY <1>1, <2>1, <2>2, <2>3, <2>5 DEF CursorOK
<1>10. Cursors' /\ Alone'
    <2>1. \A q \in Runs : run'[q].checkpoint = run[q].checkpoint
        BY DEF Execute
    <2>2. \A q \in Runs : Busy(x)' /\ exec'[x].run = q => CursorOK(x, q)'
        BY <1>3, <1>5, <1>9
    <2>3. \A y \in Executors \ {x} : Busy(y) /\ exec[y].run = exec'[x].run => exec[y].run \in doubled'
        BY <1>3, <1>5, <1>6
    <2>4. QED
        BY <1>5, <1>6, <1>7, <1>8, <2>1, <2>2, <2>3, CursorsKept
<1>11. QED
    BY <1>7, <1>8, <1>10, AimedStill DEF Safe, Rows, Execute

-----------------------------------------------------------------------------
(* The operators.                                                          *)

LEMMA OpSet ==
    ASSUME Types, NEW o \in Operators, NEW row \in OpRow, op' = [op EXCEPT ![o] = row]
    PROVE  /\ op' \in [Operators -> OpRow] /\ op'[o] = row
           /\ \A y \in Operators \ {o} : op'[y] = op[y]
BY DEF Types

LEMMA WrittenValues ==
    /\ DOMAIN Written = {"pause", "resume", "abort"}
    /\ \A command \in DOMAIN Written : /\ Written[command] \in Statuses \ {"none"}
                                       /\ Written[command] # "completed"
BY DEF Written, Statuses

LEMMA AskSafe ==
    ASSUME Safe, NEW o \in Operators, NEW command \in {"start"} \cup DOMAIN Written,
           NEW rs \in SUBSET Runs, Ask(o, command, rs),
           command # "start" => \E r \in Runs : rs = {r}
    PROVE  Safe'
<1> DEFINE row == [command |-> command, runs |-> rs]
<1>1. row \in OpRow /\ row.command = command /\ row.runs = rs
    BY DEF OpRow
<1>2. op' = [op EXCEPT ![o] = row]
    BY DEF Ask
<1> HIDE DEF row
<1>3. op' \in [Operators -> OpRow] /\ op'[o] = row /\ \A y \in Operators \ {o} : op'[y] = op[y]
    BY <1>1, <1>2, OpSet DEF Safe
<1>4. commands' \in 0..MaxCommands
    BY BoundsAssumption DEF Ask, Safe, Types
<1>5. Types'
    BY <1>3, <1>4 DEF Safe, Types, Ask
<1>6. Aimed'
    <2>1. "start" \notin DOMAIN Written
        BY WrittenValues
    <2>2. QED
        BY <1>1, <1>3, <2>1 DEF Aimed, Safe
<1>7. ASSUME NEW q \in Runs
      PROVE  Same(q) /\ RowOK(q)'
    <2>1. Same(q)
        BY SameRun DEF Safe, Ask
    <2>2. RowOK(q) /\ run' = run /\ handed' = handed
        BY DEF Safe, Rows, Ask
    <2>3. QED
        BY <1>5, <2>1, <2>2, RowKept DEF Safe
<1>8. Cursors' /\ Alone'
    BY <1>5, <1>7, CursorsStay DEF Ask
<1>9. QED
    BY <1>5, <1>6, <1>7, <1>8 DEF Safe, Rows

LEMMA CountActiveSafe == ASSUME Safe, NEW o \in Operators, CountActive(o) PROVE Safe'
<1>1. PICK rs \in SUBSET Runs : Ask(o, "start", rs)
    BY DEF CountActive
<1>2. QED
    BY <1>1, AskSafe

LEMMA LoadForCommandSafe == ASSUME Safe, NEW o \in Operators, LoadForCommand(o) PROVE Safe'
<1>1. PICK r \in Runs, command \in {"pause", "resume", "abort"} : Ask(o, command, {r})
    BY DEF LoadForCommand
<1>2. command \in DOMAIN Written /\ {r} \in SUBSET Runs
    BY WrittenValues
<1>3. QED
    BY <1>1, <1>2, AskSafe

LEMMA ReturnsTyped ==
    ASSUME Safe, NEW o \in Operators, OperatorReturns(o)
    PROVE  op' \in [Operators -> OpRow] /\ Aimed'
<1>1. IdleOperator \in OpRow /\ IdleOperator.command \notin DOMAIN Written
    BY WrittenValues DEF IdleOperator, OpRow
<1>2. /\ op' \in [Operators -> OpRow] /\ op'[o] = IdleOperator
      /\ \A y \in Operators \ {o} : op'[y] = op[y]
    BY <1>1, OpSet DEF OperatorReturns, Safe
<1>3. QED
    BY <1>1, <1>2 DEF Aimed, Safe

LEMMA WriteCommandSafe == ASSUME Safe, NEW o \in Operators, WriteCommand(o) PROVE Safe'
<1> DEFINE status == Written[op[o].command]
<1>1. op[o].command \in DOMAIN Written /\ OperatorReturns(o)
    BY DEF WriteCommand
<1>2. PICK r \in Runs : op[o].runs = {r}
    BY <1>1 DEF Safe, Aimed
<1>3. status \in Statuses \ {"none"} /\ status # "completed"
    BY <1>1, WrittenValues
<1>4. IF Accepts(r, status) THEN SetStatus(r, status) ELSE UNCHANGED run
    BY <1>2 DEF WriteCommand
<1> HIDE DEF status
<1>5. run' \in [Runs -> ProgressRow]
    BY <1>3, <1>4, StatusRow DEF Safe, Types
<1>6. op' \in [Operators -> OpRow] /\ Aimed'
    BY <1>1, ReturnsTyped
<1>7. Types'
    BY <1>5, <1>6 DEF Safe, Types, WriteCommand
<1>8. ASSUME NEW q \in Runs
      PROVE  Same(q) /\ run'[q].checkpoint = run[q].checkpoint /\ RowOK(q)'
    <2>1. CASE Accepts(r, status)
        BY <1>3, <1>4, <1>7, <2>1, StatusRows DEF WriteCommand, Rows
    <2>2. CASE UNCHANGED run
        <3>1. Same(q) /\ RowOK(q)
            BY <2>2, SameRun DEF Safe, Rows, WriteCommand
        <3>2. QED
            BY <1>7, <2>2, <3>1, RowKept DEF Safe, WriteCommand
    <2>3. QED
        BY <1>4, <2>1, <2>2
<1>9. Cursors' /\ Alone'
    BY <1>7, <1>8, CursorsStay DEF WriteCommand
<1>10. QED
    BY <1>6, <1>7, <1>8, <1>9 DEF Safe, Rows

(* A run that starts has promised what there is, and has done nothing. *)
LEMMA NewRow ==
    ASSUME Safe, Types', NEW r \in Runs, run[r].status = "none",
           promised'[r] = Scope[r] \cap present, run'[r].status = "pending",
           run'[r].checkpoint = run[r].checkpoint, run'[r].count = run[r].count,
           UNCHANGED <<present, reached, handed, doubled>>
    PROVE  RowOK(r)'
<1>1. run'[r].checkpoint = 0 /\ run'[r].count = 0 /\ handed'[r] = {}
    BY DEF Safe, Rows, RowOK
<1>2. Pledged(r)' \in SUBSET Events /\ reached'[r] \in SUBSET Events
    BY NextShapes
<1>3. Fits(Pledged(r)', reached'[r], run'[r].checkpoint, run'[r].count)
    BY <1>1, <1>2, FitsAtFirst
<1>4. Redelivered(Pledged(r)', handed'[r], run'[r].checkpoint)
    BY <1>1 DEF Redelivered
<1>5. QED
    BY <1>1, <1>3, <1>4 DEF RowOK

LEMMA InsertRunsSafe == ASSUME Safe, NEW o \in Operators, InsertRuns(o) PROVE Safe'
<1> DEFINE rs == op[o].runs
<1>1. op' \in [Operators -> OpRow] /\ Aimed'
    BY ReturnsTyped DEF InsertRuns
<1>2. CASE UNCHANGED <<run, promised>>
    <2>1. Types'
        BY <1>1, <1>2 DEF Safe, Types, InsertRuns
    <2>2. ASSUME NEW q \in Runs
          PROVE  Same(q) /\ RowOK(q)'
        <3>1. Same(q) /\ RowOK(q)
            BY <1>2, SameRun DEF Safe, Rows, InsertRuns
        <3>2. QED
            BY <1>2, <2>1, <3>1, RowKept DEF Safe, InsertRuns
    <2>3. Cursors' /\ Alone'
        BY <1>2, <2>1, <2>2, CursorsStay DEF InsertRuns
    <2>4. QED
        BY <1>1, <2>1, <2>2, <2>3 DEF Safe, Rows
<1>3. CASE /\ \A r \in rs : run[r].status = "none"
           /\ run' = [r \in Runs |-> IF r \in rs THEN [run[r] EXCEPT !.status = "pending"]
                                                 ELSE run[r]]
           /\ promised' = [r \in Runs |-> IF r \in rs THEN Scope[r] \cap present
                                                      ELSE promised[r]]
    <2>1. ASSUME NEW r \in Runs
          PROVE  /\ run'[r] \in ProgressRow /\ promised'[r] \in SUBSET Events
                 /\ run'[r].checkpoint = run[r].checkpoint /\ run'[r].count = run[r].count
                 /\ r \in rs => run'[r].status = "pending" /\ promised'[r] = Scope[r] \cap present
                 /\ r \notin rs => run'[r] = run[r] /\ promised'[r] = promised[r]
        <3>1. run[r] \in ProgressRow /\ promised[r] \in SUBSET Events /\ Scope[r] \in SUBSET Events
            BY Shapes, ScopeAssumption DEF Safe
        <3>2. CASE r \in rs
            BY <1>3, <3>1, <3>2 DEF ProgressRow, Statuses
        <3>3. CASE r \notin rs
            BY <1>3, <3>1, <3>3
        <3>4. QED
            BY <3>2, <3>3
    <2>2. run' \in [Runs -> ProgressRow] /\ promised' \in [Runs -> SUBSET Events]
        BY <1>3, <2>1
    <2>3. Types'
        BY <1>1, <2>2 DEF Safe, Types, InsertRuns
    <2>4. ASSUME NEW q \in Runs \ rs
          PROVE  Same(q) /\ RowOK(q)'
        <3>1. Same(q) /\ RowOK(q) /\ run'[q] = run[q]
            BY <2>1, SameRun DEF Safe, Rows, InsertRuns
        <3>2. QED
            BY <2>3, <3>1, RowKept DEF Safe, InsertRuns
    <2>5. ASSUME NEW q \in Runs, q \in rs
          PROVE  RowOK(q)'
        BY <1>3, <2>1, <2>3, <2>5, NewRow DEF InsertRuns
    <2>6. \A q \in Runs : run[q].status # "none" => q \notin rs
        BY <1>3
    <2>7. Cursors' /\ Alone'
        BY <2>1, <2>3, <2>4, <2>6, CursorsStay DEF InsertRuns
    <2>8. QED
        BY <1>1, <2>3, <2>4, <2>5, <2>7 DEF Safe, Rows
<1>4. QED
    BY <1>2, <1>3 DEF InsertRuns

-----------------------------------------------------------------------------
(* Around the coordinator.                                                 *)

(* What there is to read changes, but of no run what it has promised. *)
LEMMA ReadableSafe ==
    ASSUME Safe, NEW now \in SUBSET Events, present' = now,
           UNCHANGED <<run, exec, op, promised, reached, handed, doubled, commands, faults>>,
           \A r \in Runs : /\ Pledged(r)' \subseteq Pledged(r)
                           /\ promised[r] \cap Late \subseteq now
    PROVE  Safe'
<1>1. Types'
    BY DEF Safe, Types
<1>2. ASSUME NEW q \in Runs
      PROVE  Same(q) /\ RowOK(q)'
    <2>1. Same(q) /\ RowOK(q)
        BY DEF Same, Safe, Rows
    <2>2. QED
        BY <1>1, <2>1, RowKept DEF Safe
<1>3. Cursors' /\ Alone'
    BY <1>1, <1>2, CursorsStay
<1>4. QED
    BY <1>1, <1>2, <1>3, AimedStill DEF Safe, Rows

LEMMA AppearSafe == ASSUME Safe, NEW e \in Events, Appear(e) PROVE Safe'
<1>1. e \notin present /\ e \in Late /\ present' = present \cup {e}
    BY DEF Appear
<1>2. ASSUME NEW r \in Runs
      PROVE  /\ Pledged(r)' \subseteq Pledged(r)
             /\ promised[r] \cap Late \subseteq present \cup {e}
    <2>1. promised[r] \cap Late \subseteq present /\ promised' = promised
        BY DEF Safe, Rows, RowOK, Appear
    <2>2. e \notin promised[r]
        BY <1>1, <2>1
    <2>3. QED
        BY <1>1, <2>1, <2>2 DEF Pledged
<1>3. present \cup {e} \in SUBSET Events
    BY DEF Safe, Types
<1>4. QED
    BY <1>1, <1>2, <1>3, ReadableSafe DEF Appear

LEMMA PurgeSafe == ASSUME Safe, NEW e \in Events, Purge(e) PROVE Safe'
<1>1. e \notin Late /\ present' = present \ {e} /\ promised' = promised
    BY EventsAssumption DEF Purge
<1>2. ASSUME NEW r \in Runs
      PROVE  /\ Pledged(r)' \subseteq Pledged(r)
             /\ promised[r] \cap Late \subseteq present \ {e}
    BY <1>1 DEF Safe, Rows, RowOK, Pledged
<1>3. present \ {e} \in SUBSET Events
    BY DEF Safe, Types
<1>4. QED
    BY <1>1, <1>2, <1>3, ReadableSafe DEF Purge

-----------------------------------------------------------------------------
(* Safe is inductive.                                                      *)

LEMMA InitSafe == Init => Safe
<1> SUFFICES ASSUME Init PROVE Safe
    OBVIOUS
<1>1. run \in [Runs -> ProgressRow] /\ \A r \in Runs :
         run[r].status = "none" /\ run[r].checkpoint = 0 /\ run[r].count = 0
    BY Numbers DEF Init, ProgressRow, Statuses
<1>2. exec \in [Executors -> ExecRow] /\ \A x \in Executors : ~Busy(x)
    BY IdleTyped DEF Init, Busy
<1>3. op \in [Operators -> OpRow] /\ \A o \in Operators : op[o].command \notin DOMAIN Written
    BY WrittenValues DEF Init, IdleOperator, OpRow
<1>4. Types
    BY <1>1, <1>2, <1>3, BoundsAssumption DEF Init, Types
<1>5. ASSUME NEW r \in Runs
      PROVE  RowOK(r)
    <2>1. promised[r] = {} /\ reached[r] = {} /\ handed[r] = {} /\ Pledged(r) = {}
        BY DEF Init, Pledged
    <2>2. Fits({}, {}, 0, 0)
        BY FitsAtFirst
    <2>3. Redelivered({}, {}, 0)
        BY DEF Redelivered
    <2>4. QED
        BY <1>1, <2>1, <2>2, <2>3 DEF RowOK
<1>6. QED
    BY <1>2, <1>3, <1>4, <1>5 DEF Safe, Aimed, Rows, Cursors, Alone

LEMMA StillSafe == ASSUME Safe, UNCHANGED vars PROVE Safe'
<1>1. \A r \in Runs : Pledged(r)' \subseteq Pledged(r) /\ promised[r] \cap Late \subseteq present
    BY DEF vars, Pledged, Safe, Rows, RowOK
<1>2. present \in SUBSET Events
    BY DEF Safe, Types
<1>3. QED
    BY <1>1, <1>2, ReadableSafe DEF vars

LEMMA NextSafe == Safe /\ [Next]_vars => Safe'
<1> SUFFICES ASSUME Safe, [Next]_vars PROVE Safe'
    OBVIOUS
<1>1. CASE UNCHANGED vars
    BY <1>1, StillSafe
<1>2. ASSUME NEW o \in Operators, CountActive(o)
      PROVE  Safe'
    BY <1>2, CountActiveSafe
<1>3. ASSUME NEW o \in Operators, LoadForCommand(o)
      PROVE  Safe'
    BY <1>3, LoadForCommandSafe
<1>4. ASSUME NEW o \in Operators, InsertRuns(o)
      PROVE  Safe'
    BY <1>4, InsertRunsSafe
<1>5. ASSUME NEW o \in Operators, WriteCommand(o)
      PROVE  Safe'
    BY <1>5, WriteCommandSafe
<1>6. ASSUME NEW x \in Executors, Proceed(x)
      PROVE  Safe'
    BY <1>6, BeginSafe, CheckSafe, ReadBatchSafe, DeliverSafe, SkipSafe, CheckpointSafe,
       SaveLastSafe, SetLastSafe DEF Proceed
<1>7. ASSUME NEW x \in Executors, Interrupt(x) \/ DeliveryThrows(x) \/ Crash(x)
      PROVE  Safe'
    BY <1>7, InterruptSafe, DeliveryThrowsSafe, CrashSafe
<1>8. ASSUME NEW x \in Executors, NEW r \in Runs, Execute(x, r)
      PROVE  Safe'
    BY <1>8, ExecuteSafe
<1>9. ASSUME NEW e \in Events, Appear(e) \/ Purge(e)
      PROVE  Safe'
    BY <1>9, AppearSafe, PurgeSafe
<1>10. QED
    BY <1>1, <1>2, <1>3, <1>4, <1>5, <1>6, <1>7, <1>8, <1>9 DEF Next, Operate, Answer

LEMMA AlwaysSafe == Spec => []Safe
BY InitSafe, NextSafe, PTL DEF Spec

-----------------------------------------------------------------------------
(* What an executor holds when it holds no run.                            *)

Resting == \A x \in Executors : Busy(x) \/ exec[x] = IdleExecutor

LEMMA RestStill ==
    ASSUME Safe, Resting, NEW x \in Executors, NEW row, Set(x, row),
           row = IdleExecutor \/ row.at # "idle"
    PROVE  Resting'
<1>1. exec' = [exec EXCEPT ![x] = row] /\ exec \in [Executors -> ExecRow]
    BY DEF Set, Safe, Types
<1>2. exec'[x] = row /\ \A y \in Executors \ {x} : exec'[y] = exec[y]
    BY <1>1
<1>3. QED
    BY <1>2 DEF Resting, Busy

(* A row of which some fields change. *)
LEMMA PlaceOf ==
    ASSUME Safe, NEW x \in Executors, NEW at, NEW status, NEW batch, NEW since
    PROVE  /\ [exec[x] EXCEPT !.at = at].at = at
           /\ [exec[x] EXCEPT !.at = at, !.batch = batch].at = at
           /\ [exec[x] EXCEPT !.at = at, !.then = status, !.batch = batch].at = at
           /\ [exec[x] EXCEPT !.since = since, !.at = at].at = at
<1>1. exec[x] \in ExecRow
    BY Shapes DEF Safe
<1>2. QED
    BY <1>1 DEF ExecRow

LEMMA LeaveRests ==
    ASSUME Safe, Resting, NEW x \in Executors, NEW status, Leave(x, status)
    PROVE  Resting'
<1>1. [exec[x] EXCEPT !.at = "save", !.then = status, !.batch = {}].at # "idle"
    BY PlaceOf
<1>2. QED
    BY <1>1, RestStill DEF Leave

LEMMA CountRests ==
    ASSUME Safe, Resting, NEW x \in Executors, exec[x].at = "deliver", NEW due \in BOOLEAN, Count(x, due)
    PROVE  Resting'
<1>1. exec'[x].at = NextStop(exec[x].batch \ {EventOf(x)}, due)
      /\ \A y \in Executors \ {x} : exec'[y] = exec[y]
    BY CountTyped
<1>2. exec'[x].at # "idle"
    BY <1>1 DEF NextStop
<1>3. QED
    BY <1>1, <1>2 DEF Resting, Busy

LEMMA ProceedRests == ASSUME Safe, Resting, NEW x \in Executors, Proceed(x) PROVE Resting'
<1>1. ASSUME Begin(x)
      PROVE  Resting'
    <2>1. [exec[x] EXCEPT !.at = "check"].at # "idle"
        BY PlaceOf
    <2>2. Set(x, [exec[x] EXCEPT !.at = "check"]) \/ Set(x, IdleExecutor)
        BY <1>1 DEF Begin, Return
    <2>3. QED
        BY <2>1, <2>2, RestStill
<1>2. ASSUME Check(x)
      PROVE  Resting'
    <2>1. [exec[x] EXCEPT !.at = "read"].at # "idle"
        BY PlaceOf
    <2>2. Set(x, [exec[x] EXCEPT !.at = "read"]) \/ Leave(x, "none")
        BY <1>2 DEF Check
    <2>3. QED
        BY <2>1, <2>2, RestStill, LeaveRests
<1>3. ASSUME ReadBatch(x)
      PROVE  Resting'
    <2>1. PICK batch : Set(x, [exec[x] EXCEPT !.at = "deliver", !.batch = batch]) \/ Leave(x, "completed")
        BY <1>3 DEF ReadBatch
    <2>2. [exec[x] EXCEPT !.at = "deliver", !.batch = batch].at # "idle"
        BY PlaceOf
    <2>3. QED
        BY <2>1, <2>2, RestStill, LeaveRests
<1>4. ASSUME Deliver(x) \/ Skip(x)
      PROVE  Resting'
    <2> DEFINE due == exec[x].since + 1 >= CheckpointInterval
    <2>1. exec[x].at = "deliver" /\ (Count(x, due) \/ Count(x, FALSE))
        BY <1>4 DEF Deliver, Skip
    <2>2. due \in BOOLEAN /\ FALSE \in BOOLEAN
        OBVIOUS
    <2> HIDE DEF due
    <2>3. QED
        BY <2>1, <2>2, CountRests
<1>5. ASSUME Checkpoint(x)
      PROVE  Resting'
    <2> DEFINE stop == NextStop(exec[x].batch, FALSE)
    <2>1. stop # "idle" /\ Set(x, [exec[x] EXCEPT !.since = 0, !.at = stop])
        BY <1>5 DEF Checkpoint, NextStop
    <2> HIDE DEF stop
    <2>2. [exec[x] EXCEPT !.since = 0, !.at = stop].at # "idle"
        BY <2>1, PlaceOf
    <2>3. QED
        BY <2>1, <2>2, RestStill
<1>6. ASSUME SaveLast(x)
      PROVE  Resting'
    <2>1. [exec[x] EXCEPT !.at = "set"].at # "idle"
        BY PlaceOf
    <2>2. Set(x, [exec[x] EXCEPT !.at = "set"]) \/ Set(x, IdleExecutor)
        BY <1>6 DEF SaveLast, Return
    <2>3. QED
        BY <2>1, <2>2, RestStill
<1>7. ASSUME SetLast(x)
      PROVE  Resting'
    <2>1. Set(x, IdleExecutor) \/ Leave(x, "failed")
        BY <1>7 DEF SetLast, Return
    <2>2. QED
        BY <2>1, RestStill, LeaveRests
<1>8. QED
    BY <1>1, <1>2, <1>3, <1>4, <1>5, <1>6, <1>7 DEF Proceed

LEMMA NextRests == Safe /\ Resting /\ [Next]_vars => Resting'
<1> SUFFICES ASSUME Safe, Resting, [Next]_vars PROVE Resting'
    OBVIOUS
<1>1. CASE exec' = exec
    BY <1>1 DEF Resting, Busy
<1>2. ASSUME NEW o \in Operators, Operate(o) \/ Answer(o)
      PROVE  exec' = exec
    BY <1>2 DEF Operate, Answer, CountActive, LoadForCommand, Ask, InsertRuns, WriteCommand
<1>3. ASSUME NEW e \in Events, Appear(e) \/ Purge(e)
      PROVE  exec' = exec
    BY <1>3 DEF Appear, Purge
<1>4. ASSUME NEW x \in Executors, Interrupt(x) \/ DeliveryThrows(x) \/ Crash(x)
      PROVE  Resting'
    <2>1. Leave(x, "paused") \/ Leave(x, "failed") \/ Set(x, IdleExecutor)
        BY <1>4 DEF Interrupt, DeliveryThrows, Crash, Return
    <2>2. QED
        BY <2>1, RestStill, LeaveRests
<1>5. ASSUME NEW x \in Executors, NEW r \in Runs, Execute(x, r)
      PROVE  Resting'
    <2> DEFINE row == [run |-> r, at |-> "begin", cursor |-> run[r].checkpoint,
                       count |-> run[r].count, since |-> 0, batch |-> {}, then |-> "none"]
    <2>1. Set(x, row) /\ row.at # "idle"
        BY <1>5 DEF Execute
    <2> HIDE DEF row
    <2>2. QED
        BY <2>1, RestStill
<1>6. UNCHANGED vars => exec' = exec
    BY DEF vars
<1>7. QED
    BY <1>1, <1>2, <1>3, <1>4, <1>5, <1>6, ProceedRests DEF Next

LEMMA AlwaysResting == Spec => []Resting
<1>1. Init => Resting
    BY DEF Init, Resting
<1>2. QED
    BY <1>1, AlwaysSafe, NextRests, PTL DEF Spec

-----------------------------------------------------------------------------
(***************************************************************************)
(* Every variable keeps its type; the counts of a run and of an execution  *)
(* never pass the number of events there are.                              *)
(***************************************************************************)
THEOREM TypeCorrect == Spec => []TypeOK
<1>1. ASSUME Safe, Resting
      PROVE  TypeOK
    <2>1. ASSUME NEW r \in Runs
          PROVE  run[r] \in RunRow
        <3>1. run[r] \in ProgressRow /\ Fits(Pledged(r), reached[r], run[r].checkpoint, run[r].count)
            BY <1>1, Shapes DEF Safe, Rows, RowOK
        <3>2. run[r].count \in 0..Cardinality(Events)
            BY <1>1, <3>1, Shapes, FitsBound DEF Safe
        <3>3. QED
            BY <3>1, <3>2 DEF ProgressRow, RunRow
    <2>2. ASSUME NEW x \in Executors
          PROVE  exec[x] \in [run : Runs, at : Places, cursor : Keys,
                              count : 0..Cardinality(Events), since : Nat,
                              batch : SUBSET Events, then : Statuses]
        <3>1. exec[x] \in ExecRow /\ exec[x].run \in Runs
            BY <1>1, Shapes DEF Safe
        <3>2. CASE Busy(x)
            <4>1. Fits(Pledged(exec[x].run), reached[exec[x].run], exec[x].cursor, exec[x].count)
                BY <1>1, <3>1, <3>2 DEF Safe, Cursors, CursorOK
            <4>2. exec[x].count \in 0..Cardinality(Events)
                BY <1>1, <3>1, <4>1, Shapes, FitsBound DEF Safe
            <4>3. QED
                BY <3>1, <4>2 DEF ExecRow
        <3>3. CASE exec[x] = IdleExecutor
            <4>1. exec[x].count = 0 /\ Cardinality(Events) \in Nat
                BY <3>3, SetsOfEvents DEF IdleExecutor
            <4>2. exec[x].count \in 0..Cardinality(Events)
                BY <4>1
            <4>3. QED
                BY <3>1, <4>2 DEF ExecRow
        <3>4. QED
            BY <1>1, <3>2, <3>3 DEF Resting
    <2>3. run \in [Runs -> RunRow]
        BY <1>1, <2>1 DEF Safe, Types
    <2>4. exec \in [Executors -> [run : Runs, at : Places, cursor : Keys,
                                  count : 0..Cardinality(Events), since : Nat,
                                  batch : SUBSET Events, then : Statuses]]
        BY <1>1, <2>2 DEF Safe, Types
    <2>5. QED
        BY <1>1, <2>3, <2>4 DEF Safe, Types, TypeOK, OpRow
<1>2. QED
    BY <1>1, AlwaysSafe, AlwaysResting, PTL

(***************************************************************************)
(* A checkpoint covers what the run promised up to there, and a run that   *)
(* completes has reached every outbox row there was at its start, but for  *)
(* what retention has taken away: however often executeLoop is paused,     *)
(* fails, dies or is driven twice, saveProgress never moves a checkpoint   *)
(* past a promised event that readBatch could still find and that it has   *)
(* not counted.                                                            *)
(***************************************************************************)
THEOREM PromiseKept == Spec => []CheckpointIsCovered
<1>1. ASSUME Safe
      PROVE  CheckpointIsCovered
    <2> SUFFICES ASSUME NEW r \in Runs
                 PROVE  /\ UpTo(Pledged(r), run[r].checkpoint) \subseteq reached[r]
                        /\ run[r].status = "completed" => Pledged(r) \ Letters \subseteq reached[r]
        BY DEF CheckpointIsCovered, Pledged
    <2>1. RowOK(r)
        BY <1>1 DEF Safe, Rows
    <2>2. UpTo(Pledged(r), run[r].checkpoint) \subseteq reached[r]
        BY <2>1 DEF RowOK, Fits
    <2>3. QED
        BY <2>1, <2>2 DEF RowOK, Whole
<1>2. QED
    BY <1>1, AlwaysSafe, PTL

(***************************************************************************)
(* The counts of a run's row go with its checkpoint: execute begins from   *)
(* the counts it reads and saveProgress writes both together, so that no   *)
(* interruption makes it count twice, or lose the count of what it reached *)
(* and retention has left.                                                 *)
(***************************************************************************)
THEOREM CountedOnce == Spec => []CountsMatchCheckpoint
<1>1. ASSUME Safe
      PROVE  CountsMatchCheckpoint
    <2> SUFFICES ASSUME NEW r \in Runs
                 PROVE  /\ run[r].count <= Cardinality(UpTo(reached[r], run[r].checkpoint))
                        /\ Cardinality(UpTo(Pledged(r), run[r].checkpoint)) <= run[r].count
        BY DEF CountsMatchCheckpoint, Pledged
    <2>1. Fits(Pledged(r), reached[r], run[r].checkpoint, run[r].count)
        BY <1>1 DEF Safe, Rows, RowOK
    <2>2. QED
        BY <2>1 DEF Fits
<1>2. QED
    BY <1>1, AlwaysSafe, PTL

(***************************************************************************)
(* Of what was promised and is still there, a run that one executor drove  *)
(* at a time has handed over at most checkpointInterval events beyond its  *)
(* checkpoint: so many are delivered again when executeLoop dies and is    *)
(* begun anew, however many times it did.                                  *)
(***************************************************************************)
THEOREM FewRedeliveries == Spec => []RedeliveryIsBounded
<1>1. ASSUME Safe
      PROVE  RedeliveryIsBounded
    <2> SUFFICES ASSUME NEW r \in Runs \ doubled
                 PROVE  Cardinality({e \in handed[r] : e > run[r].checkpoint} \cap promised[r] \cap present)
                           <= CheckpointInterval
        BY DEF RedeliveryIsBounded
    <2> DEFINE ahead == {e \in handed[r] : e > run[r].checkpoint}
    <2>1. /\ Pledged(r) \in SUBSET Events /\ run[r].checkpoint \in Keys /\ handed[r] \in SUBSET Events
          /\ RowOK(r)
        BY <1>1, Shapes DEF Safe, Rows
    <2>2. Redelivered(Pledged(r), handed[r], run[r].checkpoint) /\ handed[r] \cap Refused = {}
        BY <2>1 DEF RowOK
    <2>3. Cardinality(ahead \cap Pledged(r)) <= CheckpointInterval
        BY <2>1, <2>2, RedeliveryBound
    <2>4. ahead \cap Pledged(r) = ahead \cap promised[r] \cap present
        BY DEF Pledged
    <2>5. QED
        BY <2>3, <2>4
<1>2. QED
    BY <1>1, AlwaysSafe, PTL

=============================================================================
