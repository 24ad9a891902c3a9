------------------------- MODULE OutboxRelayProofs -------------------------
(***************************************************************************)
(* Proofs about OutboxRelay, for any events, aggregates, relays, batch     *)
(* size, attempts and faults.                                              *)
(*                                                                         *)
(* Safe is inductive by itself.  The order of a serialized aggregate's     *)
(* events rests on Settled: an event a relay has in hand, or has appended, *)
(* has no unsettled predecessor.                                           *)
(***************************************************************************)
EXTENDS OutboxRelay, WellFoundedInduction, TLAPS

Row == [state : RowStates, attempts : Nat]

Shape ==
    /\ row \in [Events -> Row]
    /\ stream \in Seq(Events)
    /\ dead \subseteq Events
    /\ cycle \in [Relays -> CycleType]
    /\ faults \in 0..MaxFaults

(* What a cycle works on is what it claimed, and what it will mark has landed *)
(* or is quarantined.                                                         *)
CyclesAreWhole ==
    \A r \in Relays :
        /\ cycle[r].todo \subseteq cycle[r].claimed
        /\ cycle[r].marks \subseteq cycle[r].claimed
        /\ cycle[r].tried \subseteq cycle[r].claimed
        /\ cycle[r].buried \subseteq cycle[r].claimed
        /\ cycle[r].marks \subseteq OnStream \cup cycle[r].buried

(* Row locks: two living transactions never claim the same row. *)
ClaimsAreExclusive ==
    \A r, s \in Relays :
        (r # s /\ cycle[r].open /\ cycle[s].open) =>
            cycle[r].claimed \cap cycle[s].claimed = {}

(* Only attempts short of the limit are counted. *)
AttemptsAreLeft ==
    /\ \A e \in Events : row[e].attempts < MaxPublishAttempts
    /\ \A r \in Relays : cycle[r].open =>
          \A e \in cycle[r].tried : row[e].attempts + 1 < MaxPublishAttempts

(* A row a relay claimed, or appended, was committed by its producer. *)
OnlyCommittedMoves ==
    \A e \in Events :
        (e \in OnStream \/ \E r \in Relays : e \in cycle[r].claimed) =>
            row[e].state \in {"pending", "published"}

Safe ==
    /\ Shape /\ CyclesAreWhole /\ ClaimsAreExclusive /\ AttemptsAreLeft
    /\ OnlyCommittedMoves /\ NothingIsLost

-----------------------------------------------------------------------------
(* The stream. *)

LEMMA RangeOfStream ==
    ASSUME stream \in Seq(Events)
    PROVE  /\ OnStream \subseteq Events
           /\ \A e : e \in OnStream <=> \E i \in 1..Len(stream) : stream[i] = e
BY DEF OnStream

(* An append adds copies of its event after all there was. *)
LEMMA Landing ==
    ASSUME stream \in Seq(Events), NEW e \in Events, NEW least \in {0, 1}, Lands(e, least)
    PROVE  /\ stream' \in Seq(Events)
           /\ Len(stream') \in Nat /\ Len(stream') >= Len(stream) + least
           /\ \A i \in 1..Len(stream) : stream'[i] = stream[i]
           /\ \A i \in Len(stream) + 1 .. Len(stream') : stream'[i] = e
<1>1. PICK n \in {least} \cup (least..2) : stream' = stream \o [i \in 1..n |-> e]
    BY DEF Lands
<1>2. n \in Nat /\ n >= least
    BY <1>1
<1> DEFINE copies == [i \in 1..n |-> e]
<1>3. copies \in Seq(Events) /\ Len(copies) = n /\ \A i \in 1..n : copies[i] = e
    BY <1>2
<1>4. stream' = stream \o copies
    BY <1>1
<1> HIDE DEF copies
<1>5. stream' \in Seq(Events) /\ Len(stream') = Len(stream) + n
    BY <1>2, <1>3, <1>4
<1>6. \A i \in 1..Len(stream') :
          stream'[i] = IF i <= Len(stream) THEN stream[i] ELSE copies[i - Len(stream)]
    BY <1>2, <1>3, <1>4
<1> QED BY <1>2, <1>3, <1>5, <1>6

LEMMA OnStreamGrows ==
    ASSUME stream \in Seq(Events), NEW e \in Events, NEW least \in {0, 1}, Lands(e, least)
    PROVE  /\ OnStream \subseteq OnStream' /\ OnStream' \subseteq OnStream \cup {e}
           /\ least = 1 => e \in OnStream'
<1>1. /\ \A f : f \in OnStream <=> \E i \in 1..Len(stream) : stream[i] = f
      /\ \A f : f \in OnStream' <=> \E i \in 1..Len(stream') : stream'[i] = f
    BY DEF OnStream
<1>2. Len(stream) \in Nat
    OBVIOUS
<1>3. OnStream \subseteq OnStream'
    BY <1>1, <1>2, Landing
<1>4. OnStream' \subseteq OnStream \cup {e}
    BY <1>1, <1>2, Landing
<1>5. ASSUME least = 1 PROVE e \in OnStream'
    <2>1. Len(stream) + 1 \in Len(stream) + 1 .. Len(stream')
        BY <1>2, <1>5, Landing
    <2>2. stream'[Len(stream) + 1] = e
        BY <2>1, Landing
    <2> QED BY <1>1, <1>2, <2>1, <2>2
<1> QED BY <1>3, <1>4, <1>5

-----------------------------------------------------------------------------
(* Each kind of step keeps Safe. *)

LEMMA SafeInit == Init => Safe
<1> SUFFICES ASSUME Init PROVE Safe
    OBVIOUS
<1>1. OnStream = {} /\ \A r \in Relays : cycle[r] = Idle
    BY DEF Init, OnStream
<1>2. Shape
    BY BoundsAssumption DEF Init, Shape, Row, RowStates, CycleType, Idle
<1>3. CyclesAreWhole /\ ClaimsAreExclusive
    BY <1>1 DEF CyclesAreWhole, ClaimsAreExclusive, Idle
<1>4. AttemptsAreLeft
    BY <1>1, BoundsAssumption DEF AttemptsAreLeft, Init, Idle
<1>5. OnlyCommittedMoves /\ NothingIsLost
    BY <1>1 DEF OnlyCommittedMoves, NothingIsLost, Init, Idle
<1> QED BY <1>2, <1>3, <1>4, <1>5 DEF Safe

(* A producer moves its own row, which no relay has seen. *)
LEMMA ProducerSafe ==
    ASSUME Safe, NEW e \in Events, NEW s \in {"written", "pending", "rolled back"},
           row' = [row EXCEPT ![e].state = s],
           row[e].state \in {"none", "written"}, UNCHANGED <<stream, dead, cycle>>,
           faults' \in 0..MaxFaults
    PROVE  Safe'
<1> USE DEF Safe
<1>1. /\ row' \in [Events -> Row]
      /\ row'[e].state = s /\ row'[e].attempts = row[e].attempts
      /\ \A f \in Events \ {e} : row'[f] = row[f]
    BY DEF Shape, Row, RowStates
<1>2. OnStream' = OnStream
    BY DEF OnStream
<1>3. Shape'
    BY <1>1 DEF Shape
<1>4. CyclesAreWhole' /\ ClaimsAreExclusive'
    BY <1>2 DEF CyclesAreWhole, ClaimsAreExclusive
<1>5. AttemptsAreLeft'
    <2>1. \A f \in Events : row'[f].attempts = row[f].attempts
        BY <1>1
    <2>2. \A r \in Relays : cycle[r].tried \subseteq Events
        BY DEF Shape, CycleType
    <2> QED BY <2>1, <2>2 DEF AttemptsAreLeft
<1>6. OnlyCommittedMoves' /\ NothingIsLost'
    BY <1>1, <1>2 DEF OnlyCommittedMoves, NothingIsLost
<1> QED BY <1>3, <1>4, <1>5, <1>6

LEMMA ClaimSafe ==
    ASSUME Safe, NEW r \in Relays, Claim(r)
    PROVE  Safe'
<1> USE DEF Safe
<1>1. PICK S \in SUBSET Events :
          IsBatch(S) /\ cycle' = [cycle EXCEPT ![r] = [@ EXCEPT !.claimed = S, !.todo = S]]
    BY DEF Claim
<1>2. /\ cycle[r].claimed = {} /\ UNCHANGED <<row, stream, dead, faults>>
      /\ S \subseteq Pending /\ S \cap Locked = {}
    BY <1>1 DEF Claim, IsBatch, Claimable
<1>3. /\ cycle' \in [Relays -> CycleType]
      /\ cycle'[r].claimed = S /\ cycle'[r].todo = S /\ cycle'[r].marks = cycle[r].marks
      /\ cycle'[r].tried = cycle[r].tried /\ cycle'[r].buried = cycle[r].buried
      /\ cycle'[r].open = cycle[r].open
      /\ \A s \in Relays \ {r} : cycle'[s] = cycle[s]
    <2>1. cycle[r] \in CycleType
        BY DEF Shape
    <2> DEFINE x == [cycle[r] EXCEPT !.claimed = S, !.todo = S]
    <2>2. /\ x \in CycleType /\ x.claimed = S /\ x.todo = S /\ x.marks = cycle[r].marks
          /\ x.tried = cycle[r].tried /\ x.buried = cycle[r].buried /\ x.open = cycle[r].open
        BY <2>1 DEF CycleType
    <2>3. cycle' = [cycle EXCEPT ![r] = x]
        BY <1>1
    <2> HIDE DEF x
    <2> QED BY <2>2, <2>3 DEF Shape
<1>4. OnStream' = OnStream
    BY <1>2 DEF OnStream
<1>5. cycle[r].marks = {} /\ cycle[r].tried = {} /\ cycle[r].buried = {}
    BY <1>2 DEF CyclesAreWhole
<1>6. Shape' /\ CyclesAreWhole'
    BY <1>2, <1>3, <1>4, <1>5 DEF Shape, CyclesAreWhole
<1>7. ClaimsAreExclusive'
    <2>1. \A s \in Relays : cycle[s].open => S \cap cycle[s].claimed = {}
        BY <1>2 DEF Locked
    <2> QED BY <1>3, <2>1 DEF ClaimsAreExclusive
<1>8. AttemptsAreLeft'
    BY <1>2, <1>3 DEF AttemptsAreLeft
<1>9. OnlyCommittedMoves' /\ NothingIsLost'
    BY <1>2, <1>3, <1>4 DEF OnlyCommittedMoves, NothingIsLost, Pending
<1> QED BY <1>6, <1>7, <1>8, <1>9

(* An attempt at an event: it lands or not, and is marked, buried or counted. *)
LEMMA AttemptSafe ==
    ASSUME Safe, NEW r \in Relays, NEW e \in Events, IsNext(r, e), NEW least \in {0, 1},
           Lands(e, least), UNCHANGED <<row, dead, faults>>, NEW x \in CycleType,
           cycle' = [cycle EXCEPT ![r] = x],
           x.claimed = cycle[r].claimed, x.todo \subseteq cycle[r].todo, x.open = cycle[r].open,
           cycle[r].buried \subseteq x.buried, x.buried \subseteq cycle[r].buried \cup {e},
           x.marks \subseteq cycle[r].marks \cup (IF least = 1 \/ e \in x.buried THEN {e} ELSE {}),
           x.tried \subseteq cycle[r].tried \cup
               (IF row[e].attempts + 1 < MaxPublishAttempts THEN {e} ELSE {})
    PROVE  Safe'
<1> USE DEF Safe
<1>1. /\ cycle' \in [Relays -> CycleType] /\ cycle'[r] = x
      /\ \A s \in Relays \ {r} : cycle'[s] = cycle[s]
    BY DEF Shape
<1>2. /\ stream' \in Seq(Events)
      /\ OnStream \subseteq OnStream' /\ OnStream' \subseteq OnStream \cup {e}
      /\ least = 1 => e \in OnStream'
    BY Landing, OnStreamGrows DEF Shape
<1>3. e \in cycle[r].claimed
    BY DEF IsNext, CyclesAreWhole
<1>4. Shape'
    BY <1>1, <1>2 DEF Shape
<1>5. CyclesAreWhole'
    <2>1. ASSUME NEW s \in Relays, s # r
          PROVE  /\ cycle'[s] = cycle[s]
                 /\ cycle[s].marks \subseteq OnStream' \cup cycle[s].buried
        BY <1>1, <1>2, <2>1 DEF CyclesAreWhole
    <2>2. /\ x.todo \subseteq x.claimed /\ x.marks \subseteq x.claimed
          /\ x.tried \subseteq x.claimed /\ x.buried \subseteq x.claimed
          /\ x.marks \subseteq OnStream' \cup x.buried
        BY <1>2, <1>3 DEF CyclesAreWhole
    <2> QED BY <1>1, <2>1, <2>2 DEF CyclesAreWhole
<1>6. ClaimsAreExclusive'
    BY <1>1 DEF ClaimsAreExclusive
<1>7. AttemptsAreLeft'
    BY <1>1 DEF AttemptsAreLeft
<1>8. OnlyCommittedMoves' /\ NothingIsLost'
    BY <1>1, <1>2, <1>3 DEF OnlyCommittedMoves, NothingIsLost
<1> QED BY <1>4, <1>5, <1>6, <1>7, <1>8

LEMMA Dispositions ==
    ASSUME NEW x \in CycleType, NEW e \in Events
    PROVE  /\ LET y == Marked(x, e) IN
                 /\ y \in CycleType /\ y.claimed = x.claimed /\ y.todo \subseteq x.todo
                 /\ y.open = x.open /\ y.marks = x.marks \cup {e}
                 /\ y.buried = x.buried /\ y.tried = x.tried
           /\ LET y == Buried(x, e) IN
                 /\ y \in CycleType /\ y.claimed = x.claimed /\ y.todo \subseteq x.todo
                 /\ y.open = x.open /\ y.marks = x.marks \cup {e}
                 /\ y.buried = x.buried \cup {e} /\ y.tried = x.tried
           /\ LET y == Counted(x, e) IN
                 /\ y \in CycleType /\ y.claimed = x.claimed /\ y.todo \subseteq x.todo
                 /\ y.open = x.open /\ y.marks = x.marks
                 /\ y.buried = x.buried /\ y.tried = x.tried \cup {e}
BY DEF Marked, Buried, Counted, CycleType

LEMMA DeliveredSafe ==
    ASSUME Safe, NEW r \in Relays, NEW e \in Events, Delivered(r, e)
    PROVE  Safe'
<1>1. PICK x \in CycleType : x = cycle[r]
    BY DEF Safe, Shape
<1>2. PICK y \in CycleType : y = Marked(x, e)
    BY Dispositions
<1>3. /\ y.claimed = x.claimed /\ y.todo \subseteq x.todo /\ y.open = x.open
      /\ y.buried = x.buried /\ y.marks = x.marks \cup {e} /\ y.tried = x.tried
    BY <1>2, Dispositions
<1>4. /\ cycle' = [cycle EXCEPT ![r] = y] /\ IsNext(r, e) /\ Lands(e, 1)
      /\ UNCHANGED <<row, dead, faults>>
    BY <1>1, <1>2 DEF Delivered
<1> QED BY <1>1, <1>3, <1>4, AttemptSafe

LEMMA RefusedSafe ==
    ASSUME Safe, NEW r \in Relays, NEW e \in Events, Refused(r, e)
    PROVE  Safe'
<1>1. PICK x \in CycleType : x = cycle[r]
    BY DEF Safe, Shape
<1>2. IsNext(r, e) /\ Lands(e, 0) /\ UNCHANGED <<row, dead, faults>>
    BY DEF Refused
<1>3. row[e].attempts \in Nat
    BY DEF Safe, Shape, Row
<1>4. CASE row[e].attempts + 1 >= MaxPublishAttempts
    <2>1. PICK y \in CycleType : y = Buried(x, e)
        BY Dispositions
    <2>2. /\ y.claimed = x.claimed /\ y.todo \subseteq x.todo /\ y.open = x.open
          /\ y.buried = x.buried \cup {e} /\ y.marks = x.marks \cup {e} /\ y.tried = x.tried
        BY <2>1, Dispositions
    <2>3. cycle' = [cycle EXCEPT ![r] = y]
        BY <1>1, <1>4, <2>1 DEF Refused
    <2> QED BY <1>1, <1>2, <2>2, <2>3, AttemptSafe
<1>5. CASE ~(row[e].attempts + 1 >= MaxPublishAttempts)
    <2>1. PICK y \in CycleType : y = Counted(x, e)
        BY Dispositions
    <2>2. /\ y.claimed = x.claimed /\ y.todo \subseteq x.todo /\ y.open = x.open
          /\ y.buried = x.buried /\ y.marks = x.marks /\ y.tried = x.tried \cup {e}
        BY <2>1, Dispositions
    <2>3. cycle' = [cycle EXCEPT ![r] = y]
        BY <1>1, <1>5, <2>1 DEF Refused
    <2>4. row[e].attempts + 1 < MaxPublishAttempts
        BY <1>3, <1>5, BoundsAssumption
    <2> QED BY <1>1, <1>2, <2>2, <2>3, <2>4, AttemptSafe
<1> QED BY <1>4, <1>5

(* The marked rows leave the outbox; the counted ones keep an attempt. *)
LEMMA CommitSafe ==
    ASSUME Safe, NEW r \in Relays, Commit(r)
    PROVE  Safe'
<1> USE DEF Safe
<1>1. /\ cycle' \in [Relays -> CycleType] /\ cycle'[r] = Idle
      /\ \A s \in Relays \ {r} : cycle'[s] = cycle[s]
    BY DEF Commit, Shape, CycleType, Idle
<1>2. /\ dead' = dead \cup cycle[r].buried /\ UNCHANGED <<stream, faults>> /\ cycle[r].open
      /\ OnStream' = OnStream
    BY DEF Commit, OnStream
<1>3. ASSUME NEW e \in Events
      PROVE  /\ row'[e] \in Row
             /\ row'[e].state = IF e \in cycle[r].marks THEN "published" ELSE row[e].state
             /\ row'[e].attempts \in Nat
             /\ \/ row'[e].attempts = row[e].attempts
                \/ e \in cycle[r].tried /\ row'[e].attempts = row[e].attempts + 1
    <2>1. row[e] \in Row
        BY DEF Shape
    <2>2. row'[e] = IF e \in cycle[r].marks THEN [row[e] EXCEPT !.state = "published"]
                    ELSE IF e \in cycle[r].tried THEN [row[e] EXCEPT !.attempts = @ + 1]
                    ELSE row[e]
        BY DEF Commit
    <2>3. CASE e \in cycle[r].marks
        BY <2>1, <2>2, <2>3 DEF Row, RowStates
    <2>4. CASE e \notin cycle[r].marks /\ e \in cycle[r].tried
        <3>1. row'[e] = [row[e] EXCEPT !.attempts = row[e].attempts + 1]
            BY <2>2, <2>4
        <3> QED BY <2>1, <2>4, <3>1 DEF Row
    <2>5. CASE e \notin cycle[r].marks /\ e \notin cycle[r].tried
        BY <2>1, <2>2, <2>5 DEF Row
    <2> QED BY <2>3, <2>4, <2>5
<1>4. cycle[r] \in CycleType /\ dead \subseteq Events /\ \A e \in Events : row[e].attempts \in Nat
    BY DEF Shape, Row
<1>5. Shape'
    <2>1. row' \in [Events -> Row]
        BY <1>3 DEF Commit
    <2> QED BY <1>1, <1>2, <1>4, <2>1 DEF Shape, CycleType
<1>6. CyclesAreWhole' /\ ClaimsAreExclusive'
    BY <1>1, <1>2 DEF CyclesAreWhole, ClaimsAreExclusive, Idle
<1>7. AttemptsAreLeft'
    <2>1. ASSUME NEW e \in Events PROVE row'[e].attempts < MaxPublishAttempts
        BY <1>2, <1>3, <1>4 DEF AttemptsAreLeft
    <2>2. ASSUME NEW s \in Relays, cycle'[s].open, NEW e \in cycle'[s].tried
          PROVE  row'[e].attempts + 1 < MaxPublishAttempts
        <3>1. s # r /\ cycle'[s] = cycle[s]
            BY <1>1, <2>2 DEF Idle
        <3>2. e \in cycle[s].claimed /\ e \in Events
            BY <2>2, <3>1 DEF CyclesAreWhole, Shape, CycleType
        <3>3. e \notin cycle[r].tried
            BY <1>2, <2>2, <3>1, <3>2 DEF ClaimsAreExclusive, CyclesAreWhole
        <3> QED BY <1>3, <2>2, <3>1, <3>2, <3>3 DEF AttemptsAreLeft
    <2> QED BY <2>1, <2>2 DEF AttemptsAreLeft
<1>8. OnlyCommittedMoves'
    <2>1. cycle[r].marks \subseteq cycle[r].claimed
        BY DEF CyclesAreWhole
    <2> QED BY <1>1, <1>2, <1>3, <2>1 DEF OnlyCommittedMoves, Idle
<1>9. NothingIsLost'
    BY <1>2, <1>3 DEF NothingIsLost, CyclesAreWhole
<1> QED BY <1>5, <1>6, <1>7, <1>8, <1>9

(* A cycle ends and leaves the rows as they were, or its session is lost. *)
LEMMA EndSafe ==
    ASSUME Safe, NEW r \in Relays, UNCHANGED <<row, stream, dead>>, faults' \in 0..MaxFaults,
           cycle' = [cycle EXCEPT ![r] = Idle] \/ cycle' = [cycle EXCEPT ![r] = [@ EXCEPT !.open = FALSE]]
    PROVE  Safe'
<1> USE DEF Safe
<1> DEFINE x == [cycle[r] EXCEPT !.open = FALSE]
<1>1. cycle[r] \in CycleType
    BY DEF Shape
<1>2. /\ x \in CycleType /\ x.claimed = cycle[r].claimed /\ x.todo = cycle[r].todo
      /\ x.marks = cycle[r].marks /\ x.tried = cycle[r].tried /\ x.buried = cycle[r].buried
      /\ x.open = FALSE
    BY <1>1 DEF CycleType
<1>3. cycle' = [cycle EXCEPT ![r] = Idle] \/ cycle' = [cycle EXCEPT ![r] = x]
    OBVIOUS
<1> HIDE DEF x
<1>4. /\ cycle' \in [Relays -> CycleType] /\ cycle'[r] \in {Idle, x}
      /\ \A s \in Relays \ {r} : cycle'[s] = cycle[s]
    <2>1. PICK y \in {Idle, x} : cycle' = [cycle EXCEPT ![r] = y]
        BY <1>3
    <2>2. Idle \in CycleType
        BY DEF Idle, CycleType
    <2>3. y \in CycleType
        BY <1>2, <2>1, <2>2
    <2> QED BY <2>1, <2>3 DEF Shape
<1>5. OnStream' = OnStream
    BY DEF OnStream
<1>6. Shape'
    BY <1>4 DEF Shape
<1>7. CyclesAreWhole' /\ ClaimsAreExclusive'
    BY <1>2, <1>4, <1>5 DEF CyclesAreWhole, ClaimsAreExclusive, Idle
<1>8. AttemptsAreLeft'
    BY <1>2, <1>4 DEF AttemptsAreLeft, Idle
<1>9. OnlyCommittedMoves' /\ NothingIsLost'
    BY <1>2, <1>4, <1>5 DEF OnlyCommittedMoves, NothingIsLost, Idle
<1> QED BY <1>6, <1>7, <1>8, <1>9

LEMMA SafeStep == Safe /\ [Next]_vars => Safe'
<1> SUFFICES ASSUME Safe, [Next]_vars PROVE Safe'
    OBVIOUS
<1>0. faults < MaxFaults /\ faults' = faults + 1 => faults' \in 0..MaxFaults
    BY BoundsAssumption DEF Safe, Shape
<1>1. faults \in 0..MaxFaults /\ MaxFaults \in Nat
    BY BoundsAssumption DEF Safe, Shape
<1>2. ASSUME NEW e \in Events, Publish(e) \/ CommitProducer(e) \/ RollBackProducer(e)
      PROVE  Safe'
    <2>1. PICK s \in {"written", "pending", "rolled back"} : row' = [row EXCEPT ![e].state = s]
        BY <1>2 DEF Publish, CommitProducer, RollBackProducer
    <2>2. row[e].state \in {"none", "written"} /\ UNCHANGED <<stream, dead, cycle>>
        BY <1>2 DEF Publish, CommitProducer, RollBackProducer
    <2>3. CASE UNCHANGED faults
        BY <1>1, <2>1, <2>2, <2>3, ProducerSafe
    <2>4. CASE faults < MaxFaults /\ faults' = faults + 1
        <3>2. faults' \in 0..MaxFaults
            BY <1>0, <2>4
        <3> QED BY <2>1, <2>2, <3>2, ProducerSafe
    <2> QED BY <1>2, <2>3, <2>4 DEF Publish, CommitProducer, RollBackProducer
<1>3. ASSUME NEW r \in Relays, Cycle(r) PROVE Safe'
    <2>1. CASE Abandon(r)
        BY <1>1, <2>1, EndSafe DEF Abandon
    <2> QED BY <1>3, <2>1, ClaimSafe, DeliveredSafe, RefusedSafe, CommitSafe DEF Cycle
<1>4. ASSUME NEW r \in Relays, Crash(r) \/ LoseSession(r) PROVE Safe'
    BY <1>1, <1>4, EndSafe DEF Crash, LoseSession
<1>5. CASE UNCHANGED vars
    BY <1>5 DEF vars, Safe, Shape, CyclesAreWhole, ClaimsAreExclusive, AttemptsAreLeft,
               OnlyCommittedMoves, NothingIsLost, OnStream
<1> QED BY <1>2, <1>3, <1>4, <1>5 DEF Next

-----------------------------------------------------------------------------

(* Every reachable state of the outbox and its relays is Safe. *)
THEOREM AlwaysSafe == Spec => []Safe
<1> QED BY SafeInit, SafeStep, PTL DEF Spec

(* Rows, cycles and dead letters keep their shape, and a row's attempts stay *)
(* below the limit: two relays never count for the same row (relay.ts).      *)
THEOREM TypeCorrect == Spec => []TypeOK
<1>1. Safe => TypeOK
    <2> SUFFICES ASSUME Safe PROVE TypeOK
        OBVIOUS
    <2>1. \A e \in Events : row[e] \in [state : RowStates, attempts : 0..MaxPublishAttempts-1]
        <3> SUFFICES ASSUME NEW e \in Events
                     PROVE  row[e] \in [state : RowStates, attempts : 0..MaxPublishAttempts-1]
            OBVIOUS
        <3>1. row[e] \in Row /\ row[e].attempts < MaxPublishAttempts
            BY DEF Safe, Shape, AttemptsAreLeft
        <3>2. row[e].attempts \in 0..MaxPublishAttempts-1
            BY <3>1, BoundsAssumption DEF Row
        <3> QED BY <3>1, <3>2 DEF Row
    <2> QED BY <2>1 DEF Safe, Shape, TypeOK
<1> QED BY <1>1, AlwaysSafe, PTL

(* A row that left the outbox is on the stream or in the dead-letter queue, *)
(* whatever was refused and wherever a relay died (relay.ts, drainOnce).    *)
THEOREM DeliversOrBuries == Spec => []NothingIsLost
<1>1. Safe => NothingIsLost
    BY DEF Safe
<1> QED BY <1>1, AlwaysSafe, PTL

-----------------------------------------------------------------------------
(* The order of an aggregate's events. *)

(* Both are of one aggregate, whose producers hold its lock. *)
Precedes(e, f) ==
    e < f /\ AggregateOf[e] = AggregateOf[f] /\ AggregateOf[e] \in Serialized

(* A published event's predecessors have committed or rolled back, and the  *)
(* predecessors of one a relay has in hand or has appended have left.       *)
Settled ==
    \A e, f \in Events : Precedes(e, f) =>
        /\ row[f].state # "none" => row[e].state \in {"rolled back", "pending", "published"}
        /\ (f \in OnStream \/ \E r \in Relays : f \in cycle[r].claimed) =>
               row[e].state \in {"rolled back", "published"}

(* e was appended before f ever was. *)
Before(e, f) == \E i \in 1..Len(stream) : stream[i] = e /\ \A j \in 1..i : stream[j] # f

StreamOrdered ==
    \A e, f \in OnStream : Precedes(e, f) => Before(e, f) \/ e \in dead

LEMMA FirstIndex ==
    ASSUME stream \in Seq(Events), NEW e \in OnStream
    PROVE  /\ FirstAppend(e) \in 1..Len(stream) /\ stream[FirstAppend(e)] = e
           /\ \A j \in 1..FirstAppend(e)-1 : stream[j] # e
<1> DEFINE T == {i \in 1..Len(stream) : stream[i] = e}
<1>1. T \subseteq Nat /\ T # {}
    BY DEF OnStream
<1>2. PICK i \in T : \A j \in T : ~(<<j, i>> \in OpToRel(<, Nat))
    BY <1>1, WFMin, NatLessThanWellFounded
<1>3. \A j \in T : ~(j < i)
    BY <1>1, <1>2 DEF OpToRel
<1>4. i \in 1..Len(stream) /\ stream[i] = e /\ \A j \in 1..i-1 : stream[j] # e
    BY <1>3
<1> QED BY <1>4 DEF FirstAppend

LEMMA OrderedIsInOrder ==
    ASSUME Safe, StreamOrdered
    PROVE  InOrder
<1> SUFFICES ASSUME NEW e \in OnStream \ dead, NEW f \in OnStream \ dead,
                    AggregateOf[e] = AggregateOf[f], AggregateOf[e] \in Serialized, e < f
             PROVE  FirstAppend(e) < FirstAppend(f)
    BY DEF InOrder
<1>1. stream \in Seq(Events)
    BY DEF Safe, Shape
<1>2. PICK i \in 1..Len(stream) : stream[i] = e /\ \A j \in 1..i : stream[j] # f
    BY DEF StreamOrdered, Precedes, Before
<1>3. FirstAppend(e) \in Nat /\ FirstAppend(e) <= i
    BY <1>1, <1>2, FirstIndex
<1>4. FirstAppend(f) \in Nat /\ i < FirstAppend(f)
    BY <1>1, <1>2, FirstIndex
<1> QED BY <1>3, <1>4

Ordered == Safe /\ Settled /\ StreamOrdered

LEMMA OrderInit == Init => Settled /\ StreamOrdered
<1> SUFFICES ASSUME Init PROVE Settled /\ StreamOrdered
    OBVIOUS
<1>1. OnStream = {}
    BY DEF Init, OnStream
<1>2. \A e \in Events : row[e].state = "none"
    BY DEF Init
<1>3. \A r \in Relays : cycle[r].claimed = {}
    BY DEF Init, Idle
<1> QED BY <1>1, <1>2, <1>3 DEF Settled, StreamOrdered

(* A serialized producer publishes after its predecessors have committed. *)
LEMMA ProducerOrder ==
    ASSUME Ordered, NEW e \in Events,
           Publish(e) \/ CommitProducer(e) \/ RollBackProducer(e)
    PROVE  Settled' /\ StreamOrdered'
<1>1. \A f \in Events : row[f] \in Row
    BY DEF Ordered, Safe, Shape
<1>2. /\ \A f \in Events \ {e} : row'[f] = row[f]
      /\ UNCHANGED <<stream, dead, cycle>> /\ OnStream' = OnStream
    BY DEF Ordered, Safe, Shape, Publish, CommitProducer, RollBackProducer, OnStream
<1>3. StreamOrdered'
    BY <1>2 DEF Ordered, StreamOrdered, Before
<1>4. CASE Publish(e)
    <2>1. row[e].state = "none" /\ row'[e].state = "written"
        BY <1>1, <1>4 DEF Publish, Ordered, Safe, Shape, Row
    <2>2. \A d \in Events : Precedes(d, e) =>
              row[d].state \in {"rolled back", "pending", "published"}
        BY <1>1, <1>4 DEF Publish, Precedes, Row, RowStates
    <2>3. \A f \in Events : Precedes(e, f) =>
              /\ row[f].state = "none"
              /\ f \notin OnStream /\ \A r \in Relays : f \notin cycle[r].claimed
        BY <2>1 DEF Ordered, Settled
    <2>4. e \notin OnStream /\ \A r \in Relays : e \notin cycle[r].claimed
        BY <2>1 DEF Ordered, Safe, OnlyCommittedMoves
    <2>5. Settled'
        <3> SUFFICES ASSUME NEW d \in Events, NEW f \in Events, Precedes(d, f)
                     PROVE  /\ row'[f].state # "none" =>
                                   row'[d].state \in {"rolled back", "pending", "published"}
                            /\ (f \in OnStream \/ \E r \in Relays : f \in cycle[r].claimed) =>
                                   row'[d].state \in {"rolled back", "published"}
            BY <1>2 DEF Settled, Precedes
        <3>1. d # f
            BY EventsAssumption DEF Precedes
        <3>2. CASE f = e
            BY <1>2, <2>2, <2>4, <3>1, <3>2
        <3>3. CASE d = e
            BY <1>2, <2>3, <3>1, <3>3
        <3>4. CASE d # e /\ f # e
            BY <1>2, <3>4 DEF Ordered, Settled
        <3> QED BY <3>2, <3>3, <3>4
    <2> QED BY <1>3, <2>5
<1>5. CASE CommitProducer(e) \/ RollBackProducer(e)
    <2>1. row[e].state = "written" /\ row'[e].state \in {"pending", "rolled back"}
        BY <1>1, <1>5 DEF CommitProducer, RollBackProducer, Ordered, Safe, Shape, Row
    <2>2. \A f \in Events : Precedes(e, f) =>
              row[f].state = "none" /\ f \notin OnStream /\ \A r \in Relays : f \notin cycle[r].claimed
        BY <2>1 DEF Ordered, Settled
    <2>3. e \notin OnStream /\ \A r \in Relays : e \notin cycle[r].claimed
        BY <2>1 DEF Ordered, Safe, OnlyCommittedMoves
    <2>4. Settled'
        <3> SUFFICES ASSUME NEW d \in Events, NEW f \in Events, Precedes(d, f)
                     PROVE  /\ row'[f].state # "none" =>
                                   row'[d].state \in {"rolled back", "pending", "published"}
                            /\ (f \in OnStream \/ \E r \in Relays : f \in cycle[r].claimed) =>
                                   row'[d].state \in {"rolled back", "published"}
            BY <1>2 DEF Settled, Precedes
        <3>1. CASE d = e
            BY <1>2, <2>1, <2>2, <3>1
        <3>2. CASE f = e /\ d # e
            BY <1>2, <2>1, <2>3, <3>2 DEF Ordered, Settled
        <3>3. CASE d # e /\ f # e
            BY <1>2, <3>3 DEF Ordered, Settled
        <3> QED BY <3>1, <3>2, <3>3
    <2> QED BY <1>3, <2>4
<1> QED BY <1>4, <1>5

(* A relay claims the first pending event of an aggregate. *)
LEMMA ClaimOrder ==
    ASSUME Ordered, NEW r \in Relays, Claim(r)
    PROVE  Settled' /\ StreamOrdered'
<1>1. PICK S \in SUBSET Events :
          IsBatch(S) /\ cycle' = [cycle EXCEPT ![r] = [@ EXCEPT !.claimed = S, !.todo = S]]
    BY DEF Claim
<1>2. UNCHANGED <<row, stream, dead>> /\ OnStream' = OnStream
    BY DEF Claim, OnStream
<1>3. StreamOrdered'
    BY <1>2 DEF Ordered, StreamOrdered, Before
<1>4. \A s \in Relays : cycle'[s].claimed \subseteq cycle[s].claimed \cup S
    <2>1. cycle[r] \in CycleType /\ cycle \in [Relays -> CycleType]
        BY DEF Ordered, Safe, Shape
    <2> DEFINE x == [cycle[r] EXCEPT !.claimed = S, !.todo = S]
    <2>2. x.claimed = S
        BY <2>1 DEF CycleType
    <2>3. cycle' = [cycle EXCEPT ![r] = x]
        BY <1>1
    <2> HIDE DEF x
    <2> QED BY <2>1, <2>2, <2>3
<1>5. ASSUME NEW e \in Events, NEW f \in S, Precedes(e, f)
      PROVE  row[e].state \in {"rolled back", "published"}
    <2>1. /\ row[f].state = "pending"
          /\ \A g \in Events : (row[g].state = "pending" /\ AggregateOf[g] = AggregateOf[f]) => f <= g
        BY <1>1 DEF IsBatch, Claimable, Pending
    <2>2. row[e].state \in {"rolled back", "pending", "published"}
        BY <1>5, <2>1 DEF Ordered, Settled
    <2>3. e < f /\ e \in Nat /\ f \in Nat /\ AggregateOf[e] = AggregateOf[f]
        BY <1>5, EventsAssumption DEF Precedes
    <2>4. ~(f <= e)
        BY <2>3
    <2> QED BY <2>1, <2>2, <2>3, <2>4
<1>6. Settled'
    BY <1>2, <1>4, <1>5 DEF Ordered, Settled, Precedes
<1> QED BY <1>3, <1>6

(* What lands is new and last, or was there before, or is a dead letter's. *)
LEMMA AttemptOrder ==
    ASSUME Ordered, NEW r \in Relays, NEW e \in Events, IsNext(r, e),
           NEW least \in {0, 1}, Lands(e, least), UNCHANGED <<row, dead>>,
           \A s \in Relays : cycle'[s].claimed = cycle[s].claimed
    PROVE  Settled' /\ StreamOrdered'
<1>1. e \in cycle[r].claimed /\ row[e].state \in {"pending", "published"}
    BY DEF IsNext, Ordered, Safe, CyclesAreWhole, OnlyCommittedMoves
<1>2. stream \in Seq(Events) /\ OnStream' \subseteq OnStream \cup {e}
    BY OnStreamGrows DEF Ordered, Safe, Shape
<1>3. /\ Len(stream) \in Nat /\ Len(stream') \in Nat /\ Len(stream') >= Len(stream)
      /\ \A i \in 1..Len(stream) : stream'[i] = stream[i]
    BY <1>2, Landing
<1>4. Settled'
    BY <1>1, <1>2 DEF Ordered, Settled, Precedes
<1>5. ASSUME NEW d \in OnStream', NEW f \in OnStream', Precedes(d, f)
      PROVE  Before(d, f)' \/ d \in dead
    <2>1. d \in Events /\ f \in Events
        BY <1>2, RangeOfStream
    <2>2. CASE d \in OnStream /\ f \in OnStream
        <3>1. CASE Before(d, f)
            BY <1>3, <3>1 DEF Before
        <3>2. CASE d \in dead
            BY <3>2
        <3> QED BY <1>5, <2>2, <3>1, <3>2 DEF Ordered, StreamOrdered
    <2>3. CASE d \in OnStream /\ f \notin OnStream
        <3>1. PICK i \in 1..Len(stream) : stream[i] = d
            BY <2>3, <1>2, RangeOfStream
        <3>2. \A j \in 1..Len(stream) : stream[j] # f
            BY <2>3, <1>2, RangeOfStream
        <3> QED BY <1>3, <3>1, <3>2 DEF Before
    <2>4. CASE d \notin OnStream
        <3>1. d = e
            BY <1>2, <2>4
        <3>2. f \in OnStream
            BY <1>2, <1>5, <3>1, EventsAssumption DEF Precedes
        <3>3. row[d].state = "published"
            BY <1>1, <1>5, <2>1, <3>1, <3>2 DEF Ordered, Settled
        <3> QED BY <2>1, <2>4, <3>3 DEF Ordered, Safe, NothingIsLost
    <2> QED BY <2>2, <2>3, <2>4
<1>6. StreamOrdered'
    BY <1>5 DEF StreamOrdered, Precedes
<1> QED BY <1>4, <1>6

(* The stream stays, claims are given up, and pending rows may be published. *)
LEMMA EndOrder ==
    ASSUME Ordered, NEW r \in Relays,
           Commit(r) \/ Abandon(r) \/ Crash(r) \/ LoseSession(r)
    PROVE  Settled' /\ StreamOrdered'
<1>1. UNCHANGED stream /\ OnStream' = OnStream /\ dead \subseteq dead'
    BY DEF Commit, Abandon, Crash, LoseSession, OnStream
<1>2. StreamOrdered'
    BY <1>1 DEF Ordered, StreamOrdered, Before
<1>3. \A s \in Relays : cycle'[s].claimed \subseteq cycle[s].claimed
    <2>1. cycle[r] \in CycleType /\ cycle \in [Relays -> CycleType]
        BY DEF Ordered, Safe, Shape
    <2> DEFINE x == [cycle[r] EXCEPT !.open = FALSE]
    <2>2. x.claimed = cycle[r].claimed /\ Idle.claimed = {}
        BY <2>1 DEF CycleType, Idle
    <2>3. PICK y \in {Idle, x} : cycle' = [cycle EXCEPT ![r] = y]
        BY DEF Commit, Abandon, Crash, LoseSession
    <2> HIDE DEF x
    <2> QED BY <2>1, <2>2, <2>3
<1>4. ASSUME NEW e \in Events
      PROVE  \/ row'[e].state = row[e].state
             \/ row[e].state \in {"pending", "published"} /\ row'[e].state = "published"
    <2>1. CASE Commit(r)
        <3>1. row[e] \in Row
            BY DEF Ordered, Safe, Shape
        <3>2. row'[e] = IF e \in cycle[r].marks THEN [row[e] EXCEPT !.state = "published"]
                        ELSE IF e \in cycle[r].tried THEN [row[e] EXCEPT !.attempts = @ + 1]
                        ELSE row[e]
            BY <2>1 DEF Commit
        <3>3. e \in cycle[r].marks => row[e].state \in {"pending", "published"}
            BY DEF Ordered, Safe, CyclesAreWhole, OnlyCommittedMoves
        <3> QED BY <3>1, <3>2, <3>3 DEF Row
    <2>2. CASE UNCHANGED row
        BY <2>2
    <2> QED BY <2>1, <2>2 DEF Abandon, Crash, LoseSession
<1>5. Settled'
    BY <1>1, <1>3, <1>4 DEF Ordered, Settled, Precedes
<1> QED BY <1>2, <1>5

LEMMA OrderStep == Ordered /\ [Next]_vars => Ordered'
<1> SUFFICES ASSUME Ordered, [Next]_vars PROVE Settled' /\ StreamOrdered'
    BY SafeStep DEF Ordered
<1>1. ASSUME NEW e \in Events, Publish(e) \/ CommitProducer(e) \/ RollBackProducer(e)
      PROVE  Settled' /\ StreamOrdered'
    BY <1>1, ProducerOrder
<1>2. ASSUME NEW r \in Relays, NEW e \in Events, Delivered(r, e) \/ Refused(r, e)
      PROVE  Settled' /\ StreamOrdered'
    <2>1. PICK least \in {0, 1} : Lands(e, least)
        BY <1>2 DEF Delivered, Refused
    <2>2. IsNext(r, e) /\ UNCHANGED <<row, dead>>
        BY <1>2 DEF Delivered, Refused
    <2>3. PICK x \in CycleType : x = cycle[r]
        BY DEF Ordered, Safe, Shape
    <2>4. PICK y \in {Marked(x, e), Buried(x, e), Counted(x, e)} : cycle' = [cycle EXCEPT ![r] = y]
        BY <1>2, <2>3 DEF Delivered, Refused
    <2>5. y.claimed = cycle[r].claimed
        BY <2>3, <2>4, Dispositions
    <2>6. \A s \in Relays : cycle'[s].claimed = cycle[s].claimed
        BY <2>4, <2>5 DEF Ordered, Safe, Shape
    <2> QED BY <2>1, <2>2, <2>6, AttemptOrder
<1>3. ASSUME NEW r \in Relays, Claim(r) \/ Commit(r) \/ Abandon(r) \/ Crash(r) \/ LoseSession(r)
      PROVE  Settled' /\ StreamOrdered'
    BY <1>3, ClaimOrder, EndOrder
<1>4. CASE UNCHANGED vars
    <2>1. OnStream' = OnStream /\ UNCHANGED <<row, stream, dead, cycle>>
        BY <1>4 DEF vars, OnStream
    <2>2. Settled'
        BY <2>1 DEF Ordered, Settled
    <2>3. StreamOrdered'
        BY <2>1 DEF Ordered, StreamOrdered, Before
    <2> QED BY <2>2, <2>3
<1> QED BY <1>1, <1>2, <1>3, <1>4 DEF Next, Cycle

(* "Same aggregate, same event type: strict order", for an aggregate whose     *)
(* producers hold its lock, beside any number of others whose producers do not: *)
(* its events first reach the stream in the order of their ids (CLAIM_BATCH_SQL *)
(* and drainOnce in relay.ts).                                                  *)
THEOREM OrderIsKept == Spec => []InOrder
<1>1. Init => Ordered
    BY SafeInit, OrderInit DEF Ordered
<1>2. Ordered /\ [Next]_vars => Ordered'
    BY OrderStep
<1>3. Ordered => InOrder
    BY OrderedIsInOrder DEF Ordered
<1> QED BY <1>1, <1>2, <1>3, PTL DEF Spec
=============================================================================
