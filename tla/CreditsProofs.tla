--------------------------- MODULE CreditsProofs ---------------------------
(***************************************************************************)
(* Proofs about CreditHolds and CreditsTx, for every set of runs, keys,    *)
(* amounts and callers.                                                    *)
(*                                                                         *)
(* The hold protocol first.  Its inductive invariant is Safe.  It adds two *)
(* facts to the invariants the model checker looks at: a consumption row   *)
(* is a debit charged to a run (LedgerShape), and what is open plus what   *)
(* was charged is covered by what was credited (Covered).  Covered is      *)
(* NeverOverCommitted with the unreserved debits cancelled from both       *)
(* sides, and it is the form every step preserves: an authorization is     *)
(* checked against it, a consumption moves an amount from one side of the  *)
(* sum to the other, a closure only takes from it.  Everything else (Kept) *)
(* needs no comparison with the funds, so it is proved of RowsSpec.        *)
(*                                                                         *)
(* Then the transactions.  Their invariant, TxSafe, says what each open    *)
(* transaction has written in terms of the committed rows, and that no two *)
(* have the same row locked; so every Commit is a step of RowsNext, and    *)
(* what was proved of RowsSpec holds of the SQL.                           *)
(***************************************************************************)
EXTENDS CreditsTx, FiniteSetTheorems, SequenceTheorems, TLAPS

Charged(l) == Total({k \in Keys : l[k].type = "consumption"}, AmountIn(l))

LedgerShape ==
    \A k \in Keys :
        /\ ledger[k].type = "none" => ledger[k] = NoEntry
        /\ ledger[k].type = "consumption" =>
               ledger[k].direction = "debit" /\ ledger[k].run \in Runs

HoldShape ==
    \A r \in Runs :
        /\ holds[r].state = "none" => holds[r] = NoHold
        /\ holds[r].consumed <= holds[r].amount

Covered == Charged(ledger) + Held(holds) <= Credited(ledger)

Books == HoldShape /\ LedgerShape /\ ConsumedIsCharged

Kept == TypeOK /\ Books

Safe == Kept /\ Covered

-----------------------------------------------------------------------------
(***************************************************************************)
(* The algebra of AmountSums!Total: what a SUM over rows does when a row   *)
(* is added, removed or changed.  The invariants of the credit modules are *)
(* equations between such sums, and each step disturbs one row.            *)
(***************************************************************************)

(* Membership in Units, in the form the provers use it. *)
LEMMA UnitsMember ==
    ASSUME NEW S, NEW f, NEW u
    PROVE  u \in Units(S, f) <=> \E x \in S : u \in {x} \X (1..f[x])
BY DEF Units

(* Finitely many rows hold finitely many micro-credits. *)
LEMMA UnitsFinite ==
    ASSUME NEW S, IsFiniteSet(S), NEW f, \A x \in S : f[x] \in Nat
    PROVE  IsFiniteSet(Units(S, f))
<1> DEFINE UnitsOf == [x \in S |-> {x} \X (1..f[x])]
           Rows == {{x} \X (1..f[x]) : x \in S}
<1>1. UnitsOf \in Surjection(S, Rows)
    BY DEF Surjection
<1>2. IsFiniteSet(Rows)
    BY <1>1, FS_Surjection
<1>3. \A T \in Rows : IsFiniteSet(T)
    <2>1. SUFFICES ASSUME NEW x \in S
                   PROVE  IsFiniteSet({x} \X (1..f[x]))
        OBVIOUS
    <2>2. IsFiniteSet({x})
        BY FS_Singleton
    <2>3. IsFiniteSet(1..f[x])
        <3>1. 1 \in Int /\ f[x] \in Int
            OBVIOUS
        <3> QED BY <3>1, FS_Interval
    <2> QED BY <2>2, <2>3, FS_Product
<1> QED BY <1>2, <1>3, FS_UNION DEF Units

(* A sum of amounts is an amount. *)
LEMMA TotalType ==
    ASSUME NEW S, IsFiniteSet(S), NEW f, \A x \in S : f[x] \in Nat
    PROVE  Total(S, f) \in Nat
BY UnitsFinite, FS_CardinalityType DEF Total

(* SUM over no rows is zero. *)
LEMMA TotalEmpty ==
    ASSUME NEW f
    PROVE  Total({}, f) = 0
<1>1. Units({}, f) = {}
    BY DEF Units
<1> QED BY <1>1, FS_EmptySet DEF Total

(* The interval 1..n counts n. *)
LEMMA IntervalCount ==
    ASSUME NEW n \in Nat
    PROVE  IsFiniteSet(1..n) /\ Cardinality(1..n) = n
<1>1. 1 \in Int /\ n \in Int
    OBVIOUS
<1>2. IsFiniteSet(1..n)
    BY <1>1, FS_Interval
<1>3. CASE n = 0
    BY <1>1, <1>2, <1>3, FS_Interval
<1>4. CASE n > 0
    BY <1>1, <1>2, <1>4, FS_Interval
<1> QED BY <1>3, <1>4

(* SUM over one row is its amount. *)
LEMMA TotalSingle ==
    ASSUME NEW x, NEW f, f[x] \in Nat
    PROVE  Total({x}, f) = f[x]
<1>1. Units({x}, f) = {x} \X (1..f[x])
    BY DEF Units
<1>2. IsFiniteSet({x}) /\ Cardinality({x}) = 1
    BY FS_Singleton
<1>3. IsFiniteSet(1..f[x]) /\ Cardinality(1..f[x]) = f[x]
    BY IntervalCount
<1>4. Cardinality({x} \X (1..f[x])) = Cardinality({x}) * Cardinality(1..f[x])
    BY <1>2, <1>3, FS_Product, Zenon
<1>5. Cardinality({x} \X (1..f[x])) = 1 * f[x]
    BY <1>2, <1>3, <1>4, Zenon
<1>6. 1 * f[x] = f[x]
    OBVIOUS
<1> QED BY <1>1, <1>5, <1>6, Zenon DEF Total

(* A sum depends only on the rows it is taken over. *)
LEMMA TotalSame ==
    ASSUME NEW S, NEW f, NEW g, \A x \in S : f[x] = g[x]
    PROVE  Total(S, f) = Total(S, g)
<1>1. \A x \in S : {x} \X (1..f[x]) = {x} \X (1..g[x])
    OBVIOUS
<1>2. Units(S, f) = Units(S, g)
    BY <1>1 DEF Units
<1> QED BY <1>2 DEF Total

(* Rows split into two groups sum group by group. *)
LEMMA TotalSplit ==
    ASSUME NEW A, IsFiniteSet(A), NEW B, IsFiniteSet(B), A \cap B = {},
           NEW f, \A x \in A \cup B : f[x] \in Nat
    PROVE  Total(A \cup B, f) = Total(A, f) + Total(B, f)
<1>1. Units(A \cup B, f) = Units(A, f) \cup Units(B, f)
    BY DEF Units
<1>2. Units(A, f) \cap Units(B, f) = {}
    <2>1. SUFFICES ASSUME NEW u, u \in Units(A, f), u \in Units(B, f)
                   PROVE  FALSE
        OBVIOUS
    <2>2. PICK x \in A : u \in {x} \X (1..f[x])
        BY <2>1, UnitsMember
    <2>3. PICK y \in B : u \in {y} \X (1..f[y])
        BY <2>1, UnitsMember
    <2>4. u[1] = x /\ u[1] = y
        BY <2>2, <2>3
    <2> QED BY <2>4
<1>3. IsFiniteSet(Units(A, f)) /\ IsFiniteSet(Units(B, f))
    BY UnitsFinite
<1>4. /\ Cardinality(Units(A, f)) \in Nat
      /\ Cardinality(Units(B, f)) \in Nat
      /\ Cardinality({}) = 0
    BY <1>3, FS_CardinalityType, FS_EmptySet
<1>5. Cardinality(Units(A, f) \cup Units(B, f))
        = Cardinality(Units(A, f)) + Cardinality(Units(B, f))
            - Cardinality(Units(A, f) \cap Units(B, f))
    BY <1>3, FS_Union
<1>6. Total(A \cup B, f) = Total(A, f) + Total(B, f) - Cardinality({})
    BY <1>1, <1>2, <1>5, Zenon DEF Total
<1> QED BY <1>4, <1>6 DEF Total

(* An inserted row adds its amount. *)
LEMMA TotalAdd ==
    ASSUME NEW S, IsFiniteSet(S), NEW x, x \notin S,
           NEW f, \A y \in S \cup {x} : f[y] \in Nat
    PROVE  Total(S \cup {x}, f) = Total(S, f) + f[x]
<1>1. IsFiniteSet({x}) /\ S \cap {x} = {}
    BY FS_Singleton
<1>2. Total(S \cup {x}, f) = Total(S, f) + Total({x}, f)
    BY <1>1, TotalSplit
<1> QED BY <1>2, TotalSingle

(* A row that leaves the selection takes its amount with it. *)
LEMMA TotalRemove ==
    ASSUME NEW S, IsFiniteSet(S), NEW x \in S,
           NEW f, \A y \in S : f[y] \in Nat
    PROVE  Total(S, f) = Total(S \ {x}, f) + f[x]
<1>1. /\ IsFiniteSet(S \ {x})
      /\ x \notin S \ {x}
      /\ (S \ {x}) \cup {x} = S
    BY FS_RemoveElement
<1> QED BY <1>1, TotalAdd

(* Updating one row changes the sum by what the row changed. *)
LEMMA TotalUpdate ==
    ASSUME NEW S, IsFiniteSet(S), NEW x \in S,
           NEW f, \A y \in S : f[y] \in Nat,
           NEW g, \A y \in S : g[y] \in Nat,
           \A y \in S \ {x} : g[y] = f[y]
    PROVE  Total(S, g) = Total(S, f) - f[x] + g[x]
<1>1. Total(S, f) = Total(S \ {x}, f) + f[x]
    BY TotalRemove
<1>2. Total(S, g) = Total(S \ {x}, g) + g[x]
    BY TotalRemove
<1>3. Total(S \ {x}, g) = Total(S \ {x}, f)
    BY TotalSame
<1>4. Total(S \ {x}, f) \in Nat
    BY FS_RemoveElement, TotalType
<1> QED BY <1>1, <1>2, <1>3, <1>4

(* Fewer rows never sum to more. *)
LEMMA TotalMonotone ==
    ASSUME NEW T, IsFiniteSet(T), NEW S, S \subseteq T,
           NEW f, \A x \in T : f[x] \in Nat
    PROVE  Total(S, f) <= Total(T, f)
<1>1. /\ IsFiniteSet(S)
      /\ IsFiniteSet(T \ S)
      /\ S \cap (T \ S) = {}
      /\ S \cup (T \ S) = T
    BY FS_Subset, FS_Difference
<1>2. Total(T, f) = Total(S, f) + Total(T \ S, f)
    <2>1. Total(S \cup (T \ S), f) = Total(S, f) + Total(T \ S, f)
        BY <1>1, TotalSplit
    <2> QED BY <1>1, <2>1
<1>3. Total(S, f) \in Nat /\ Total(T \ S, f) \in Nat
    BY <1>1, TotalType
<1> QED BY <1>2, <1>3

-----------------------------------------------------------------------------
(* Type correctness. *)

LEMMA NoEntryType == NoEntry \in Entry
BY DEF NoEntry, Entry

LEMMA NewEntryType ==
    ASSUME NEW m \in Movements, NEW a \in Nat, NEW r \in Runs \cup {NoRun}
    PROVE  NewEntry(m[1], m[2], a, r) \in Entry
<1>1. m[1] \in {mv[1] : mv \in Movements} \cup {"none"}
    OBVIOUS
<1>2. m[2] \in {"credit", "debit", "none"}
    BY DEF Movements
<1> QED BY <1>1, <1>2 DEF NewEntry, Entry

LEMMA ConsumptionIsMovement == <<"consumption", "debit">> \in Movements
BY DEF Movements

LEMMA EventOfType ==
    \A s \in HoldStates \ {"none"} : EventOf[s] \in HoldEvents
BY DEF EventOf, HoldEvents, HoldStates, Closures

(* Closing holds keeps the shape of both the rows and the events. *)
LEMMA ClosedType ==
    ASSUME TypeOK, NEW R \in SUBSET Runs, NEW s \in Closures
    PROVE  /\ Closed(R, s) \in [Runs -> Hold]
           /\ Announced(R, s) \in [Runs -> Seq(HoldEvents)]
<1>1. s \in HoldStates \ {"none"}
    BY DEF HoldStates, Closures
<1>2. \A r \in Runs : [holds[r] EXCEPT !.state = s] \in Hold
    BY <1>1 DEF TypeOK, Hold
<1>3. \A r \in Runs : Append(outbox[r], EventOf[s]) \in Seq(HoldEvents)
    BY <1>1, EventOfType DEF TypeOK
<1> QED BY <1>2, <1>3 DEF TypeOK, Closed, Announced

(* The type invariant is inductive on its own. *)
LEMMA TypeStep == TypeOK /\ [RowsNext]_vars => TypeOK'
<1> SUFFICES ASSUME TypeOK, [RowsNext]_vars PROVE TypeOK'
    OBVIOUS
<1> USE AmountsAssumption
<1>1. ASSUME NEW r \in Runs, TtlElapses(r) PROVE TypeOK'
    BY <1>1 DEF TtlElapses, TypeOK
<1>2. ASSUME NEW k \in Keys, NEW m \in Movements, NEW a \in Amounts, AppendMovement(k, m, a)
      PROVE  TypeOK'
    <2>1. NewEntry(m[1], m[2], a, NoRun) \in Entry
        BY NewEntryType
    <2> QED BY <1>2, <2>1 DEF AppendMovement, TypeOK
<1>3. ASSUME NEW r \in Runs, NEW a \in Amounts, NEW E \in SUBSET Runs, InsertHeld(r, a, E)
      PROVE  TypeOK'
    <2>1. /\ Closed(E, "expired") \in [Runs -> Hold]
          /\ Announced(E, "expired") \in [Runs -> Seq(HoldEvents)]
        BY ClosedType DEF Closures
    <2>2. [state |-> "held", amount |-> a, consumed |-> 0] \in Hold
        BY DEF Hold, HoldStates
    <2>3. EventOf["held"] \in HoldEvents
        BY EventOfType DEF HoldStates
    <2>4. Append(Announced(E, "expired")[r], EventOf["held"]) \in Seq(HoldEvents)
        BY <2>1, <2>3
    <2>5. holds' \in [Runs -> Hold]
        BY <1>3, <2>1, <2>2 DEF InsertHeld
    <2>6. outbox' \in [Runs -> Seq(HoldEvents)]
        BY <1>3, <2>1, <2>4 DEF InsertHeld
    <2> QED BY <1>3, <2>5, <2>6 DEF InsertHeld, TypeOK
<1>4. ASSUME NEW r \in Runs, NEW k \in Keys, NEW a \in Amounts, RecordConsumption(r, k, a)
      PROVE  TypeOK'
    <2>1. NewEntry("consumption", "debit", a, r) \in Entry
        <3> DEFINE m == <<"consumption", "debit">>
        <3>1. NewEntry(m[1], m[2], a, r) \in Entry
            BY ConsumptionIsMovement, NewEntryType
        <3> QED BY <3>1
    <2>2. [holds[r] EXCEPT !.consumed = @ + a] \in Hold
        <3>1. holds[r] \in Hold /\ a \in Nat
            BY DEF TypeOK
        <3>2. holds[r].consumed + a \in Nat
            BY <3>1 DEF Hold
        <3> QED BY <3>1, <3>2 DEF Hold
    <2>3. holds' \in [Runs -> Hold]
        BY <1>4, <2>2 DEF RecordConsumption, TypeOK
    <2> QED BY <1>4, <2>1, <2>3 DEF RecordConsumption, TypeOK
<1>5. ASSUME NEW r \in Runs, NEW s \in Closures, CloseHold(r, s) PROVE TypeOK'
    <2>1. {r} \in SUBSET Runs
        OBVIOUS
    <2> QED BY <1>5, <2>1, ClosedType DEF CloseHold, TypeOK
<1>6. ASSUME NEW E \in SUBSET Runs, ExpireStaleHolds(E) PROVE TypeOK'
    <2>1. "expired" \in Closures
        BY DEF Closures
    <2> QED BY <1>6, <2>1, ClosedType DEF ExpireStaleHolds, TypeOK
<1>7. ASSUME NEW R \in SUBSET Runs, NEW W \in Suspensions, ReleaseOpenHolds(R, W)
      PROVE  TypeOK'
    <2>1. "released" \in Closures
        BY DEF Closures
    <2> QED BY <1>7, <2>1, ClosedType DEF ReleaseOpenHolds, TypeOK
<1>8. CASE UNCHANGED vars
    BY <1>8 DEF vars, TypeOK
<1> QED BY <1>1, <1>2, <1>3, <1>4, <1>5, <1>6, <1>7, <1>8 DEF RowsNext, Next, AuthorizeSpend

LEMMA TypeInit == Init => TypeOK
<1> SUFFICES ASSUME Init PROVE TypeOK
    OBVIOUS
<1>1. NoHold \in Hold
    BY DEF NoHold, Hold, HoldStates
<1>2. <<>> \in Seq(HoldEvents)
    OBVIOUS
<1> QED BY <1>1, <1>2, OpeningAssumption DEF Init, TypeOK

LEMMA RowsTyped == RowsSpec => []TypeOK
BY TypeInit, TypeStep, PTL DEF RowsSpec

(* The hold protocol is the protocol of its rows, with the funds compared. *)
LEMMA SpecIsRowsSpec == Spec => RowsSpec
<1>1. [Next]_vars => [RowsNext]_vars
    BY DEF RowsNext
<1> QED BY <1>1, PTL DEF Spec, RowsSpec

(***************************************************************************)
(* In every reachable state every row has the shape its table gives it.    *)
(***************************************************************************)
THEOREM TypeCorrect == Spec => []TypeOK
BY SpecIsRowsSpec, RowsTyped, PTL

-----------------------------------------------------------------------------
(* What one call does to the sums. *)

LEMMA AmountInNat ==
    ASSUME NEW l \in [Keys -> Entry]
    PROVE  \A k \in Keys : AmountIn(l)[k] \in Nat
BY DEF AmountIn, Entry

LEMMA RemainingNat ==
    ASSUME NEW hs \in [Runs -> Hold], \A r \in Runs : hs[r].consumed <= hs[r].amount
    PROVE  \A r \in Runs : Remaining(hs)[r] \in Nat
BY DEF Remaining, Hold

(* Any selection of ledger rows is finite, and so are the open holds. *)
LEMMA SelectionsFinite ==
    /\ \A S \in SUBSET Keys : IsFiniteSet(S)
    /\ \A R \in SUBSET Runs : IsFiniteSet(R)
BY KeysAssumption, RunsAssumption, FS_Subset

(* Every ledger figure is an amount. *)
LEMMA SumsType ==
    ASSUME NEW l \in [Keys -> Entry]
    PROVE  /\ Charged(l) \in Nat
           /\ Credited(l) \in Nat
           /\ Debited(l) \in Nat
           /\ UnreservedDebits(l) \in Nat
           /\ \A r \in Runs : Total(ChargesOf(r, l), AmountIn(l)) \in Nat
<1>1. ASSUME NEW S \in SUBSET Keys PROVE Total(S, AmountIn(l)) \in Nat
    BY SelectionsFinite, AmountInNat, TotalType
<1> QED BY <1>1 DEF Charged, Credited, Debited, UnreservedDebits, ChargesOf

(* Inserting a row leaves every sum that does not select it alone, and     *)
(* adds its amount to every sum that does.                                 *)
LEMMA RowInserted ==
    ASSUME ledger \in [Keys -> Entry], NEW k \in Keys, NEW e \in Entry,
           ledger' = [ledger EXCEPT ![k] = e],
           NEW S \in SUBSET Keys, k \notin S
    PROVE  /\ Total(S, AmountIn(ledger')) = Total(S, AmountIn(ledger))
           /\ Total(S \cup {k}, AmountIn(ledger')) = Total(S, AmountIn(ledger)) + e.amount
<1>1. ledger' \in [Keys -> Entry]
    OBVIOUS
<1>2. \A x \in Keys : AmountIn(ledger')[x] \in Nat
    BY <1>1, AmountInNat
<1>3. IsFiniteSet(S)
    BY SelectionsFinite
<1>4. \A x \in S : AmountIn(ledger')[x] = AmountIn(ledger)[x]
    BY DEF AmountIn
<1>5. Total(S, AmountIn(ledger')) = Total(S, AmountIn(ledger))
    BY <1>4, TotalSame
<1>6. AmountIn(ledger')[k] = e.amount
    BY DEF AmountIn
<1>7. \A x \in S \cup {k} : AmountIn(ledger')[x] \in Nat
    BY <1>2
<1>8. Total(S \cup {k}, AmountIn(ledger'))
        = Total(S, AmountIn(ledger')) + AmountIn(ledger')[k]
    BY <1>3, <1>7, TotalAdd
<1> QED BY <1>5, <1>6, <1>8

(* Closing holds can only free what they reserved. *)
LEMMA ClosingFrees ==
    ASSUME TypeOK, HoldShape, NEW R \in SUBSET Runs, NEW s \in Closures
    PROVE  /\ Held(Closed(R, s)) <= Held(holds)
           /\ Held(Closed(R, s)) \in Nat
           /\ Held(holds) \in Nat
           /\ OpenIn(Closed(R, s)) = OpenIn(holds) \ R
<1> DEFINE hs == Closed(R, s)
<1>1. hs \in [Runs -> Hold]
    BY ClosedType
<1>2. OpenIn(hs) = OpenIn(holds) \ R
    BY DEF OpenIn, Closed, Closures, TypeOK, Hold
<1>3. \A r \in OpenIn(hs) : Remaining(hs)[r] = Remaining(holds)[r]
    BY DEF OpenIn, Remaining, Closed, Closures, TypeOK, Hold
<1>4. Held(hs) = Total(OpenIn(hs), Remaining(holds))
    <2> HIDE DEF hs
    <2> QED BY <1>3, TotalSame DEF Held
<1>5. \A r \in Runs : Remaining(holds)[r] \in Nat
    BY RemainingNat DEF TypeOK, HoldShape
<1>6. /\ IsFiniteSet(OpenIn(holds))
      /\ OpenIn(hs) \subseteq OpenIn(holds)
      /\ OpenIn(holds) \subseteq Runs
    BY <1>2, SelectionsFinite DEF OpenIn
<1>7. Total(OpenIn(hs), Remaining(holds)) <= Total(OpenIn(holds), Remaining(holds))
    <2> HIDE DEF hs
    <2> QED BY <1>5, <1>6, TotalMonotone
<1>8. /\ Total(OpenIn(hs), Remaining(holds)) \in Nat
      /\ Total(OpenIn(holds), Remaining(holds)) \in Nat
    <2>1. IsFiniteSet(OpenIn(hs))
        BY <1>6, SelectionsFinite
    <2> HIDE DEF hs
    <2> QED BY <1>5, <1>6, <2>1, TotalType
<1> QED BY <1>2, <1>4, <1>7, <1>8 DEF Held

-----------------------------------------------------------------------------
(* Each action preserves Kept, and Covered on top of it; only an           *)
(* authorization needs its funds for the latter.  TypeOK' is TypeStep.     *)

LEMMA MovementSafe ==
    ASSUME Kept, TypeOK',
           NEW k \in Keys, NEW m \in Movements, NEW a \in Amounts, AppendMovement(k, m, a)
    PROVE  Books' /\ (Covered => Covered')
<1> USE DEF AppendMovement, Kept, Books
<1> DEFINE e == NewEntry(m[1], m[2], a, NoRun)
<1>1. /\ e \in Entry
      /\ e.amount = a
      /\ a \in Nat
      /\ e.type # "consumption" /\ e.type # "none"
      /\ e.direction = m[2]
    BY NewEntryType, AmountsAssumption DEF NewEntry, Movements
<1>2. /\ ledger \in [Keys -> Entry]
      /\ ledger' = [ledger EXCEPT ![k] = e]
      /\ ledger[k].type = "none" /\ ledger[k].direction = "none"
    BY DEF TypeOK, NoEntry
<1> HIDE DEF e
<1>3. HoldShape'
    BY DEF HoldShape
<1>4. LedgerShape'
    BY <1>1, <1>2 DEF LedgerShape
<1>5. ConsumedIsCharged'
    <2> SUFFICES ASSUME NEW r \in Runs
                 PROVE  Total(ChargesOf(r, ledger'), AmountIn(ledger'))
                          = Total(ChargesOf(r, ledger), AmountIn(ledger))
        BY DEF ConsumedIsCharged
    <2>1. ChargesOf(r, ledger') = ChargesOf(r, ledger)
        BY <1>1, <1>2 DEF ChargesOf
    <2>2. k \notin ChargesOf(r, ledger) /\ ChargesOf(r, ledger) \in SUBSET Keys
        BY <1>2 DEF ChargesOf
    <2>3. Total(ChargesOf(r, ledger), AmountIn(ledger'))
            = Total(ChargesOf(r, ledger), AmountIn(ledger))
        BY <1>1, <1>2, <2>2, RowInserted, Zenon
    <2> QED BY <2>1, <2>3, Zenon
<1>6. Covered => Covered'
    <2> SUFFICES ASSUME Covered PROVE Covered'
        OBVIOUS
    <2> DEFINE C == {x \in Keys : ledger[x].type = "consumption"}
               D == {x \in Keys : ledger[x].direction = "credit"}
    <2>1. {x \in Keys : ledger'[x].type = "consumption"} = C /\ k \notin C
        BY <1>1, <1>2
    <2>2. Total(C, AmountIn(ledger')) = Total(C, AmountIn(ledger))
        <3>1. C \in SUBSET Keys
            OBVIOUS
        <3> HIDE DEF C
        <3> QED BY <1>1, <1>2, <2>1, <3>1, RowInserted, ZenonT(60)
    <2>3. Charged(ledger') = Charged(ledger)
        BY <2>1, <2>2, Zenon DEF Charged
    <2>4. k \notin D /\ D \in SUBSET Keys
        BY <1>2
    <2>5. /\ Total(D, AmountIn(ledger')) = Total(D, AmountIn(ledger))
          /\ Total(D \cup {k}, AmountIn(ledger')) = Total(D, AmountIn(ledger)) + a
        <3> HIDE DEF D
        <3>1. Total(D \cup {k}, AmountIn(ledger')) = Total(D, AmountIn(ledger)) + e.amount
            BY <1>1, <1>2, <2>4, RowInserted, ZenonT(60)
        <3> QED BY <1>1, <1>2, <2>4, <3>1, RowInserted, Zenon
    <2>6. Total(D, AmountIn(ledger)) \in Nat
        BY <1>2, <2>4, SelectionsFinite, AmountInNat, TotalType
    <2>7. Credited(ledger) = Total(D, AmountIn(ledger))
        BY DEF Credited
    <2>8. \/ Credited(ledger') = Total(D, AmountIn(ledger'))
          \/ Credited(ledger') = Total(D \cup {k}, AmountIn(ledger'))
        <3>1. \/ {x \in Keys : ledger'[x].direction = "credit"} = D
              \/ {x \in Keys : ledger'[x].direction = "credit"} = D \cup {k}
            BY <1>1, <1>2
        <3> QED BY <3>1, Zenon DEF Credited
    <2>9. Credited(ledger') >= Credited(ledger)
        <3> HIDE DEF D
        <3> QED BY <1>1, <2>5, <2>6, <2>7, <2>8
    <2>10. Credited(ledger) \in Nat /\ Credited(ledger') \in Nat
        BY SumsType DEF TypeOK
    <2>11. Held(holds') = Held(holds)
        OBVIOUS
    <2>12. Held(holds) \in Nat /\ Charged(ledger) \in Nat
        <3>1. "expired" \in Closures /\ {} \in SUBSET Runs
            BY DEF Closures
        <3>2. Held(holds) \in Nat
            BY <3>1, ClosingFrees
        <3> QED BY <1>2, <3>2, SumsType
    <2>13. Charged(ledger) + Held(holds) <= Credited(ledger)
        BY DEF Covered
    <2>14. Charged(ledger') + Held(holds') <= Credited(ledger')
        <3> HIDE DEF C, D
        <3> QED BY <2>3, <2>9, <2>10, <2>11, <2>12, <2>13
    <2> QED BY <2>14 DEF Covered
<1> QED BY <1>3, <1>4, <1>5, <1>6 DEF Books

(* A closure, whoever decides it: settle, release, expiry or suspension. *)
LEMMA ClosureSafe ==
    ASSUME Kept, TypeOK', NEW R \in SUBSET Runs, NEW s \in Closures, R \subseteq Open,
           holds' = Closed(R, s), ledger' = ledger
    PROVE  Books' /\ (Covered => Covered')
<1> USE DEF Kept, Books
<1>1. \A r \in Runs :
          /\ holds'[r].consumed = holds[r].consumed
          /\ holds'[r].amount = holds[r].amount
          /\ holds'[r].state = "none" => holds'[r] = holds[r]
    BY DEF Closed, Closures, TypeOK, Hold
<1>2. HoldShape'
    <2> SUFFICES ASSUME NEW r \in Runs
                 PROVE  /\ holds'[r].state = "none" => holds'[r] = NoHold
                        /\ holds'[r].consumed <= holds'[r].amount
        BY DEF HoldShape
    <2>1. /\ holds[r].state = "none" => holds[r] = NoHold
          /\ holds[r].consumed <= holds[r].amount
        BY DEF HoldShape
    <2> QED BY <1>1, <2>1
<1>3. LedgerShape'
    BY DEF LedgerShape
<1>4. ConsumedIsCharged'
    <2> SUFFICES ASSUME NEW r \in Runs
                 PROVE  /\ holds'[r].consumed = Total(ChargesOf(r, ledger'), AmountIn(ledger'))
                        /\ holds'[r].consumed <= holds'[r].amount
        BY DEF ConsumedIsCharged
    <2>1. /\ holds[r].consumed = Total(ChargesOf(r, ledger), AmountIn(ledger))
          /\ holds[r].consumed <= holds[r].amount
        BY DEF ConsumedIsCharged
    <2>2. holds'[r].consumed = holds[r].consumed /\ holds'[r].amount = holds[r].amount
        BY <1>1, Zenon
    <2> QED BY <2>1, <2>2, Zenon
<1>5. Covered => Covered'
    <2> SUFFICES ASSUME Covered PROVE Covered'
        OBVIOUS
    <2>1. /\ Held(holds') <= Held(holds)
          /\ Held(holds') \in Nat /\ Held(holds) \in Nat
        BY ClosingFrees
    <2>2. Charged(ledger) + Held(holds) <= Credited(ledger)
        BY DEF Covered
    <2>3. Charged(ledger) \in Nat /\ Credited(ledger) \in Nat
        BY SumsType DEF TypeOK
    <2>4. Charged(ledger') = Charged(ledger) /\ Credited(ledger') = Credited(ledger)
        OBVIOUS
    <2> QED BY <2>1, <2>2, <2>3, <2>4 DEF Covered
<1> QED BY <1>2, <1>3, <1>4, <1>5 DEF Books

(* Every charge is a debit. *)
LEMMA ChargedIsDebited ==
    ASSUME TypeOK, LedgerShape
    PROVE  Charged(ledger) <= Debited(ledger)
<1> DEFINE C == {k \in Keys : ledger[k].type = "consumption"}
           D == {k \in Keys : ledger[k].direction = "debit"}
<1>1. C \subseteq D /\ D \in SUBSET Keys
    BY DEF LedgerShape
<1>2. IsFiniteSet(D) /\ \A k \in D : AmountIn(ledger)[k] \in Nat
    BY SelectionsFinite, AmountInNat DEF TypeOK
<1>3. Total(C, AmountIn(ledger)) <= Total(D, AmountIn(ledger))
    <2> HIDE DEF C, D
    <2> QED BY <1>1, <1>2, TotalMonotone
<1> QED BY <1>3 DEF Charged, Debited

(* Opening a hold reserves exactly what it asks for. *)
LEMMA AuthorizeSafe ==
    ASSUME Kept, TypeOK',
           NEW r \in Runs, NEW a \in Amounts, NEW E \in SUBSET Runs, InsertHeld(r, a, E)
    PROVE  Books' /\ (Covered /\ AuthorizeSpend(r, a, E) => Covered')
<1> USE DEF InsertHeld, Kept, Books
<1> DEFINE hs == Closed(E, "expired")
           new == [state |-> "held", amount |-> a, consumed |-> 0]
<1>1. /\ a \in Nat
      /\ r \notin E
      /\ hs[r] = NoHold
      /\ holds' = [hs EXCEPT ![r] = new]
    BY AmountsAssumption DEF Closed, Open, OpenIn, NoHold
<1>2. hs \in [Runs -> Hold]
    BY ClosedType DEF Closures
<1>3. \A x \in Runs \ {r} : holds'[x] = hs[x]
    BY <1>1, <1>2
<1>4. holds'[r] = new
    BY <1>1, <1>2
<1>5. \A x \in Runs :
          /\ hs[x].consumed = holds[x].consumed
          /\ hs[x].amount = holds[x].amount
          /\ hs[x].state = "none" => hs[x] = holds[x]
    BY DEF Closed, TypeOK, Hold
<1>6. /\ Held(hs) <= Held(holds)
      /\ Held(hs) \in Nat
    BY ClosingFrees DEF Closures
<1>7. AuthorizeSpend(r, a, E) => a <= Available(hs, ledger)
    BY DEF AuthorizeSpend
<1> HIDE DEF hs
<1>8. HoldShape'
    <2> SUFFICES ASSUME NEW x \in Runs
                 PROVE  /\ holds'[x].state = "none" => holds'[x] = NoHold
                        /\ holds'[x].consumed <= holds'[x].amount
        BY DEF HoldShape
    <2>1. /\ holds[x].state = "none" => holds[x] = NoHold
          /\ holds[x].consumed <= holds[x].amount
        BY DEF HoldShape
    <2>2. CASE x = r
        BY <1>1, <1>4, <2>2
    <2>3. CASE x # r
        BY <1>3, <1>5, <2>1, <2>3
    <2> QED BY <2>2, <2>3
<1>9. LedgerShape'
    BY DEF LedgerShape
<1>10. ConsumedIsCharged'
    <2> SUFFICES ASSUME NEW x \in Runs
                 PROVE  /\ holds'[x].consumed = Total(ChargesOf(x, ledger'), AmountIn(ledger'))
                        /\ holds'[x].consumed <= holds'[x].amount
        BY DEF ConsumedIsCharged
    <2>1. /\ holds[x].consumed = Total(ChargesOf(x, ledger), AmountIn(ledger))
          /\ holds'[x].consumed <= holds'[x].amount
        BY <1>8 DEF ConsumedIsCharged, HoldShape
    <2>2. holds'[x].consumed = holds[x].consumed
        <3>1. CASE x = r
            BY <1>4, <3>1 DEF NoHold
        <3>2. CASE x # r
            BY <1>3, <1>5, <3>2
        <3> QED BY <3>1, <3>2
    <2> QED BY <2>1, <2>2, Zenon
<1>11. Held(holds') = Held(hs) + a
    <2> DEFINE O == OpenIn(hs)
    <2>1. OpenIn(holds') = O \cup {r} /\ r \notin O /\ O \in SUBSET Runs
        BY <1>1, <1>3, <1>4 DEF OpenIn, NoHold
    <2>2. \A x \in Runs : hs[x].consumed <= hs[x].amount
        BY <1>5 DEF HoldShape
    <2>3. \A x \in O : Remaining(holds')[x] = Remaining(hs)[x]
        BY <1>3, <2>1 DEF Remaining
    <2>4. Remaining(holds')[r] = a
        BY <1>1, <1>4 DEF Remaining
    <2>5. \A x \in Runs : Remaining(hs)[x] \in Nat
        BY <1>2, <2>2, RemainingNat
    <2> HIDE DEF O
    <2>6. \A x \in O \cup {r} : Remaining(holds')[x] \in Nat
        BY <1>1, <2>1, <2>3, <2>4, <2>5
    <2>7. IsFiniteSet(O)
        BY <2>1, SelectionsFinite
    <2>8. Total(O \cup {r}, Remaining(holds')) = Total(O, Remaining(holds')) + Remaining(holds')[r]
        BY <2>1, <2>6, <2>7, TotalAdd
    <2>9. Total(O, Remaining(holds')) = Total(O, Remaining(hs))
        BY <2>3, TotalSame
    <2>10. Held(holds') = Total(O \cup {r}, Remaining(holds'))
        BY <2>1, Zenon DEF Held
    <2>11. Held(hs) = Total(O, Remaining(hs))
        BY DEF Held, O
    <2> QED BY <2>4, <2>8, <2>9, <2>10, <2>11
<1>12. Covered /\ AuthorizeSpend(r, a, E) => Covered'
    <2> SUFFICES ASSUME Covered, AuthorizeSpend(r, a, E) PROVE Covered'
        OBVIOUS
    <2>1. /\ Charged(ledger) \in Nat /\ Credited(ledger) \in Nat /\ Debited(ledger) \in Nat
          /\ Charged(ledger) <= Debited(ledger)
        BY SumsType, ChargedIsDebited DEF TypeOK
    <2>2. a <= Credited(ledger) - Debited(ledger) - Held(hs)
        BY <1>7 DEF Available, Balance
    <2>3. Charged(ledger) + Held(holds') <= Credited(ledger)
        BY <1>1, <1>6, <1>11, <2>1, <2>2
    <2>4. ledger' = ledger
        OBVIOUS
    <2> QED BY <2>3, <2>4 DEF Covered
<1> QED BY <1>8, <1>9, <1>10, <1>12 DEF Books

(* A consumption turns part of a reservation into a charge of the same size. *)
LEMMA ConsumptionSafe ==
    ASSUME Kept, TypeOK',
           NEW r \in Runs, NEW k \in Keys, NEW a \in Amounts, RecordConsumption(r, k, a)
    PROVE  Books' /\ (Covered => Covered')
<1> USE DEF RecordConsumption, Kept, Books
<1> DEFINE e == NewEntry("consumption", "debit", a, r)
<1>1. /\ e.amount = a
      /\ a \in Nat
      /\ e.type = "consumption"
      /\ e.direction = "debit"
      /\ e.run = r
    BY AmountsAssumption DEF NewEntry
<1>2. /\ ledger \in [Keys -> Entry]
      /\ ledger' = [ledger EXCEPT ![k] = e]
      /\ ledger[k].type = "none" /\ ledger[k].direction = "none"
    BY DEF TypeOK, NoEntry
<1>3. ledger'[k] = e /\ ledger'[k] \in Entry
    BY <1>2 DEF TypeOK
<1>4. e \in Entry
    BY <1>3, Zenon
<1>5. /\ \A x \in Runs : /\ holds'[x].state = holds[x].state
                         /\ holds'[x].amount = holds[x].amount
      /\ holds'[r].consumed = holds[r].consumed + a
      /\ \A x \in Runs \ {r} : holds'[x] = holds[x]
    BY DEF TypeOK, Hold
<1>6. \A x \in Runs : holds[x].amount \in Nat /\ holds[x].consumed \in Nat
    BY DEF TypeOK, Hold
<1>7. a <= holds[r].amount - holds[r].consumed
    BY DEF Remaining
<1>8. \A x \in Runs : holds[x].consumed <= holds[x].amount
    BY DEF HoldShape
<1> HIDE DEF e
<1>9. HoldShape'
    <2> SUFFICES ASSUME NEW x \in Runs
                 PROVE  /\ holds'[x].state = "none" => holds'[x] = NoHold
                        /\ holds'[x].consumed <= holds'[x].amount
        BY DEF HoldShape
    <2>1. CASE x = r
        BY <1>1, <1>5, <1>6, <1>7, <2>1
    <2>2. CASE x # r
        BY <1>5, <2>2 DEF HoldShape
    <2> QED BY <2>1, <2>2
<1>10. LedgerShape'
    BY <1>1, <1>2 DEF LedgerShape
<1>11. ConsumedIsCharged'
    <2> SUFFICES ASSUME NEW x \in Runs
                 PROVE  holds'[x].consumed = Total(ChargesOf(x, ledger'), AmountIn(ledger'))
        BY <1>9 DEF ConsumedIsCharged, HoldShape
    <2> DEFINE C == ChargesOf(x, ledger)
    <2>1. C \in SUBSET Keys /\ k \notin C
        BY <1>2 DEF ChargesOf
    <2>2. holds[x].consumed = Total(C, AmountIn(ledger))
        BY DEF ConsumedIsCharged
    <2>3. CASE x = r
        <3>1. ChargesOf(r, ledger') = C \cup {k}
            BY <1>1, <1>2, <2>3 DEF ChargesOf
        <3> HIDE DEF C
        <3>2. Total(C \cup {k}, AmountIn(ledger')) = Total(C, AmountIn(ledger)) + e.amount
            BY <1>2, <1>4, <2>1, RowInserted, ZenonT(60)
        <3>3. holds'[r].consumed = Total(C \cup {k}, AmountIn(ledger'))
            BY <1>1, <1>5, <2>2, <2>3, <3>2
        <3> QED BY <2>3, <3>1, <3>3, Zenon
    <2>4. CASE x # r
        <3>1. ChargesOf(x, ledger') = C
            BY <1>1, <1>2, <2>4 DEF ChargesOf
        <3> HIDE DEF C
        <3>2. Total(C, AmountIn(ledger')) = Total(C, AmountIn(ledger))
            BY <1>2, <1>4, <2>1, RowInserted, Zenon
        <3>3. holds'[x].consumed = holds[x].consumed
            BY <1>5, <2>4
        <3> QED BY <2>2, <3>1, <3>2, <3>3, Zenon
    <2> QED BY <2>3, <2>4
<1>12. Charged(ledger') = Charged(ledger) + a
    <2> DEFINE C == {x \in Keys : ledger[x].type = "consumption"}
    <2>1. C \in SUBSET Keys /\ k \notin C
        BY <1>2
    <2>2. {x \in Keys : ledger'[x].type = "consumption"} = C \cup {k}
        BY <1>1, <1>2
    <2> HIDE DEF C
    <2>3. Total(C \cup {k}, AmountIn(ledger')) = Total(C, AmountIn(ledger)) + e.amount
        BY <1>2, <1>4, <2>1, RowInserted, ZenonT(60)
    <2>4. Charged(ledger') = Total(C \cup {k}, AmountIn(ledger'))
        BY <2>2, Zenon DEF Charged
    <2>5. Charged(ledger) = Total(C, AmountIn(ledger))
        BY DEF Charged, C
    <2> QED BY <1>1, <2>3, <2>4, <2>5
<1>13. Credited(ledger') = Credited(ledger)
    <2> DEFINE D == {x \in Keys : ledger[x].direction = "credit"}
    <2>1. D \in SUBSET Keys /\ k \notin D
        BY <1>2
    <2>2. {x \in Keys : ledger'[x].direction = "credit"} = D
        BY <1>1, <1>2
    <2> HIDE DEF D
    <2>3. Total(D, AmountIn(ledger')) = Total(D, AmountIn(ledger))
        BY <1>2, <1>4, <2>1, RowInserted, Zenon
    <2>4. Credited(ledger') = Total(D, AmountIn(ledger'))
        BY <2>2, Zenon DEF Credited
    <2>5. Credited(ledger) = Total(D, AmountIn(ledger))
        BY DEF Credited, D
    <2> QED BY <2>3, <2>4, <2>5, Zenon
<1>14. Held(holds') = Held(holds) - a
    <2> DEFINE O == OpenIn(holds)
    <2>1. OpenIn(holds') = O /\ r \in O /\ O \in SUBSET Runs
        BY <1>5 DEF OpenIn
    <2>2. /\ \A x \in O \ {r} : Remaining(holds')[x] = Remaining(holds)[x]
          /\ Remaining(holds')[r] = Remaining(holds)[r] - a
        BY <1>1, <1>5, <1>6, <2>1 DEF Remaining
    <2>3. \A x \in Runs : Remaining(holds)[x] \in Nat /\ Remaining(holds')[x] \in Nat
        <3>1. \A x \in Runs : holds'[x].consumed <= holds'[x].amount
            BY <1>9 DEF HoldShape
        <3> QED BY <1>8, <3>1 DEF TypeOK, Hold, Remaining
    <2> HIDE DEF O
    <2>4. IsFiniteSet(O)
        BY <2>1, SelectionsFinite
    <2>5. Total(O, Remaining(holds'))
            = Total(O, Remaining(holds)) - Remaining(holds)[r] + Remaining(holds')[r]
        <3>1. \A x \in O : Remaining(holds)[x] \in Nat
            BY <2>1, <2>3
        <3>2. \A x \in O : Remaining(holds')[x] \in Nat
            BY <2>1, <2>3
        <3>3. r \in O
            BY <2>1
        <3>4. \A x \in O \ {r} : Remaining(holds')[x] = Remaining(holds)[x]
            BY <2>2
        <3> QED BY ONLY <2>4, <3>1, <3>2, <3>3, <3>4, TotalUpdate
    <2>6. Total(O, Remaining(holds)) \in Nat
        BY <2>1, <2>3, <2>4, TotalType
    <2>7. Held(holds') = Total(O, Remaining(holds'))
        BY <2>1, Zenon DEF Held
    <2>8. Held(holds) = Total(O, Remaining(holds))
        BY DEF Held, O
    <2>9. Remaining(holds)[r] \in Nat
        BY <2>3
    <2> QED BY <1>1, <2>2, <2>5, <2>6, <2>7, <2>8, <2>9
<1>15. Covered => Covered'
    <2> SUFFICES ASSUME Covered PROVE Covered'
        OBVIOUS
    <2>1. Charged(ledger) \in Nat /\ Credited(ledger) \in Nat /\ Held(holds) \in Nat
        <3>1. "expired" \in Closures /\ {} \in SUBSET Runs
            BY DEF Closures
        <3> QED BY <3>1, ClosingFrees, SumsType DEF TypeOK
    <2>2. Charged(ledger) + Held(holds) <= Credited(ledger)
        BY DEF Covered
    <2>3. Charged(ledger') + Held(holds') <= Credited(ledger')
        BY <1>1, <1>12, <1>13, <1>14, <2>1, <2>2
    <2> QED BY <2>3 DEF Covered
<1> QED BY <1>9, <1>10, <1>11, <1>15 DEF Books

-----------------------------------------------------------------------------
(* Safe holds initially and every step preserves it. *)

LEMMA SafeInit == Init => Safe
<1> SUFFICES ASSUME Init PROVE Safe
    OBVIOUS
<1> USE DEF Init
<1>1. TypeOK
    BY TypeInit
<1>2. HoldShape
    BY DEF HoldShape, NoHold
<1>3. LedgerShape
    BY OpeningAssumption DEF LedgerShape, NoEntry
<1>4. ConsumedIsCharged
    <2> SUFFICES ASSUME NEW r \in Runs
                 PROVE  holds[r].consumed = Total(ChargesOf(r, ledger), AmountIn(ledger))
        BY <1>2 DEF ConsumedIsCharged, HoldShape
    <2>1. ChargesOf(r, ledger) = {}
        BY OpeningAssumption DEF ChargesOf, NoEntry
    <2>2. Total(ChargesOf(r, ledger), AmountIn(ledger)) = 0
        BY <2>1, TotalEmpty, Zenon
    <2>3. holds[r].consumed = 0
        BY DEF NoHold
    <2> QED BY <2>2, <2>3
<1>5. Covered
    <2>1. {k \in Keys : ledger[k].type = "consumption"} = {}
        BY OpeningAssumption DEF NoEntry
    <2>2. OpenIn(holds) = {}
        BY DEF OpenIn, NoHold
    <2>3. Charged(ledger) = 0
        BY <2>1, TotalEmpty, Zenon DEF Charged
    <2>4. Held(holds) = 0
        BY <2>2, TotalEmpty, Zenon DEF Held
    <2>5. Credited(ledger) \in Nat
        BY <1>1, SumsType DEF TypeOK
    <2> QED BY <2>3, <2>4, <2>5 DEF Covered
<1> QED BY <1>1, <1>2, <1>3, <1>4, <1>5 DEF Safe, Kept, Books

LEMMA KeptStep ==
    ASSUME Kept, [RowsNext]_vars
    PROVE  Kept' /\ (Safe /\ [Next]_vars => Covered')
<1>0. TypeOK'
    BY TypeStep DEF Kept
<1> SUFFICES Books' /\ (Covered /\ [Next]_vars => Covered')
    BY <1>0 DEF Safe, Kept
<1>1. ASSUME NEW r \in Runs, TtlElapses(r) PROVE Books' /\ (Covered => Covered')
    BY <1>1 DEF TtlElapses, Kept, Books, HoldShape, LedgerShape, ConsumedIsCharged, Covered
<1>2. ASSUME NEW k \in Keys, NEW m \in Movements, NEW a \in Amounts, AppendMovement(k, m, a)
      PROVE  Books' /\ (Covered => Covered')
    BY <1>0, <1>2, MovementSafe
<1>3. ASSUME NEW r \in Runs, NEW a \in Amounts, NEW E \in SUBSET Runs, InsertHeld(r, a, E)
      PROVE  Books' /\ (Covered /\ AuthorizeSpend(r, a, E) => Covered')
    BY <1>0, <1>3, AuthorizeSafe
<1>4. ASSUME NEW r \in Runs, NEW k \in Keys, NEW a \in Amounts, RecordConsumption(r, k, a)
      PROVE  Books' /\ (Covered => Covered')
    BY <1>0, <1>4, ConsumptionSafe
<1>5. ASSUME NEW r \in Runs, NEW s \in Closures, CloseHold(r, s)
      PROVE  Books' /\ (Covered => Covered')
    <2>1. {r} \in SUBSET Runs /\ {r} \subseteq Open
        BY <1>5 DEF CloseHold
    <2> QED BY <1>0, <1>5, <2>1, ClosureSafe DEF CloseHold
<1>6. ASSUME NEW E \in SUBSET Runs, ExpireStaleHolds(E) PROVE Books' /\ (Covered => Covered')
    <2>1. "expired" \in Closures /\ E \subseteq Open
        BY <1>6 DEF Closures, ExpireStaleHolds
    <2> QED BY <1>0, <1>6, <2>1, ClosureSafe DEF ExpireStaleHolds
<1>7. ASSUME NEW R \in SUBSET Runs, NEW W \in Suspensions, ReleaseOpenHolds(R, W)
      PROVE  Books' /\ (Covered => Covered')
    <2>1. "released" \in Closures /\ R \subseteq Open
        BY <1>7 DEF Closures, ReleaseOpenHolds
    <2> QED BY <1>0, <1>7, <2>1, ClosureSafe DEF ReleaseOpenHolds
<1>8. CASE UNCHANGED vars
    BY <1>8 DEF vars, Kept, Books, HoldShape, LedgerShape, ConsumedIsCharged, Covered
<1>9. Books'
    BY <1>1, <1>2, <1>3, <1>4, <1>5, <1>6, <1>7, <1>8 DEF RowsNext, Next, AuthorizeSpend
<1>10. Covered /\ [Next]_vars => Covered'
    <2> SUFFICES ASSUME Covered, [Next]_vars PROVE Covered'
        OBVIOUS
    <2>1. ASSUME NEW r \in Runs, NEW a \in Amounts, NEW E \in SUBSET Runs, AuthorizeSpend(r, a, E)
          PROVE  Covered'
        BY <1>3, <2>1 DEF AuthorizeSpend
    <2> QED BY <1>1, <1>2, <2>1, <1>4, <1>5, <1>6, <1>7, <1>8 DEF Next
<1> QED BY <1>9, <1>10

LEMMA AlwaysKept == RowsSpec => []Kept
<1>1. Init => Kept
    BY SafeInit DEF Safe
<1>2. Kept /\ [RowsNext]_vars => Kept'
    BY KeptStep
<1> QED BY <1>1, <1>2, PTL DEF RowsSpec

LEMMA AlwaysSafe == Spec => []Safe
<1>1. Safe /\ [Next]_vars => Safe'
    BY KeptStep DEF Safe, RowsNext
<1> QED BY <1>1, SafeInit, PTL DEF Spec

LEMMA RowsCharged == RowsSpec => []ConsumedIsCharged
<1>1. Kept => ConsumedIsCharged
    BY DEF Kept, Books
<1> QED BY <1>1, AlwaysKept, PTL

(***************************************************************************)
(* recordConsumption advances a hold by exactly what it appends to the     *)
(* ledger, whatever is retried or refused, so a run's running total is the *)
(* sum of its charges and stays within its reservation.                    *)
(***************************************************************************)
THEOREM ConsumptionIsExact == Spec => []ConsumedIsCharged
BY SpecIsRowsSpec, RowsCharged, PTL

(***************************************************************************)
(* authorizeSpend never reserves credits that are not there: the balance   *)
(* covers every open reservation, short only by debits no hold reserved.   *)
(***************************************************************************)
THEOREM NoOverCommitment == Spec => []NeverOverCommitted
<1>1. Safe => NeverOverCommitted
    <2> SUFFICES ASSUME Safe PROVE NeverOverCommitted
        OBVIOUS
    <2> USE DEF Safe, Kept, Books
    <2> DEFINE C == {k \in Keys : ledger[k].type = "consumption"}
               U == {k \in Keys : ledger[k].direction = "debit" /\ ledger[k].type # "consumption"}
               D == {k \in Keys : ledger[k].direction = "debit"}
    <2>1. D = C \cup U /\ C \cap U = {} /\ C \in SUBSET Keys /\ U \in SUBSET Keys
        BY DEF LedgerShape
    <2>2. /\ IsFiniteSet(C) /\ IsFiniteSet(U)
          /\ \A k \in C \cup U : AmountIn(ledger)[k] \in Nat
        <3>1. \A k \in Keys : AmountIn(ledger)[k] \in Nat
            BY AmountInNat DEF TypeOK
        <3> QED BY <3>1, SelectionsFinite
    <2>3. Debited(ledger) = Charged(ledger) + UnreservedDebits(ledger)
        <3>1. Debited(ledger) = Total(D, AmountIn(ledger))
            BY DEF Debited
        <3>2. /\ Charged(ledger) = Total(C, AmountIn(ledger))
              /\ UnreservedDebits(ledger) = Total(U, AmountIn(ledger))
            BY DEF Charged, UnreservedDebits
        <3> HIDE DEF C, U, D
        <3>3. Total(C \cup U, AmountIn(ledger))
                = Total(C, AmountIn(ledger)) + Total(U, AmountIn(ledger))
            <4>1. \A k \in C \cup U : AmountIn(ledger)[k] \in Nat
                BY <2>2
            <4>2. IsFiniteSet(C) /\ IsFiniteSet(U) /\ C \cap U = {}
                BY <2>1, <2>2
            <4> QED BY ONLY <4>1, <4>2, TotalSplit
        <3> QED BY <2>1, <3>1, <3>2, <3>3, Zenon
    <2>4. /\ Charged(ledger) \in Nat /\ Credited(ledger) \in Nat
          /\ UnreservedDebits(ledger) \in Nat
        BY SumsType DEF TypeOK
    <2>5. Held(holds) \in Nat
        <3>1. "expired" \in Closures /\ {} \in SUBSET Runs
            BY DEF Closures
        <3> QED BY <3>1, ClosingFrees
    <2> HIDE DEF C, U, D
    <2> QED BY <2>3, <2>4, <2>5 DEF Covered, NeverOverCommitted, Available, Balance
<1> QED BY <1>1, AlwaysSafe, PTL

LEMMA RowsFinal == RowsSpec => TerminalIsTerminal
<1>1. TypeOK /\ [RowsNext]_vars =>
        [\A r \in Runs : holds[r].state \in Closures => holds'[r] = holds[r]]_holds
    <2> SUFFICES ASSUME TypeOK, [RowsNext]_vars,
                        NEW r \in Runs, holds[r].state \in Closures
                 PROVE  holds'[r] = holds[r]
        OBVIOUS
    <2> USE DEF Closures, Open, OpenIn, Closed
    <2>1. holds \in [Runs -> Hold]
        BY DEF TypeOK
    <2>2. ASSUME NEW x \in Runs, TtlElapses(x) PROVE holds'[r] = holds[r]
        BY <2>2 DEF TtlElapses
    <2>3. ASSUME NEW k \in Keys, NEW m \in Movements, NEW a \in Amounts,
                 AppendMovement(k, m, a)
          PROVE  holds'[r] = holds[r]
        BY <2>3 DEF AppendMovement
    <2>4. ASSUME NEW x \in Runs, NEW a \in Amounts, NEW E \in SUBSET Runs,
                 InsertHeld(x, a, E)
          PROVE  holds'[r] = holds[r]
        <3>1. x # r /\ r \notin E
            BY <2>4 DEF InsertHeld, NoHold
        <3> QED BY <2>4, <3>1 DEF InsertHeld
    <2>5. ASSUME NEW x \in Runs, NEW k \in Keys, NEW a \in Amounts, RecordConsumption(x, k, a)
          PROVE  holds'[r] = holds[r]
        BY <2>1, <2>5 DEF RecordConsumption
    <2>6. ASSUME NEW x \in Runs, NEW s \in Closures, CloseHold(x, s) PROVE holds'[r] = holds[r]
        BY <2>6 DEF CloseHold
    <2>7. ASSUME NEW E \in SUBSET Runs, ExpireStaleHolds(E) PROVE holds'[r] = holds[r]
        BY <2>7 DEF ExpireStaleHolds
    <2>8. ASSUME NEW R \in SUBSET Runs, NEW W \in Suspensions, ReleaseOpenHolds(R, W)
          PROVE  holds'[r] = holds[r]
        BY <2>8 DEF ReleaseOpenHolds
    <2>9. CASE UNCHANGED vars
        BY <2>9 DEF vars
    <2> QED BY <2>2, <2>3, <2>4, <2>5, <2>6, <2>7, <2>8, <2>9
          DEF RowsNext, Next, AuthorizeSpend
<1> QED BY <1>1, RowsTyped, PTL DEF RowsSpec, TerminalIsTerminal

(***************************************************************************)
(* Whoever closes a hold, it is closed once: no later call of any kind     *)
(* changes its state or what it consumed.                                  *)
(***************************************************************************)
THEOREM ClosureIsFinal == Spec => TerminalIsTerminal
BY SpecIsRowsSpec, RowsFinal

LEMMA RowsGrow == RowsSpec => LedgerIsAppendOnly
<1>1. TypeOK /\ [RowsNext]_vars =>
        [\A k \in Keys : ledger[k] # NoEntry => ledger'[k] = ledger[k]]_ledger
    <2> SUFFICES ASSUME TypeOK, [RowsNext]_vars, NEW k \in Keys, ledger[k] # NoEntry
                 PROVE  ledger'[k] = ledger[k]
        OBVIOUS
    <2>1. ASSUME NEW x \in Keys, NEW m \in Movements, NEW a \in Amounts,
                 AppendMovement(x, m, a)
          PROVE  ledger'[k] = ledger[k]
        BY <2>1 DEF AppendMovement, TypeOK
    <2>2. ASSUME NEW r \in Runs, NEW x \in Keys, NEW a \in Amounts, RecordConsumption(r, x, a)
          PROVE  ledger'[k] = ledger[k]
        BY <2>2 DEF RecordConsumption, TypeOK
    <2>3. CASE UNCHANGED ledger
        BY <2>3
    <2> QED BY <2>1, <2>2, <2>3
          DEF RowsNext, Next, vars, TtlElapses, AuthorizeSpend, InsertHeld, CloseHold,
              ExpireStaleHolds, ReleaseOpenHolds
<1> QED BY <1>1, RowsTyped, PTL DEF RowsSpec, LedgerIsAppendOnly

(***************************************************************************)
(* A row of the ledger, once appended, is never edited or removed.         *)
(***************************************************************************)
THEOREM LedgerOnlyGrows == Spec => LedgerIsAppendOnly
BY SpecIsRowsSpec, RowsGrow

(* No step changes a closed hold or a ledger row: the books only grow. *)
THEOREM BooksStand == Spec => NothingIsRewritten
BY ClosureIsFinal, LedgerOnlyGrows DEF NothingIsRewritten

-----------------------------------------------------------------------------
(* The events about a hold. *)

LEMMA AppendSecond ==
    ASSUME NEW S, NEW x \in S, NEW y \in S
    PROVE  Append(<<x>>, y) = <<x, y>>
<1>1. Append(<<x>>, y) \in Seq(S) /\ <<x, y>> \in Seq(S)
    OBVIOUS
<1>2. Len(Append(<<x>>, y)) = 2 /\ Len(<<x, y>>) = 2
    OBVIOUS
<1>3. \A i \in 1..2 : Append(<<x>>, y)[i] = <<x, y>>[i]
    OBVIOUS
<1> QED BY <1>1, <1>2, <1>3, SeqEqual

(* A closure by any of the calls announces itself, after "CreditHeld". *)
LEMMA ClosureTold ==
    ASSUME TypeOK, EventsTellTheHold, NEW R \in SUBSET Runs, NEW s \in Closures, R \subseteq Open
    PROVE  \A r \in Runs : Announced(R, s)[r] = StoryOf[Closed(R, s)[r].state]
<1> SUFFICES ASSUME NEW r \in Runs
             PROVE  Announced(R, s)[r] = StoryOf[Closed(R, s)[r].state]
    OBVIOUS
<1>1. CASE r \in R
    <2>1. holds[r].state = "held" /\ holds[r] \in Hold
        BY <1>1 DEF Open, OpenIn, TypeOK
    <2>2. outbox[r] = <<"CreditHeld">>
        BY <2>1 DEF EventsTellTheHold, StoryOf, HoldStates
    <2>3. Announced(R, s)[r] = <<"CreditHeld", EventOf[s]>>
        <3>1. Announced(R, s)[r] = Append(outbox[r], EventOf[s])
            BY <1>1 DEF Announced
        <3>2. EventOf[s] \in HoldEvents /\ "CreditHeld" \in HoldEvents
            BY EventOfType DEF HoldStates, Closures, HoldEvents
        <3> QED BY <2>2, <3>1, <3>2, AppendSecond, Zenon
    <2>4. Closed(R, s)[r].state = s
        BY <1>1, <2>1 DEF Closed, Hold
    <2>5. StoryOf[s] = <<"CreditHeld", EventOf[s]>>
        BY DEF StoryOf, Closures, HoldStates
    <2> QED BY <2>3, <2>4, <2>5
<1>2. CASE r \notin R
    BY <1>2 DEF Announced, Closed, EventsTellTheHold
<1> QED BY <1>1, <1>2

LEMMA EventsStep == TypeOK /\ EventsTellTheHold /\ [RowsNext]_vars => EventsTellTheHold'
<1> SUFFICES ASSUME TypeOK, EventsTellTheHold, [RowsNext]_vars PROVE EventsTellTheHold'
    OBVIOUS
<1>1. ASSUME NEW r \in Runs, NEW a \in Amounts, NEW E \in SUBSET Runs, InsertHeld(r, a, E)
      PROVE  EventsTellTheHold'
    <2> SUFFICES ASSUME NEW x \in Runs PROVE outbox'[x] = StoryOf[holds'[x].state]
        BY DEF EventsTellTheHold
    <2> USE <1>1 DEF InsertHeld
    <2>1. "expired" \in Closures /\ E \subseteq Open /\ r \notin E
        BY DEF Closures, Open, OpenIn, NoHold
    <2>2. /\ Closed(E, "expired") \in [Runs -> Hold]
          /\ Announced(E, "expired") \in [Runs -> Seq(HoldEvents)]
        BY <2>1, ClosedType
    <2>3. CASE x = r
        <3>1. Announced(E, "expired")[r] = <<>>
            <4>1. Announced(E, "expired")[r] = outbox[r]
                BY <2>1 DEF Announced
            <4>2. outbox[r] = StoryOf["none"]
                BY DEF EventsTellTheHold, NoHold
            <4>3. StoryOf["none"] = <<>>
                BY DEF StoryOf, HoldStates
            <4> QED BY <4>1, <4>2, <4>3, Zenon
        <3>2. outbox'[r] = <<"CreditHeld">>
            <4>1. outbox'[r] = Append(Announced(E, "expired")[r], EventOf["held"])
                BY <2>2
            <4>2. EventOf["held"] = "CreditHeld"
                BY DEF EventOf, HoldStates
            <4>3. Append(<<>>, "CreditHeld") = <<"CreditHeld">>
                OBVIOUS
            <4> QED BY <3>1, <4>1, <4>2, <4>3, Zenon
        <3>3. holds'[r].state = "held"
            BY <2>2
        <3>4. StoryOf["held"] = <<"CreditHeld">>
            BY DEF StoryOf, HoldStates
        <3> QED BY <2>3, <3>2, <3>3, <3>4
    <2>4. CASE x # r
        <3>1. outbox'[x] = Announced(E, "expired")[x] /\ holds'[x] = Closed(E, "expired")[x]
            BY <2>2, <2>4
        <3> QED BY <2>1, <3>1, ClosureTold
    <2> QED BY <2>3, <2>4
<1>2. ASSUME NEW r \in Runs, NEW k \in Keys, NEW a \in Amounts, RecordConsumption(r, k, a)
      PROVE  EventsTellTheHold'
    <2>1. \A x \in Runs : holds'[x].state = holds[x].state
        BY <1>2 DEF RecordConsumption, TypeOK, Hold
    <2> QED BY <1>2, <2>1 DEF RecordConsumption, EventsTellTheHold
<1>3. ASSUME NEW R \in SUBSET Runs, NEW s \in Closures, R \subseteq Open,
             holds' = Closed(R, s), outbox' = Announced(R, s)
      PROVE  EventsTellTheHold'
    BY <1>3, ClosureTold DEF EventsTellTheHold
<1>4. ASSUME NEW r \in Runs, NEW s \in Closures, CloseHold(r, s) PROVE EventsTellTheHold'
    <2>1. {r} \in SUBSET Runs /\ {r} \subseteq Open
        BY <1>4 DEF CloseHold
    <2> QED BY <1>3, <1>4, <2>1 DEF CloseHold
<1>5. ASSUME NEW E \in SUBSET Runs, ExpireStaleHolds(E) PROVE EventsTellTheHold'
    <2>1. "expired" \in Closures /\ E \subseteq Open
        BY <1>5 DEF Closures, ExpireStaleHolds
    <2> QED BY <1>3, <1>5, <2>1 DEF ExpireStaleHolds
<1>6. ASSUME NEW R \in SUBSET Runs, NEW W \in Suspensions, ReleaseOpenHolds(R, W)
      PROVE  EventsTellTheHold'
    <2>1. "released" \in Closures /\ R \subseteq Open
        BY <1>6 DEF Closures, ReleaseOpenHolds
    <2> QED BY <1>3, <1>6, <2>1 DEF ReleaseOpenHolds
<1>7. CASE UNCHANGED <<holds, outbox>>
    BY <1>7 DEF EventsTellTheHold
<1> QED BY <1>1, <1>2, <1>4, <1>5, <1>6, <1>7
      DEF RowsNext, Next, vars, TtlElapses, AppendMovement, AuthorizeSpend

LEMMA RowsTold == RowsSpec => []EventsTellTheHold
<1>1. Init => EventsTellTheHold
    BY DEF Init, EventsTellTheHold, StoryOf, NoHold, HoldStates
<1> QED BY <1>1, EventsStep, RowsTyped, PTL DEF RowsSpec

(***************************************************************************)
(* Sweeps, suspensions and settlements announce one closure between them:  *)
(* the events about a run are exactly the states its hold has been in.     *)
(***************************************************************************)
THEOREM EventsAreExact == Spec => []EventsTellTheHold
BY SpecIsRowsSpec, RowsTold, PTL

-----------------------------------------------------------------------------
(***************************************************************************)
(* What an open transaction t has written, told from the committed holds   *)
(* hs, the committed ledger l and the runs D that are due.  None of it     *)
(* depends on rows other transactions may change, because t has them       *)
(* locked: that is what makes Commit a step of the hold protocol.          *)
(***************************************************************************)
Sweeps == {"authorize", "expire", "releaseOpen"}

(* The state in which request q leaves the holds it closes, and which ones. *)
LeavesAs(q) ==
    CASE q.op = "close"       -> q.state
      [] q.op = "releaseOpen" -> "released"
      [] OTHER                -> "expired"

Picks(q, r, D) ==
    CASE q.op = "close"       -> r = q.run
      [] q.op = "releaseOpen" -> WorkspaceOf[r] \in q.workspaces
      [] OTHER                -> r \in D

HasClosed(t, r, hs, D) ==
    /\ t.request.op \in Sweeps \cup {"close"}
    /\ Picks(t.request, r, D)
    /\ hs[r].state = "held"
    /\ t.rows[r] = [hs[r] EXCEPT !.state = LeavesAs(t.request)]
    /\ t.events[r] = <<EventOf[LeavesAs(t.request)]>>

NewHold(a) == [state |-> "held", amount |-> a, consumed |-> 0]

HasInserted(t, r, hs) ==
    /\ t.request.op = "authorize" /\ t.at = "commit"
    /\ r = t.request.run
    /\ hs[r] = NoHold
    /\ t.rows[r] = NewHold(t.request.amount)
    /\ t.events[r] = <<EventOf["held"]>>

HasLocked(t, r, hs) ==
    /\ t.request.op = "consume"
    /\ r = t.request.run
    /\ t.entry = {}
    /\ t.rows[r] = hs[r]
    /\ t.events[r] = <<>>

(* The charge q asks for fits what is left of the open hold h. *)
Fits(q, h) == h.state = "held" /\ q.amount <= h.amount - h.consumed

HasCharged(t, r, hs) ==
    /\ t.request.op = "consume"
    /\ r = t.request.run
    /\ t.entry = {t.request.key}
    /\ Fits(t.request, hs[r])
    /\ t.rows[r] = [hs[r] EXCEPT !.consumed = hs[r].consumed + t.request.amount]
    /\ t.events[r] = <<>>

RowsTrue(t, hs, D) ==
    /\ \A r \in DOMAIN t.rows :
          \/ HasClosed(t, r, hs, D) \/ HasInserted(t, r, hs)
          \/ HasLocked(t, r, hs) \/ HasCharged(t, r, hs)
    /\ \A r \in Runs \ DOMAIN t.rows : t.events[r] = <<>>

EntryTrue(t, l) ==
    \/ t.entry = {}
    \/ /\ t.request.op \in {"consume", "append"}
       /\ t.entry = {t.request.key}
       /\ l[t.request.key] = NoEntry

(* The threshold t wrote, and the alert for leaving the recorded one. *)
AlertTrue(t, recorded) ==
    \/ t.threshold = {} /\ t.alert = <<>>
    \/ \E s \in Thresholds :
          /\ t.threshold = {s}
          /\ t.alert = IF s \in {recorded, "ok"} THEN <<>> ELSE <<s>>

(* The operation each statement belongs to. *)
Belongs(t) ==
    LET op == t.request.op
    IN  CASE t.at \in {"lock", "find hold", "read projection", "probe", "aggregate",
                       "sum holds", "insert hold"}                -> op = "authorize"
          [] t.at \in {"sweep", "sweep row"}                      -> op \in Sweeps
          [] t.at \in {"lock hold", "find charge", "reaggregate", "upsert"} -> op = "consume"
          [] t.at = "close"                                       -> op = "close"
          [] t.at = "append"                                      -> op \in {"consume", "append"}
          [] OTHER                                                -> TRUE

(* How far t has come when it reaches its statement. *)
Progress(t, hs, D) ==
    /\ t.at \in {"lock", "sweep", "lock hold", "close"} => DOMAIN t.rows = {}
    /\ t.request.op = "append" => DOMAIN t.rows = {}
    /\ t.request.op \in {"consume", "close"} => DOMAIN t.rows \subseteq {t.request.run}
    /\ t.request.op = "consume" /\ t.at # "lock hold" => t.request.run \in DOMAIN t.rows
    /\ t.at = "sweep row" =>
          t.todo # <<>> /\ \A i \in 1..Len(t.todo) : Picks(t.request, t.todo[i], D)
    /\ t.at \in {"lock", "sweep", "lock hold", "close", "find charge", "append"} => t.entry = {}
    /\ t.at = "append" /\ t.request.op = "consume" => Fits(t.request, hs[t.request.run])
    /\ t.threshold # {} => t.at = "commit"

NoRequest == [op |-> "none"]

(* The transactions client c can be in, whatever they have done. *)
Tx(c) ==
    [at : Locations, request : Requests[c] \cup {NoRequest}, start : 0..MaxTx,
     todo : Seq(Runs), rows : UNION {[R -> Hold] : R \in SUBSET Runs},
     entry : SUBSET Keys, counted : SUBSET Keys, threshold : SUBSET Thresholds,
     events : [Runs -> Seq(HoldEvents)], alert : Seq(Thresholds \ {"ok"})]

(* Transaction t has only written what its request and its statement allow. *)
InOrder(t, hs, l, D) ==
    \/ t = Idle
    \/ /\ t.at # "idle" /\ t.request # NoRequest
       /\ RowsTrue(t, hs, D) /\ EntryTrue(t, l)
       /\ Belongs(t) /\ Progress(t, hs, D)

(* Two transactions never hold the same row, entry or balance row. *)
Apart(t, u) ==
    /\ DOMAIN t.rows \cap DOMAIN u.rows = {}
    /\ t.entry \cap u.entry = {}
    /\ t.threshold = {} \/ u.threshold = {}

Shapes ==
    /\ createdAt \in [Keys -> 0..MaxTx]
    /\ projection \in [keys : SUBSET Keys, threshold : Thresholds]
    /\ alerts \in Seq(Thresholds \ {"ok"})
    /\ clock \in 0..MaxTx /\ crashes \in 0..MaxCrashes
    /\ authLock = {} \/ \E c \in Clients : authLock = {c}
    /\ DOMAIN tx = Clients
    /\ \A c \in Clients : tx[c] \in Tx(c)

Transactions ==
    /\ \A c \in Clients : InOrder(tx[c], holds, ledger, due)
    /\ \A c \in Clients : AlertTrue(tx[c], projection.threshold)
    /\ \A c, d \in Clients : c # d => Apart(tx[c], tx[d])

TxSafe == TypeOK /\ Shapes /\ Transactions

-----------------------------------------------------------------------------
(* The shapes of requests and transactions. *)

LEMMA RequestShape ==
    ASSUME NEW c \in Clients, NEW q \in Requests[c]
    PROVE  /\ q # NoRequest
           /\ q.op \in {"authorize", "consume", "close", "expire", "releaseOpen", "append"}
           /\ q.op \in {"authorize", "consume", "close"} => q.run \in Runs
           /\ q.op \in {"authorize", "consume", "append"} => q.amount \in Amounts
           /\ q.op \in {"consume", "append"} => q.key \in Keys
           /\ q.op = "close" => q.state \in {"settled", "released"}
           /\ q.op = "releaseOpen" => q.workspaces \in Suspensions
           /\ q.op = "append" => q.movement \in Movements /\ q.movement[1] # "consumption"
<1>1. q \in Request
    BY RequestsAssumption
<1>2. q.op \in {"authorize", "consume", "close", "expire", "releaseOpen", "append"}
    BY <1>1 DEF Request
<1>3. q.op # "none"
    BY <1>2
<1>4. q # NoRequest
    BY <1>3 DEF NoRequest
<1> QED BY <1>1, <1>2, <1>4 DEF Request

LEMMA TxFields ==
    ASSUME NEW c \in Clients, NEW t \in Tx(c)
    PROVE  /\ t.at \in Locations /\ t.request \in Requests[c] \cup {NoRequest}
           /\ t.start \in 0..MaxTx /\ t.todo \in Seq(Runs)
           /\ DOMAIN t.rows \subseteq Runs /\ t.rows \in [DOMAIN t.rows -> Hold]
           /\ t.entry \subseteq Keys /\ t.counted \subseteq Keys /\ t.threshold \subseteq Thresholds
           /\ t.events \in [Runs -> Seq(HoldEvents)] /\ t.alert \in Seq(Thresholds \ {"ok"})
<1>1. t.rows \in UNION {[R -> Hold] : R \in SUBSET Runs}
    BY DEF Tx
<1>2. PICK R \in SUBSET Runs : t.rows \in [R -> Hold]
    BY <1>1
<1>3. DOMAIN t.rows = R
    BY <1>2
<1> QED BY <1>2, <1>3 DEF Tx

LEMMA IdleIsTx ==
    ASSUME NEW c \in Clients
    PROVE  Idle \in Tx(c)
<1>1. [r \in {} |-> NoHold] \in [{} -> Hold]
    OBVIOUS
<1>2. [r \in {} |-> NoHold] \in UNION {[R -> Hold] : R \in SUBSET Runs}
    BY <1>1
<1>3. 0 \in 0..MaxTx
    BY BoundsAssumption
<1>4. [r \in Runs |-> <<>>] \in [Runs -> Seq(HoldEvents)]
    OBVIOUS
<1>5. <<>> \in Seq(Runs) /\ <<>> \in Seq(Thresholds \ {"ok"})
    OBVIOUS
<1>6. "idle" \in Locations
    BY DEF Locations
<1> QED BY <1>2, <1>3, <1>4, <1>5, <1>6 DEF Idle, Tx, NoRequest

(* What t and u have written, and asked, is the same. *)
SameWrites(t, u) ==
    /\ u.request = t.request /\ u.start = t.start
    /\ u.rows = t.rows /\ u.events = t.events
    /\ u.entry = t.entry /\ u.threshold = t.threshold /\ u.alert = t.alert

LEMMA WroteShape ==
    ASSUME NEW c \in Clients, NEW t \in Tx(c), NEW r \in Runs, NEW h \in Hold,
           NEW said \in Seq(HoldEvents),
           NEW u, u = Wrote(t, r, h, said)
    PROVE  /\ u \in Tx(c)
           /\ u.at = t.at /\ u.request = t.request /\ u.start = t.start /\ u.todo = t.todo
           /\ u.entry = t.entry /\ u.threshold = t.threshold /\ u.alert = t.alert
           /\ DOMAIN u.rows = DOMAIN t.rows \cup {r}
           /\ u.rows[r] = h
           /\ \A x \in DOMAIN t.rows \ {r} : u.rows[x] = t.rows[x]
           /\ u.events[r] = t.events[r] \o said
           /\ \A x \in Runs \ {r} : u.events[x] = t.events[x]
<1> DEFINE rows == [x \in DOMAIN t.rows \cup {r} |-> IF x = r THEN h ELSE t.rows[x]]
           events == [t.events EXCEPT ![r] = t.events[r] \o said]
<1>1. /\ DOMAIN t.rows \subseteq Runs /\ t.rows \in [DOMAIN t.rows -> Hold]
      /\ t.events \in [Runs -> Seq(HoldEvents)]
    BY TxFields
<1>2. rows \in [DOMAIN t.rows \cup {r} -> Hold]
    BY <1>1
<1>3. DOMAIN t.rows \cup {r} \in SUBSET Runs
    BY <1>1
<1>4. rows \in UNION {[R -> Hold] : R \in SUBSET Runs}
    BY <1>2, <1>3
<1>5. t.events[r] \o said \in Seq(HoldEvents)
    BY <1>1
<1>6. events \in [Runs -> Seq(HoldEvents)]
    BY <1>1, <1>5
<1>7. /\ DOMAIN rows = DOMAIN t.rows \cup {r} /\ rows[r] = h
      /\ \A x \in DOMAIN t.rows \ {r} : rows[x] = t.rows[x]
    OBVIOUS
<1>8. /\ events[r] = t.events[r] \o said
      /\ \A x \in Runs \ {r} : events[x] = t.events[x]
    BY <1>1
<1>9. Wrote(t, r, h, said) = [t EXCEPT !.rows = rows, !.events = events]
    BY DEF Wrote
<1> HIDE DEF rows, events
<1> QED BY <1>4, <1>6, <1>7, <1>8, <1>9, ZenonT(60) DEF Tx

-----------------------------------------------------------------------------
(* What a step of one transaction leaves of the facts about all of them.   *)

Sound(c, u) ==
    /\ u \in Tx(c)
    /\ InOrder(u, holds, ledger, due)
    /\ AlertTrue(u, projection.threshold)

LEMMA Knows ==
    ASSUME TxSafe, NEW c \in Clients
    PROVE  /\ Sound(c, tx[c])
           /\ \A d \in Clients \ {c} : Apart(tx[c], tx[d])
           /\ tx[c].at # "idle" =>
                 /\ tx[c].request \in Requests[c]
                 /\ RowsTrue(tx[c], holds, due) /\ EntryTrue(tx[c], ledger)
                 /\ Belongs(tx[c]) /\ Progress(tx[c], holds, due)
<1>1. Sound(c, tx[c]) /\ \A d \in Clients \ {c} : Apart(tx[c], tx[d])
    BY DEF TxSafe, Transactions, Shapes, Sound
<1>2. tx[c].request \in Requests[c] \cup {NoRequest}
    BY <1>1, TxFields DEF Sound
<1>3. tx[c].at # "idle" => tx[c] # Idle
    BY DEF Idle
<1> QED BY <1>1, <1>2, <1>3 DEF Sound, InOrder

(* One client replaces its transaction; what is committed stays. *)
Replaced(c, u) ==
    /\ tx' = [tx EXCEPT ![c] = u]
    /\ UNCHANGED committed

Still ==
    /\ DOMAIN tx' = Clients
    /\ \A c \in Clients : tx'[c] \in Tx(c)
    /\ Transactions'

LEMMA ApartSym == ASSUME NEW t, NEW u, Apart(t, u) PROVE Apart(u, t)
BY DEF Apart

LEMMA ReplacedKeeps ==
    ASSUME TxSafe, NEW c \in Clients, NEW u, Replaced(c, u), Sound(c, u),
           \A d \in Clients \ {c} : Apart(u, tx[d])
    PROVE  Still
<1>1. DOMAIN tx = Clients
    BY DEF TxSafe, Shapes
<1>2. /\ tx'[c] = u /\ DOMAIN tx' = Clients
      /\ \A d \in Clients \ {c} : tx'[d] = tx[d]
    BY <1>1 DEF Replaced
<1>3. holds' = holds /\ ledger' = ledger /\ due' = due /\ projection' = projection
    BY DEF Replaced, committed
<1>4. \A d \in Clients : Sound(d, tx[d])
    BY Knows
<1>5. \A d \in Clients : Sound(d, tx'[d])
    BY <1>2, <1>4
<1>6. \A d \in Clients : /\ tx'[d] \in Tx(d)
                         /\ InOrder(tx'[d], holds', ledger', due')
                         /\ AlertTrue(tx'[d], projection'.threshold)
    BY <1>3, <1>5 DEF Sound
<1>7. \A d, e \in Clients : d # e => Apart(tx'[d], tx'[e])
    <2> SUFFICES ASSUME NEW d \in Clients, NEW e \in Clients, d # e
                 PROVE  Apart(tx'[d], tx'[e])
        OBVIOUS
    <2>1. CASE d = c
        BY <1>2, <2>1
    <2>2. CASE e = c
        BY <1>2, <2>2, ApartSym
    <2>3. CASE d # c /\ e # c
        BY <1>2, <2>3, Knows
    <2> QED BY <2>1, <2>2, <2>3
<1> QED BY <1>2, <1>6, <1>7 DEF Still, Transactions

LEMMA IdleSound ==
    ASSUME NEW c \in Clients
    PROVE  Sound(c, Idle) /\ \A t : Apart(Idle, t)
<1>1. DOMAIN Idle.rows = {} /\ Idle.entry = {} /\ Idle.threshold = {} /\ Idle.alert = <<>>
    BY DEF Idle
<1> QED BY <1>1, IdleIsTx DEF Sound, InOrder, AlertTrue, Apart

LEMMA RollbackKeeps ==
    ASSUME TxSafe, NEW c \in Clients, Rollback(c)
    PROVE  Still
BY IdleSound, ReplacedKeeps DEF Rollback, Step, Replaced

(* A statement that writes nothing. *)
LEMMA MoveKeeps ==
    ASSUME TxSafe, NEW c \in Clients, tx[c].at \notin {"idle", "commit"},
           NEW u \in Tx(c), Replaced(c, u), SameWrites(tx[c], u),
           u.at # "idle", Belongs(u), Progress(u, holds, due)
    PROVE  Still
<1> DEFINE t == tx[c]
<1>1. /\ Sound(c, t) /\ RowsTrue(t, holds, due) /\ EntryTrue(t, ledger)
      /\ \A d \in Clients \ {c} : Apart(t, tx[d])
      /\ t.request \in Requests[c]
    BY Knows
<1> HIDE DEF t
<1>2. /\ u.request = t.request /\ u.rows = t.rows /\ u.events = t.events
      /\ u.entry = t.entry /\ u.threshold = t.threshold /\ u.alert = t.alert
    BY DEF SameWrites, t
<1>3. RowsTrue(u, holds, due)
    <2>1. \A r \in DOMAIN t.rows : ~HasInserted(t, r, holds)
        BY DEF HasInserted, t
    <2> SUFFICES ASSUME NEW r \in DOMAIN t.rows
                 PROVE  \/ HasClosed(u, r, holds, due) \/ HasLocked(u, r, holds)
                        \/ HasCharged(u, r, holds)
        BY <1>1, <1>2 DEF RowsTrue
    <2>2. \/ HasClosed(t, r, holds, due) \/ HasLocked(t, r, holds) \/ HasCharged(t, r, holds)
        BY <1>1, <2>1 DEF RowsTrue
    <2>3. HasClosed(t, r, holds, due) => HasClosed(u, r, holds, due)
        BY <1>2 DEF HasClosed
    <2>4. HasLocked(t, r, holds) => HasLocked(u, r, holds)
        BY <1>2 DEF HasLocked
    <2>5. HasCharged(t, r, holds) => HasCharged(u, r, holds)
        BY <1>2 DEF HasCharged
    <2> QED BY <2>2, <2>3, <2>4, <2>5
<1>4. EntryTrue(u, ledger)
    BY <1>1, <1>2 DEF EntryTrue
<1>5. AlertTrue(u, projection.threshold)
    BY <1>1, <1>2 DEF Sound, AlertTrue
<1>6. \A d \in Clients \ {c} : Apart(u, tx[d])
    BY <1>1, <1>2 DEF Apart
<1>7. u.request # NoRequest
    BY <1>1, <1>2, RequestShape
<1>8. Sound(c, u)
    BY <1>3, <1>4, <1>5, <1>7 DEF Sound, InOrder
<1> QED BY <1>6, <1>8, ReplacedKeeps

(* A statement that writes or locks the row of r, which nobody else has. *)
LEMMA RowKeeps ==
    ASSUME TxSafe, NEW c \in Clients, tx[c].at \notin {"idle", "commit"}, NEW r \in Runs,
           r \notin DOMAIN tx[c].rows, RowOwners(c, r) = {},
           NEW u \in Tx(c), Replaced(c, u), u.request = tx[c].request,
           u.entry = tx[c].entry, u.threshold = tx[c].threshold, u.alert = tx[c].alert,
           DOMAIN u.rows = DOMAIN tx[c].rows \cup {r},
           \A x \in DOMAIN tx[c].rows \ {r} : u.rows[x] = tx[c].rows[x],
           \A x \in Runs \ {r} : u.events[x] = tx[c].events[x],
           HasClosed(u, r, holds, due) \/ HasInserted(u, r, holds) \/ HasLocked(u, r, holds),
           u.at # "idle", Belongs(u), Progress(u, holds, due)
    PROVE  Still
<1> DEFINE t == tx[c]
<1>1. /\ Sound(c, t) /\ RowsTrue(t, holds, due) /\ EntryTrue(t, ledger)
      /\ \A d \in Clients \ {c} : Apart(t, tx[d])
      /\ t.request \in Requests[c]
    BY Knows
<1>2. /\ t.at # "commit" /\ u.request = t.request /\ r \notin DOMAIN t.rows
      /\ u.entry = t.entry /\ u.threshold = t.threshold /\ u.alert = t.alert
      /\ DOMAIN u.rows = DOMAIN t.rows \cup {r}
      /\ \A x \in DOMAIN t.rows \ {r} : u.rows[x] = t.rows[x]
      /\ \A x \in Runs \ {r} : u.events[x] = t.events[x]
    OBVIOUS
<1>3. DOMAIN t.rows \subseteq Runs
    BY <1>1, TxFields DEF Sound
<1> HIDE DEF t
<1>4. RowsTrue(u, holds, due)
    <2>1. ASSUME NEW x \in DOMAIN t.rows
          PROVE  \/ HasClosed(u, x, holds, due) \/ HasLocked(u, x, holds)
                 \/ HasCharged(u, x, holds)
        <3>1. u.rows[x] = t.rows[x] /\ u.events[x] = t.events[x]
            BY <1>2, <1>3
        <3>2. \/ HasClosed(t, x, holds, due) \/ HasLocked(t, x, holds) \/ HasCharged(t, x, holds)
            BY <1>1, <1>2 DEF RowsTrue, HasInserted
        <3>3. HasClosed(t, x, holds, due) => HasClosed(u, x, holds, due)
            BY <1>2, <3>1 DEF HasClosed
        <3>4. HasLocked(t, x, holds) => HasLocked(u, x, holds)
            BY <1>2, <3>1 DEF HasLocked
        <3>5. HasCharged(t, x, holds) => HasCharged(u, x, holds)
            BY <1>2, <3>1 DEF HasCharged
        <3> QED BY <3>2, <3>3, <3>4, <3>5
    <2>2. \A x \in Runs \ DOMAIN u.rows : u.events[x] = <<>>
        BY <1>1, <1>2 DEF RowsTrue
    <2> QED BY <1>2, <2>1, <2>2 DEF RowsTrue
<1>5. EntryTrue(u, ledger)
    BY <1>1, <1>2 DEF EntryTrue
<1>6. AlertTrue(u, projection.threshold)
    BY <1>1, <1>2 DEF Sound, AlertTrue
<1>7. \A d \in Clients \ {c} : Apart(u, tx[d])
    BY <1>1, <1>2 DEF Apart, RowOwners
<1>8. u.request # NoRequest
    BY <1>1, <1>2, RequestShape
<1>9. Sound(c, u)
    BY <1>4, <1>5, <1>6, <1>8 DEF Sound, InOrder
<1> QED BY <1>7, <1>9, ReplacedKeeps

-----------------------------------------------------------------------------
(* The statements, one by one. *)

LEMMA AcquireKeeps ==
    ASSUME TxSafe, NEW c \in Clients, AcquireAuthorizeLock(c)
    PROVE  Still
<1>0. PICK u : u = [tx[c] EXCEPT !.at = "sweep"]
    OBVIOUS
<1>1. tx[c].at = "lock" /\ Replaced(c, u)
    BY <1>0 DEF AcquireAuthorizeLock, At, Goto, Step, Replaced
<1>2. Sound(c, tx[c]) /\ Belongs(tx[c]) /\ Progress(tx[c], holds, due)
    BY <1>1, Knows
<1>3. u \in Tx(c) /\ SameWrites(tx[c], u) /\ u.at = "sweep"
    <2>1. "sweep" \in Locations
        BY DEF Locations
    <2> QED BY <1>0, <1>2, <2>1 DEF Sound, Tx, SameWrites
<1>4. Belongs(u) /\ Progress(u, holds, due)
    BY <1>1, <1>2, <1>3 DEF SameWrites, Belongs, Progress, Sweeps
<1> QED BY <1>1, <1>3, <1>4, MoveKeeps

LEMMA OrderOf ==
    ASSUME NEW S \in SUBSET Runs, NEW o \in SetToSeqs(S)
    PROVE  o \in Seq(Runs) /\ \A i \in 1..Len(o) : o[i] \in S
<1>1. o \in [1..Cardinality(S) -> S]
    BY DEF SetToSeqs
<1>2. IsFiniteSet(S) /\ Cardinality(S) \in Nat
    BY SelectionsFinite, FS_CardinalityType
<1>3. o \in Seq(S)
    BY <1>1, <1>2
<1> QED BY <1>3

LEMMA StartSweepKeeps ==
    ASSUME TxSafe, NEW c \in Clients, StartSweep(c)
    PROVE  Still
<1>1. PICK o \in SetToSeqs(Selected(c)) :
          Step(c, [tx[c] EXCEPT !.todo = o,
                                !.at = IF o = <<>> THEN AfterSweep(c) ELSE "sweep row"])
    BY DEF StartSweep
<1> DEFINE s == IF o = <<>> THEN AfterSweep(c) ELSE "sweep row"
<1>0. PICK u : u = [tx[c] EXCEPT !.todo = o, !.at = s]
    OBVIOUS
<1>2. tx[c].at = "sweep" /\ Replaced(c, u)
    BY <1>0, <1>1 DEF StartSweep, At, Step, Replaced
<1>3. Sound(c, tx[c]) /\ Belongs(tx[c]) /\ Progress(tx[c], holds, due)
    BY <1>2, Knows
<1>4. /\ s \in {"find hold", "commit", "sweep row"}
      /\ s = "find hold" => tx[c].request.op = "authorize"
      /\ s = "sweep row" => o # <<>>
    BY DEF AfterSweep, Req
<1>5. Selected(c) \in SUBSET Runs
    BY DEF Selected, OpenIn
<1>6. o \in Seq(Runs) /\ \A i \in 1..Len(o) : o[i] \in Selected(c)
    BY <1>5, OrderOf
<1>7. u \in Tx(c) /\ SameWrites(tx[c], u) /\ u.at = s /\ u.todo = o
    <2>1. s \in Locations
        BY <1>4 DEF Locations
    <2> HIDE DEF s
    <2> QED BY <1>0, <1>3, <1>6, <2>1 DEF Sound, Tx, SameWrites
<1>8. tx[c].request.op \in Sweeps
    BY <1>2, <1>3 DEF Belongs
<1>9. \A r \in Selected(c) : Picks(tx[c].request, r, due)
    BY <1>8 DEF Selected, Picks, Req, Sweeps
<1> HIDE DEF s
<1>10. Belongs(u)
    BY <1>4, <1>7, <1>8 DEF SameWrites, Belongs, Sweeps
<1>11. Progress(u, holds, due)
    BY <1>2, <1>3, <1>4, <1>6, <1>7, <1>8, <1>9 DEF SameWrites, Progress, Sweeps
<1>12. u.at # "idle"
    BY <1>4, <1>7
<1> QED BY <1>2, <1>7, <1>10, <1>11, <1>12, MoveKeeps

LEMMA SweepRowKeeps ==
    ASSUME TxSafe, NEW c \in Clients, SweepRow(c)
    PROVE  Still
<1> DEFINE t == tx[c]
           r == Head(t.todo)
           h == [View(c)[r] EXCEPT !.state = SweepState(c)]
           rest == Tail(t.todo)
           s == IF rest = <<>> THEN AfterSweep(c) ELSE "sweep row"
<1>1. t.at = "sweep row" /\ Blockers(c) = {}
    BY DEF SweepRow, At
<1>2. /\ Sound(c, t) /\ Belongs(t) /\ Progress(t, holds, due)
      /\ RowsTrue(t, holds, due) /\ t.request \in Requests[c]
    BY <1>1, Knows
<1>3. RowOwners(c, r) = {}
    BY <1>1 DEF Blockers
<1>4. /\ t.todo \in Seq(Runs) /\ t.todo # <<>> /\ t.request.op \in Sweeps
      /\ \A i \in 1..Len(t.todo) : Picks(t.request, t.todo[i], due)
    BY <1>1, <1>2, TxFields DEF Sound, Progress, Belongs
<1>5. /\ r \in Runs /\ rest \in Seq(Runs)
      /\ Picks(t.request, r, due)
      /\ \A i \in 1..Len(rest) : Picks(t.request, rest[i], due)
    BY <1>4
<1>6. /\ s \in {"find hold", "commit", "sweep row"}
      /\ s = "find hold" => t.request.op = "authorize"
      /\ s = "sweep row" => rest # <<>>
    BY DEF AfterSweep, Req
<1>7. s \in Locations
    BY <1>6 DEF Locations
<1>8. CASE View(c)[r].state # "held"
    <2>0. PICK u : u = [t EXCEPT !.todo = rest, !.at = s]
        OBVIOUS
    <2>1. Replaced(c, u)
        BY <1>8, <2>0 DEF SweepRow, Step, Replaced
    <2>2. u \in Tx(c) /\ SameWrites(t, u) /\ u.at = s /\ u.todo = rest
        <3>1. t \in Tx(c) /\ rest \in Seq(Runs)
            BY <1>2, <1>5 DEF Sound
        <3> HIDE DEF s, t, rest
        <3> QED BY <1>7, <2>0, <3>1 DEF Tx, SameWrites
    <2> HIDE DEF s, t, rest, r
    <2>3. Belongs(u)
        BY <1>4, <1>6, <2>2 DEF SameWrites, Belongs, Sweeps
    <2>4. Progress(u, holds, due)
        BY <1>1, <1>2, <1>4, <1>5, <1>6, <2>2 DEF SameWrites, Progress, Sweeps
    <2>5. u.at # "idle"
        BY <1>6, <2>2
    <2> QED BY <1>1, <2>1, <2>2, <2>3, <2>4, <2>5, MoveKeeps DEF t
<1>9. CASE View(c)[r].state = "held"
    <2>0. PICK w, said, u : /\ said = <<EventOf[h.state]>>
                            /\ w = Wrote(t, r, h, said)
                            /\ u = [w EXCEPT !.todo = rest, !.at = s]
        OBVIOUS
    <2>1. Replaced(c, u)
        BY <1>9, <2>0 DEF SweepRow, Step, Replaced
    <2>2. SweepState(c) = LeavesAs(t.request) /\ SweepState(c) \in {"released", "expired"}
        BY <1>4 DEF SweepState, LeavesAs, Req, Sweeps
    <2>3. r \notin DOMAIN t.rows
        <3> SUFFICES ASSUME r \in DOMAIN t.rows PROVE FALSE
            OBVIOUS
        <3>1. HasClosed(t, r, holds, due)
            BY <1>1, <1>2, <1>4 DEF RowsTrue, HasInserted, HasLocked, HasCharged, Sweeps
        <3>2. View(c)[r] = t.rows[r]
            BY <1>5 DEF View
        <3>3. holds[r] \in Hold
            BY <1>5 DEF TxSafe, TypeOK
        <3>4. t.rows[r].state = SweepState(c)
            BY <2>2, <3>1, <3>3 DEF HasClosed, Hold
        <3> QED BY <1>9, <2>2, <3>2, <3>4
    <2>4. View(c)[r] = holds[r] /\ holds[r] \in Hold /\ holds[r].state = "held"
        BY <1>5, <1>9, <2>3 DEF View, TxSafe, TypeOK
    <2>5. h = [holds[r] EXCEPT !.state = LeavesAs(t.request)] /\ h \in Hold
        BY <2>2, <2>4 DEF Hold, HoldStates, Closures
    <2>6. h.state = LeavesAs(t.request) /\ <<EventOf[h.state]>> \in Seq(HoldEvents)
        <3>1. h.state = LeavesAs(t.request)
            BY <2>4, <2>5 DEF Hold
        <3>2. EventOf[h.state] \in HoldEvents
            BY <2>2, <3>1, EventOfType DEF HoldStates, Closures
        <3> QED BY <3>1, <3>2
    <2>7. /\ w \in Tx(c) /\ w.request = t.request
          /\ w.entry = t.entry /\ w.threshold = t.threshold /\ w.alert = t.alert
          /\ DOMAIN w.rows = DOMAIN t.rows \cup {r} /\ w.rows[r] = h
          /\ \A x \in DOMAIN t.rows \ {r} : w.rows[x] = t.rows[x]
          /\ w.events[r] = t.events[r] \o said
          /\ \A x \in Runs \ {r} : w.events[x] = t.events[x]
        <3>1. /\ t \in Tx(c) /\ r \in Runs /\ h \in Hold /\ said \in Seq(HoldEvents)
              /\ w = Wrote(t, r, h, said)
            BY <1>2, <1>5, <2>0, <2>5, <2>6 DEF Sound
        <3> HIDE DEF t, r, h
        <3> QED BY <3>1, WroteShape, SMTT(30)
    <2>8. u \in Tx(c) /\ SameWrites(w, u) /\ u.at = s /\ u.todo = rest
        <3>1. w \in Tx(c) /\ rest \in Seq(Runs)
            BY <1>5, <2>7
        <3> HIDE DEF s, rest
        <3> QED BY <1>7, <2>0, <3>1 DEF Tx, SameWrites
    <2> HIDE DEF s, t, rest, r, h
    <2>9. w.events[r] = <<EventOf[h.state]>>
        <3>1. t.events[r] = <<>>
            BY <1>2, <1>5, <2>3 DEF RowsTrue
        <3>2. <<>> \o <<EventOf[h.state]>> = <<EventOf[h.state]>>
            OBVIOUS
        <3> QED BY <2>0, <2>7, <3>1, <3>2
    <2>10. HasClosed(u, r, holds, due)
        BY <1>4, <1>5, <2>4, <2>5, <2>6, <2>7, <2>8, <2>9 DEF HasClosed, SameWrites
    <2>11. Belongs(u)
        BY <1>4, <1>6, <2>7, <2>8 DEF SameWrites, Belongs, Sweeps
    <2>12. Progress(u, holds, due)
        BY <1>1, <1>2, <1>4, <1>5, <1>6, <2>7, <2>8 DEF SameWrites, Progress, Sweeps
    <2>13. u.at # "idle"
        BY <1>6, <2>8
    <2>14. /\ u.request = t.request
           /\ u.entry = t.entry /\ u.threshold = t.threshold /\ u.alert = t.alert
           /\ DOMAIN u.rows = DOMAIN t.rows \cup {r}
           /\ \A x \in DOMAIN t.rows \ {r} : u.rows[x] = t.rows[x]
           /\ \A x \in Runs \ {r} : u.events[x] = t.events[x]
        BY <2>7, <2>8 DEF SameWrites
    <2> QED BY <1>1, <1>3, <1>5, <2>1, <2>3, <2>8, <2>10, <2>11, <2>12, <2>13, <2>14, RowKeeps DEF t
<1> QED BY <1>8, <1>9

(* The reads of an authorization lead on to its INSERT, or to its end. *)
LEMMA AuthorizeKeeps ==
    ASSUME TxSafe, NEW c \in Clients, NEW u, Replaced(c, u), u \in Tx(c), SameWrites(tx[c], u),
           tx[c].at \in {"find hold", "read projection", "probe", "aggregate", "sum holds",
                         "insert hold"},
           u.at \in {"read projection", "probe", "aggregate", "sum holds", "insert hold", "commit"}
    PROVE  Still
<1>1. Belongs(tx[c]) /\ Progress(tx[c], holds, due)
    BY Knows
<1>2. tx[c].request.op = "authorize" /\ u.request = tx[c].request
    BY <1>1 DEF Belongs, SameWrites
<1>3. Belongs(u)
    BY <1>2 DEF Belongs
<1>4. Progress(u, holds, due)
    BY <1>1, <1>2 DEF Progress, SameWrites
<1> QED BY <1>3, <1>4, MoveKeeps

LEMMA ReadsKeep ==
    ASSUME TxSafe, NEW c \in Clients,
           \/ FindHold(c) \/ ReadProjection(c) \/ ProbeStale(c) \/ AggregateLedger(c)
           \/ SumOpenHolds(c)
    PROVE  Still
<1> USE DEF At, Goto, Step, Replaced
<1>1. ASSUME NEW s \in {"read projection", "probe", "sum holds", "aggregate", "insert hold", "commit"},
             NEW K \in SUBSET Keys, NEW u,
             u = [tx[c] EXCEPT !.at = s] \/ u = [tx[c] EXCEPT !.counted = K, !.at = s],
             Replaced(c, u),
             tx[c].at \in {"find hold", "read projection", "probe", "aggregate", "sum holds"}
      PROVE  Still
    <2>1. tx[c] \in Tx(c) /\ s \in Locations
        BY <1>1, Knows DEF Sound, Locations
    <2>2. u \in Tx(c) /\ SameWrites(tx[c], u) /\ u.at = s
        BY <1>1, <2>1, ZenonT(60) DEF Tx, SameWrites
    <2> QED BY <1>1, <2>2, AuthorizeKeeps
<1>2. projection.keys \in SUBSET Keys /\ CommittedKeys \in SUBSET Keys
    BY DEF TxSafe, Shapes, CommittedKeys
<1>3. CASE FindHold(c)
    BY <1>1, <1>3 DEF FindHold
<1>4. CASE ReadProjection(c)
    BY <1>1, <1>2, <1>4 DEF ReadProjection
<1>5. CASE ProbeStale(c)
    BY <1>1, <1>5 DEF ProbeStale
<1>6. CASE AggregateLedger(c)
    BY <1>1, <1>2, <1>6 DEF AggregateLedger
<1>7. CASE SumOpenHolds(c)
    <2>1. CASE Rollback(c)
        BY <2>1, RollbackKeeps
    <2>2. CASE Goto(c, "insert hold") /\ UNCHANGED committed
        BY <1>1, <1>7, <2>2 DEF SumOpenHolds, committed
    <2> QED BY <1>7, <2>1, <2>2 DEF SumOpenHolds, committed
<1> QED BY <1>3, <1>4, <1>5, <1>6, <1>7

LEMMA InsertHoldKeeps ==
    ASSUME TxSafe, NEW c \in Clients, InsertHold(c)
    PROVE  Still
<1> DEFINE t == tx[c]
           r == t.request.run
           h == NewHold(t.request.amount)
<1>1. t.at = "insert hold" /\ Blockers(c) = {}
    BY DEF InsertHold, At
<1>2. /\ Sound(c, t) /\ Belongs(t) /\ Progress(t, holds, due)
      /\ RowsTrue(t, holds, due) /\ t.request \in Requests[c]
    BY <1>1, Knows
<1>3. RowOwners(c, r) = {}
    BY <1>1 DEF Blockers, Req
<1>4. t.request.op = "authorize" /\ r \in Runs /\ t.request.amount \in Nat
    BY <1>1, <1>2, RequestShape, AmountsAssumption DEF Belongs
<1>5. CASE View(c)[r] # NoHold
    <2>0. PICK u : u = [t EXCEPT !.at = "commit"]
        OBVIOUS
    <2>1. Replaced(c, u)
        BY <1>5, <2>0 DEF InsertHold, Step, Replaced, Req
    <2>2. u \in Tx(c) /\ SameWrites(t, u) /\ u.at = "commit"
        <3>1. t \in Tx(c) /\ "commit" \in Locations
            BY <1>2 DEF Sound, Locations
        <3> HIDE DEF t
        <3> QED BY <2>0, <3>1 DEF Tx, SameWrites
    <2> QED BY <1>1, <2>1, <2>2, AuthorizeKeeps
<1>6. CASE View(c)[r] = NoHold
    <2>0. PICK w, said, u : /\ said = <<EventOf["held"]>>
                            /\ w = Wrote(t, r, h, said)
                            /\ u = [w EXCEPT !.at = "commit"]
        OBVIOUS
    <2>1. Replaced(c, u)
        BY <1>6, <2>0 DEF InsertHold, Step, Replaced, Req, NewHold
    <2>2. r \notin DOMAIN t.rows
        <3> SUFFICES ASSUME r \in DOMAIN t.rows PROVE FALSE
            OBVIOUS
        <3>1. HasClosed(t, r, holds, due)
            BY <1>1, <1>2, <1>4 DEF RowsTrue, HasInserted, HasLocked, HasCharged
        <3>2. View(c)[r] = t.rows[r]
            BY <1>4 DEF View
        <3>3. holds[r] \in Hold
            BY <1>4 DEF TxSafe, TypeOK
        <3>4. t.rows[r].state = "expired"
            BY <1>4, <3>1, <3>3 DEF HasClosed, Hold, LeavesAs
        <3> QED BY <1>6, <3>2, <3>4 DEF NoHold
    <2>3. holds[r] = NoHold
        BY <1>4, <1>6, <2>2 DEF View
    <2>4. said \in Seq(HoldEvents) /\ h \in Hold
        <3>1. EventOf["held"] \in HoldEvents
            BY EventOfType DEF HoldStates
        <3> QED BY <1>4, <2>0, <3>1 DEF NewHold, Hold, HoldStates
    <2>5. /\ w \in Tx(c) /\ w.request = t.request
          /\ w.entry = t.entry /\ w.threshold = t.threshold /\ w.alert = t.alert
          /\ DOMAIN w.rows = DOMAIN t.rows \cup {r} /\ w.rows[r] = h
          /\ \A x \in DOMAIN t.rows \ {r} : w.rows[x] = t.rows[x]
          /\ w.events[r] = t.events[r] \o said
          /\ \A x \in Runs \ {r} : w.events[x] = t.events[x]
        <3>1. /\ t \in Tx(c) /\ r \in Runs /\ h \in Hold /\ said \in Seq(HoldEvents)
              /\ w = Wrote(t, r, h, said)
            BY <1>2, <1>4, <2>0, <2>4 DEF Sound
        <3> HIDE DEF t, r, h
        <3> QED BY <3>1, WroteShape, SMTT(30)
    <2>6. u \in Tx(c) /\ SameWrites(w, u) /\ u.at = "commit"
        <3>1. w \in Tx(c) /\ "commit" \in Locations
            BY <2>5 DEF Locations
        <3> QED BY <2>0, <3>1 DEF Tx, SameWrites
    <2> HIDE DEF t, h
    <2>7. w.events[r] = <<EventOf["held"]>>
        <3>1. t.events[r] = <<>>
            BY <1>2, <1>4, <2>2 DEF RowsTrue
        <3>2. <<>> \o <<EventOf["held"]>> = <<EventOf["held"]>>
            OBVIOUS
        <3> QED BY <2>0, <2>5, <3>1, <3>2
    <2>8. HasInserted(u, r, holds)
        BY <1>4, <2>3, <2>5, <2>6, <2>7 DEF HasInserted, SameWrites, h
    <2>9. Belongs(u)
        BY <2>6 DEF Belongs
    <2>10. Progress(u, holds, due)
        BY <1>1, <1>2, <1>4, <2>5, <2>6 DEF SameWrites, Progress
    <2>11. /\ u.request = t.request /\ u.at # "idle"
           /\ u.entry = t.entry /\ u.threshold = t.threshold /\ u.alert = t.alert
           /\ DOMAIN u.rows = DOMAIN t.rows \cup {r}
           /\ \A x \in DOMAIN t.rows \ {r} : u.rows[x] = t.rows[x]
           /\ \A x \in Runs \ {r} : u.events[x] = t.events[x]
        BY <2>5, <2>6 DEF SameWrites
    <2> HIDE DEF r
    <2> QED BY <1>1, <1>3, <1>4, <2>1, <2>2, <2>6, <2>8, <2>9, <2>10, <2>11, RowKeeps DEF t
<1> QED BY <1>5, <1>6

LEMMA LockHoldKeeps ==
    ASSUME TxSafe, NEW c \in Clients, LockHold(c)
    PROVE  Still
<1> DEFINE t == tx[c]
           r == t.request.run
<1>1. t.at = "lock hold" /\ Blockers(c) = {}
    BY DEF LockHold, At
<1>2. /\ Sound(c, t) /\ Belongs(t) /\ Progress(t, holds, due)
      /\ RowsTrue(t, holds, due) /\ t.request \in Requests[c]
    BY <1>1, Knows
<1>3. CASE holds[r] = NoHold
    BY <1>3, RollbackKeeps DEF LockHold, Req
<1>4. CASE holds[r] # NoHold
    <2>0. PICK w, said, u : /\ said = <<>>
                            /\ w = Wrote(t, r, holds[r], said)
                            /\ u = [w EXCEPT !.at = "find charge"]
        OBVIOUS
    <2>1. Replaced(c, u)
        BY <1>4, <2>0 DEF LockHold, Step, Replaced, Req, committed
    <2>2. RowOwners(c, r) = {}
        BY <1>1, <1>4 DEF Blockers, Req
    <2>3. t.request.op = "consume" /\ r \in Runs
        BY <1>1, <1>2, RequestShape DEF Belongs
    <2>4. DOMAIN t.rows = {} /\ t.entry = {} /\ t.threshold = {}
        BY <1>1, <1>2 DEF Progress
    <2>5. holds[r] \in Hold /\ said \in Seq(HoldEvents)
        <3>1. holds[r] \in Hold
            BY <2>3 DEF TxSafe, TypeOK
        <3>2. <<>> \in Seq(HoldEvents)
            OBVIOUS
        <3> QED BY <2>0, <3>1, <3>2
    <2>6. /\ w \in Tx(c) /\ w.request = t.request
          /\ w.entry = t.entry /\ w.threshold = t.threshold /\ w.alert = t.alert
          /\ DOMAIN w.rows = DOMAIN t.rows \cup {r} /\ w.rows[r] = holds[r]
          /\ w.events[r] = t.events[r] \o said
          /\ \A x \in Runs \ {r} : w.events[x] = t.events[x]
        <3>1. /\ t \in Tx(c) /\ r \in Runs /\ holds[r] \in Hold /\ said \in Seq(HoldEvents)
              /\ w = Wrote(t, r, holds[r], said)
            BY <1>2, <2>0, <2>3, <2>5 DEF Sound
        <3> HIDE DEF t, r
        <3> QED BY <3>1, WroteShape
    <2>7. u \in Tx(c) /\ SameWrites(w, u) /\ u.at = "find charge"
        <3>1. w \in Tx(c) /\ "find charge" \in Locations
            BY <2>6 DEF Locations
        <3> QED BY <2>0, <3>1 DEF Tx, SameWrites
    <2> HIDE DEF t
    <2>8. w.events[r] = <<>>
        <3>1. t.events[r] = <<>>
            BY <1>2, <2>3, <2>4 DEF RowsTrue
        <3>2. <<>> \o <<>> = <<>>
            OBVIOUS
        <3> QED BY <2>0, <2>6, <3>1, <3>2
    <2>9. HasLocked(u, r, holds)
        BY <2>3, <2>4, <2>6, <2>7, <2>8 DEF HasLocked, SameWrites
    <2>10. Belongs(u)
        BY <2>3, <2>6, <2>7 DEF Belongs, SameWrites
    <2>11. Progress(u, holds, due)
        BY <2>3, <2>4, <2>6, <2>7 DEF SameWrites, Progress
    <2>12. /\ u.request = t.request /\ u.at # "idle"
           /\ u.entry = t.entry /\ u.threshold = t.threshold /\ u.alert = t.alert
           /\ DOMAIN u.rows = DOMAIN t.rows \cup {r}
           /\ \A x \in DOMAIN t.rows \ {r} : u.rows[x] = t.rows[x]
           /\ \A x \in Runs \ {r} : u.events[x] = t.events[x]
           /\ r \notin DOMAIN t.rows
        BY <2>4, <2>6, <2>7 DEF SameWrites
    <2> HIDE DEF r
    <2> QED BY <1>1, <2>1, <2>2, <2>3, <2>7, <2>9, <2>10, <2>11, <2>12, RowKeeps DEF t
<1> QED BY <1>3, <1>4

(* Once the hold is locked, what a consumption sees of it is committed. *)
LEMMA SeesTheHold ==
    ASSUME TxSafe, NEW c \in Clients, tx[c].at \in {"find charge", "append"},
           tx[c].request.op = "consume"
    PROVE  LET r == tx[c].request.run IN
           /\ r \in Runs /\ DOMAIN tx[c].rows = {r}
           /\ HasLocked(tx[c], r, holds) /\ View(c)[r] = holds[r]
<1> DEFINE t == tx[c]
           r == t.request.run
<1>1. RowsTrue(t, holds, due) /\ Progress(t, holds, due) /\ t.request \in Requests[c]
    BY Knows
<1>2. r \in Runs /\ DOMAIN t.rows = {r} /\ t.entry = {}
    BY <1>1, RequestShape DEF Progress
<1>3. HasLocked(t, r, holds)
    BY <1>1, <1>2 DEF RowsTrue, HasClosed, HasInserted, HasCharged, Sweeps
<1>4. View(c)[r] = holds[r]
    BY <1>2, <1>3 DEF View, HasLocked
<1> QED BY <1>2, <1>3, <1>4

LEMMA FindChargeKeeps ==
    ASSUME TxSafe, NEW c \in Clients, FindCharge(c)
    PROVE  Still
<1> DEFINE t == tx[c]
           r == t.request.run
<1>1. t.at = "find charge"
    BY DEF FindCharge, At
<1>2. Sound(c, t) /\ Belongs(t) /\ Progress(t, holds, due)
    BY <1>1, Knows
<1>3. t.request.op = "consume" /\ DOMAIN t.rows = {r} /\ t.entry = {} /\ t.threshold = {}
    BY <1>1, <1>2, SeesTheHold DEF Belongs, Progress
<1>4. View(c)[r] = holds[r]
    BY <1>1, <1>3, SeesTheHold
<1>5. CASE Rollback(c)
    BY <1>5, RollbackKeeps
<1>6. CASE ~Rollback(c)
    <2>1. PICK s \in {"append", "commit"} :
              /\ Goto(c, s) /\ UNCHANGED committed
              /\ s = "append" => Fits(t.request, holds[r])
        <3>1. \/ ledger[t.request.key] # NoEntry
              \/ Fits(t.request, View(c)[r])
            BY <1>6 DEF FindCharge, Fits, Req, Rollback
        <3>2. /\ Goto(c, IF ledger[t.request.key] # NoEntry THEN "commit" ELSE "append")
              /\ UNCHANGED committed
            BY <1>6 DEF FindCharge, Req, committed
        <3> QED BY <1>4, <3>1, <3>2
    <2>2. PICK u : u = [t EXCEPT !.at = s]
        OBVIOUS
    <2>3. Replaced(c, u)
        BY <2>1, <2>2 DEF Goto, Step, Replaced
    <2>4. u \in Tx(c) /\ SameWrites(t, u) /\ u.at = s
        <3>1. t \in Tx(c) /\ s \in Locations
            BY <1>2, <2>1 DEF Sound, Locations
        <3> HIDE DEF t
        <3> QED BY <2>2, <3>1 DEF Tx, SameWrites
    <2> HIDE DEF t
    <2>5. Belongs(u)
        BY <1>3, <2>1, <2>4 DEF Belongs, SameWrites
    <2>6. Progress(u, holds, due)
        BY <1>3, <2>1, <2>4 DEF Progress, SameWrites
    <2> QED BY <1>1, <2>1, <2>3, <2>4, <2>5, <2>6, MoveKeeps DEF t
<1> QED BY <1>5, <1>6

(* A transaction holds at most the one entry its request names. *)
LEMMA OneEntry ==
    ASSUME TxSafe, NEW c \in Clients
    PROVE  tx[c].entry = {} \/ tx[c].entry = {tx[c].request.key}
BY Knows DEF Sound, InOrder, EntryTrue, Idle

(* Inserting the entry of key k, for which nobody else waits to commit. *)
LEMMA EntryApart ==
    ASSUME TxSafe, NEW c \in Clients, tx[c].at = "append", Blockers(c) = {},
           NEW u, DOMAIN u.rows = DOMAIN tx[c].rows, u.entry = {tx[c].request.key}, u.threshold = {}
    PROVE  \A d \in Clients \ {c} : Apart(u, tx[d])
<1> SUFFICES ASSUME NEW d \in Clients \ {c} PROVE Apart(u, tx[d])
    OBVIOUS
<1>1. Apart(tx[c], tx[d])
    BY Knows
<1>2. tx[d].entry # {tx[c].request.key}
    BY DEF Blockers, Req
<1>3. tx[c].request.key \notin tx[d].entry
    BY <1>2, OneEntry
<1> QED BY <1>1, <1>3 DEF Apart

LEMMA ChargeKeeps ==
    ASSUME TxSafe, NEW c \in Clients, AppendEntry(c), tx[c].request.op = "consume",
           ledger[tx[c].request.key] = NoEntry
    PROVE  Still
<1> DEFINE t == tx[c]
           q == t.request
           r == q.run
           h == [holds[r] EXCEPT !.consumed = holds[r].consumed + q.amount]
<1>1. t.at = "append" /\ Blockers(c) = {}
    BY DEF AppendEntry, At
<1>2. /\ Sound(c, t) /\ Belongs(t) /\ Progress(t, holds, due)
      /\ RowsTrue(t, holds, due) /\ q \in Requests[c]
    BY <1>1, Knows
<1>3. /\ r \in Runs /\ DOMAIN t.rows = {r} /\ HasLocked(t, r, holds) /\ View(c)[r] = holds[r]
    BY <1>1, SeesTheHold
<1>4. q.key \in Keys /\ q.amount \in Nat /\ Fits(q, holds[r]) /\ t.threshold = {} /\ t.alert = <<>>
    <2>1. t.threshold = {}
        BY <1>1, <1>2 DEF Progress
    <2>2. t.alert = <<>>
        BY <1>2, <2>1 DEF Sound, AlertTrue
    <2> QED BY <1>1, <1>2, <2>1, <2>2, RequestShape, AmountsAssumption DEF Progress
<1>5. h \in Hold
    <2>1. holds[r] \in Hold
        BY <1>3 DEF TxSafe, TypeOK
    <2>2. holds[r].consumed + q.amount \in Nat
        <3>1. holds[r].consumed \in Nat
            BY <2>1 DEF Hold
        <3>2. q.amount \in Nat
            BY <1>4
        <3> QED BY <3>1, <3>2
    <2> QED BY <2>1, <2>2 DEF Hold
<1>6. PICK n, said, u : /\ n = [t EXCEPT !.entry = {q.key}, !.at = "reaggregate"]
                        /\ said = <<>>
                        /\ u = Wrote(n, r, h, said)
    OBVIOUS
<1>7. Replaced(c, u)
    BY <1>3, <1>6 DEF AppendEntry, Step, Replaced, Req, committed
<1>8. n \in Tx(c) /\ n.at = "reaggregate" /\ n.request = q /\ n.rows = t.rows
      /\ n.events = t.events /\ n.entry = {q.key} /\ n.threshold = {} /\ n.alert = <<>>
    <2>1. t \in Tx(c) /\ "reaggregate" \in Locations /\ {q.key} \in SUBSET Keys
        BY <1>2, <1>4 DEF Sound, Locations
    <2> HIDE DEF t
    <2> QED BY <1>4, <1>6, <2>1 DEF Tx
<1>9. /\ u \in Tx(c) /\ u.at = "reaggregate" /\ u.request = q
      /\ u.entry = {q.key} /\ u.threshold = {} /\ u.alert = <<>>
      /\ DOMAIN u.rows = {r} /\ u.rows[r] = h
      /\ u.events[r] = t.events[r] \o said
      /\ \A x \in Runs \ {r} : u.events[x] = t.events[x]
    <2>1. said \in Seq(HoldEvents)
        BY <1>6
    <2>2. /\ n \in Tx(c) /\ r \in Runs /\ h \in Hold /\ said \in Seq(HoldEvents)
          /\ u = Wrote(n, r, h, said)
        BY <1>3, <1>5, <1>6, <1>8, <2>1
    <2> HIDE DEF t, q, r, h
    <2>3. /\ u \in Tx(c) /\ u.at = n.at /\ u.request = n.request
          /\ u.entry = n.entry /\ u.threshold = n.threshold /\ u.alert = n.alert
          /\ DOMAIN u.rows = DOMAIN n.rows \cup {r} /\ u.rows[r] = h
          /\ u.events[r] = n.events[r] \o said
          /\ \A x \in Runs \ {r} : u.events[x] = n.events[x]
        BY <2>2, WroteShape
    <2> QED BY <1>3, <1>8, <2>3
<1> HIDE DEF t
<1>10. u.events[r] = <<>> /\ \A x \in Runs \ {r} : u.events[x] = <<>>
    <2>1. t.events[r] = <<>>
        BY <1>3 DEF HasLocked
    <2>2. <<>> \o <<>> = <<>>
        OBVIOUS
    <2>3. \A x \in Runs \ {r} : t.events[x] = <<>>
        BY <1>2, <1>3 DEF RowsTrue
    <2> QED BY <1>6, <1>9, <2>1, <2>2, <2>3, ZenonT(60)
<1>11. RowsTrue(u, holds, due)
    <2>1. HasCharged(u, r, holds)
        BY <1>3, <1>4, <1>9, <1>10 DEF HasCharged, HasLocked
    <2> QED BY <1>9, <1>10, <2>1 DEF RowsTrue
<1>12. EntryTrue(u, ledger)
    BY <1>9 DEF EntryTrue, t
<1>13. Belongs(u) /\ Progress(u, holds, due)
    BY <1>9 DEF Belongs, Progress, t
<1>14. u.request # NoRequest
    BY <1>2, <1>9, RequestShape
<1>15. Sound(c, u)
    BY <1>9, <1>11, <1>12, <1>13, <1>14 DEF Sound, InOrder, AlertTrue
<1>16. \A d \in Clients \ {c} : Apart(u, tx[d])
    BY <1>1, <1>3, <1>9, EntryApart DEF t
<1> QED BY <1>7, <1>15, <1>16, ReplacedKeeps

LEMMA MovementKeeps ==
    ASSUME TxSafe, NEW c \in Clients, AppendEntry(c), tx[c].request.op # "consume",
           ledger[tx[c].request.key] = NoEntry
    PROVE  Still
<1> DEFINE t == tx[c]
           q == t.request
<1>1. t.at = "append" /\ Blockers(c) = {}
    BY DEF AppendEntry, At
<1>2. /\ Sound(c, t) /\ Belongs(t) /\ Progress(t, holds, due)
      /\ RowsTrue(t, holds, due) /\ q \in Requests[c]
    BY <1>1, Knows
<1>3. q.op = "append" /\ q.key \in Keys /\ DOMAIN t.rows = {} /\ t.threshold = {} /\ t.alert = <<>>
    <2>1. q.op = "append" /\ t.threshold = {}
        BY <1>1, <1>2 DEF Belongs, Progress
    <2>2. t.alert = <<>>
        BY <1>2, <2>1 DEF Sound, AlertTrue
    <2> QED BY <1>1, <1>2, <2>1, <2>2, RequestShape DEF Progress
<1>4. PICK u : u = [t EXCEPT !.entry = {q.key}, !.at = "commit"]
    OBVIOUS
<1>5. Replaced(c, u)
    BY <1>4 DEF AppendEntry, Step, Replaced, Req, committed
<1>6. /\ u \in Tx(c) /\ u.at = "commit" /\ u.request = q /\ u.rows = t.rows
      /\ u.events = t.events /\ u.entry = {q.key} /\ u.threshold = {} /\ u.alert = <<>>
    <2>1. t \in Tx(c) /\ "commit" \in Locations /\ {q.key} \in SUBSET Keys
        BY <1>2, <1>3 DEF Sound, Locations
    <2> HIDE DEF t
    <2> QED BY <1>3, <1>4, <2>1 DEF Tx
<1> HIDE DEF t
<1>7. RowsTrue(u, holds, due)
    BY <1>2, <1>3, <1>6 DEF RowsTrue
<1>8. EntryTrue(u, ledger)
    BY <1>3, <1>6 DEF EntryTrue, t
<1>9. Belongs(u) /\ Progress(u, holds, due)
    BY <1>3, <1>6 DEF Belongs, Progress
<1>10. u.request # NoRequest
    BY <1>2, <1>6, RequestShape
<1>11. Sound(c, u)
    BY <1>6, <1>7, <1>8, <1>9, <1>10 DEF Sound, InOrder, AlertTrue
<1>12. \A d \in Clients \ {c} : Apart(u, tx[d])
    BY <1>1, <1>6, EntryApart DEF t
<1> QED BY <1>5, <1>11, <1>12, ReplacedKeeps

LEMMA AppendKeeps ==
    ASSUME TxSafe, NEW c \in Clients, AppendEntry(c)
    PROVE  Still
<1> DEFINE t == tx[c]
<1>1. CASE ledger[t.request.key] = NoEntry
    BY <1>1, ChargeKeeps, MovementKeeps
<1>2. CASE ledger[t.request.key] # NoEntry
    <2>1. t.at = "append"
        BY DEF AppendEntry, At
    <2>2. Sound(c, t) /\ Belongs(t) /\ Progress(t, holds, due)
        BY <2>1, Knows
    <2>3. PICK u : u = [t EXCEPT !.at = "commit"]
        OBVIOUS
    <2>4. Replaced(c, u)
        BY <1>2, <2>3 DEF AppendEntry, Goto, Step, Replaced, Req, committed
    <2>5. u \in Tx(c) /\ SameWrites(t, u) /\ u.at = "commit"
        <3>1. t \in Tx(c) /\ "commit" \in Locations
            BY <2>2 DEF Sound, Locations
        <3> HIDE DEF t
        <3> QED BY <2>3, <3>1 DEF Tx, SameWrites
    <2> HIDE DEF t
    <2>6. Belongs(u) /\ Progress(u, holds, due)
        BY <2>1, <2>2, <2>5 DEF Belongs, Progress, SameWrites
    <2> QED BY <2>1, <2>4, <2>5, <2>6, MoveKeeps DEF t
<1> QED BY <1>1, <1>2

LEMMA ReaggregateKeeps ==
    ASSUME TxSafe, NEW c \in Clients, ReaggregateLedger(c)
    PROVE  Still
<1> DEFINE t == tx[c]
           K == CommittedKeys \cup t.entry
<1>1. t.at = "reaggregate"
    BY DEF ReaggregateLedger, At
<1>2. Sound(c, t) /\ Belongs(t) /\ Progress(t, holds, due)
    BY <1>1, Knows
<1>3. PICK u : u = [t EXCEPT !.counted = K, !.at = "upsert"]
    OBVIOUS
<1>4. Replaced(c, u)
    BY <1>3 DEF ReaggregateLedger, Step, Replaced, committed
<1>5. u \in Tx(c) /\ SameWrites(t, u) /\ u.at = "upsert"
    <2>1. t \in Tx(c) /\ "upsert" \in Locations
        BY <1>2 DEF Sound, Locations
    <2>2. K \in SUBSET Keys
        BY <2>1, TxFields DEF CommittedKeys
    <2> HIDE DEF t, K
    <2> QED BY <1>3, <2>1, <2>2 DEF Tx, SameWrites
<1> HIDE DEF t
<1>6. Belongs(u) /\ Progress(u, holds, due)
    BY <1>1, <1>2, <1>5 DEF Belongs, Progress, SameWrites
<1> QED BY <1>1, <1>4, <1>5, <1>6, MoveKeeps DEF t

LEMMA ThresholdOfType == \A b : ThresholdOf(b) \in Thresholds
BY DEF ThresholdOf, Thresholds

LEMMA UpsertKeeps ==
    ASSUME TxSafe, NEW c \in Clients, UpsertProjection(c)
    PROVE  Still
<1> DEFINE t == tx[c]
           seen == [k \in Keys |-> IF k \in t.entry THEN EntryOf(t.request) ELSE ledger[k]]
           b == Balance(Counting(t.counted, seen))
<1>1. t.at = "upsert" /\ Blockers(c) = {}
    BY DEF UpsertProjection, At
<1>2. /\ Sound(c, t) /\ Belongs(t) /\ Progress(t, holds, due)
      /\ RowsTrue(t, holds, due) /\ EntryTrue(t, ledger) /\ t.request \in Requests[c]
      /\ \A d \in Clients \ {c} : Apart(t, tx[d])
    BY <1>1, Knows
<1>3. PICK s, alert, u :
          /\ s = ThresholdOf(b)
          /\ alert = IF s \in {projection.threshold, "ok"} THEN <<>> ELSE <<s>>
          /\ u = [t EXCEPT !.threshold = {s}, !.alert = alert, !.at = "commit"]
    OBVIOUS
<1>4. Replaced(c, u)
    BY <1>3 DEF UpsertProjection, Step, Replaced, Req, committed
<1>5. s \in Thresholds /\ alert \in Seq(Thresholds \ {"ok"})
    <2> HIDE DEF b
    <2>1. s \in Thresholds
        BY <1>3, ThresholdOfType
    <2>2. CASE s \in {projection.threshold, "ok"}
        <3>1. alert = <<>>
            BY <1>3, <2>2
        <3> QED BY <2>1, <3>1
    <2>3. CASE s \notin {projection.threshold, "ok"}
        <3>1. alert = <<s>> /\ s \in Thresholds \ {"ok"}
            BY <1>3, <2>1, <2>3
        <3> QED BY <2>1, <3>1
    <2> QED BY <2>2, <2>3
<1>6. /\ u \in Tx(c) /\ u.at = "commit" /\ u.request = t.request /\ u.rows = t.rows
      /\ u.events = t.events /\ u.entry = t.entry /\ u.threshold = {s} /\ u.alert = alert
    <2>1. t \in Tx(c) /\ "commit" \in Locations /\ {s} \in SUBSET Thresholds
        BY <1>2, <1>5 DEF Sound, Locations
    <2> HIDE DEF t, b
    <2> QED BY <1>3, <1>5, <2>1 DEF Tx
<1> HIDE DEF t, b
<1>7. RowsTrue(u, holds, due)
    <2> SUFFICES ASSUME NEW r \in DOMAIN t.rows
                 PROVE  HasClosed(u, r, holds, due) \/ HasLocked(u, r, holds) \/ HasCharged(u, r, holds)
        BY <1>2, <1>6 DEF RowsTrue
    <2>1. HasClosed(t, r, holds, due) \/ HasLocked(t, r, holds) \/ HasCharged(t, r, holds)
        BY <1>1, <1>2 DEF RowsTrue, HasInserted
    <2>2. HasClosed(t, r, holds, due) => HasClosed(u, r, holds, due)
        BY <1>6 DEF HasClosed
    <2>3. HasLocked(t, r, holds) => HasLocked(u, r, holds)
        BY <1>6 DEF HasLocked
    <2>4. HasCharged(t, r, holds) => HasCharged(u, r, holds)
        BY <1>6 DEF HasCharged
    <2> QED BY <2>1, <2>2, <2>3, <2>4
<1>8. EntryTrue(u, ledger)
    BY <1>2, <1>6 DEF EntryTrue
<1>9. Belongs(u) /\ Progress(u, holds, due)
    BY <1>1, <1>2, <1>6 DEF Belongs, Progress
<1>10. AlertTrue(u, projection.threshold)
    BY <1>3, <1>5, <1>6 DEF AlertTrue
<1>11. u.request # NoRequest
    BY <1>2, <1>6, RequestShape
<1>12. Sound(c, u)
    BY <1>6, <1>7, <1>8, <1>9, <1>10, <1>11 DEF Sound, InOrder
<1>13. \A d \in Clients \ {c} : Apart(u, tx[d])
    <2>1. \A d \in Clients \ {c} : tx[d].threshold = {}
        BY <1>1 DEF Blockers, t
    <2> QED BY <1>2, <1>6, <2>1 DEF Apart
<1> QED BY <1>4, <1>12, <1>13, ReplacedKeeps

LEMMA CloseRowKeeps ==
    ASSUME TxSafe, NEW c \in Clients, CloseRow(c)
    PROVE  Still
<1> DEFINE t == tx[c]
           q == t.request
           r == q.run
           h == [holds[r] EXCEPT !.state = q.state]
<1>1. t.at = "close" /\ Blockers(c) = {}
    BY DEF CloseRow, At
<1>2. /\ Sound(c, t) /\ Belongs(t) /\ Progress(t, holds, due)
      /\ RowsTrue(t, holds, due) /\ q \in Requests[c]
    BY <1>1, Knows
<1>3. /\ q.op = "close" /\ r \in Runs /\ q.state \in {"settled", "released"}
      /\ DOMAIN t.rows = {} /\ t.entry = {} /\ t.threshold = {}
    BY <1>1, <1>2, RequestShape DEF Belongs, Progress
<1>4. View(c)[r] = holds[r] /\ holds[r] \in Hold
    BY <1>3 DEF View, TxSafe, TypeOK
<1>5. CASE holds[r] = NoHold
    BY <1>4, <1>5, RollbackKeeps DEF CloseRow, Req
<1>6. CASE holds[r] # NoHold /\ holds[r].state # "held"
    <2>1. PICK u : u = [t EXCEPT !.at = "commit"]
        OBVIOUS
    <2>2. Replaced(c, u)
        BY <1>4, <1>6, <2>1 DEF CloseRow, Step, Replaced, Req, committed
    <2>3. u \in Tx(c) /\ SameWrites(t, u) /\ u.at = "commit"
        <3>1. t \in Tx(c) /\ "commit" \in Locations
            BY <1>2 DEF Sound, Locations
        <3> HIDE DEF t
        <3> QED BY <2>1, <3>1 DEF Tx, SameWrites
    <2> HIDE DEF t
    <2>4. Belongs(u) /\ Progress(u, holds, due)
        BY <1>3, <2>3 DEF Belongs, Progress, SameWrites
    <2> QED BY <1>1, <2>2, <2>3, <2>4, MoveKeeps DEF t
<1>7. CASE holds[r] # NoHold /\ holds[r].state = "held"
    <2>1. PICK w, said, u : /\ said = <<EventOf[h.state]>>
                            /\ w = Wrote(t, r, h, said)
                            /\ u = [w EXCEPT !.at = "commit"]
        OBVIOUS
    <2>2. Replaced(c, u)
        BY <1>4, <1>7, <2>1 DEF CloseRow, Step, Replaced, Req, committed
    <2>3. RowOwners(c, r) = {}
        BY <1>1, <1>7 DEF Blockers, Req
    <2>4. h \in Hold /\ h.state = q.state /\ said \in Seq(HoldEvents)
        <3>1. q.state \in HoldStates \ {"none"}
            BY <1>3 DEF HoldStates, Closures
        <3>2. h \in Hold /\ h.state = q.state
            BY <1>4, <3>1 DEF Hold
        <3>3. EventOf[h.state] \in HoldEvents
            BY <3>1, <3>2, EventOfType
        <3> HIDE DEF h
        <3> QED BY <2>1, <3>2, <3>3
    <2>5. /\ w \in Tx(c) /\ w.request = q
          /\ w.entry = t.entry /\ w.threshold = t.threshold /\ w.alert = t.alert
          /\ DOMAIN w.rows = DOMAIN t.rows \cup {r} /\ w.rows[r] = h
          /\ w.events[r] = t.events[r] \o said
          /\ \A x \in Runs \ {r} : w.events[x] = t.events[x]
        <3>1. /\ t \in Tx(c) /\ r \in Runs /\ h \in Hold /\ said \in Seq(HoldEvents)
              /\ w = Wrote(t, r, h, said)
            BY <1>2, <1>3, <2>1, <2>4 DEF Sound
        <3> HIDE DEF t, r, h
        <3> QED BY <3>1, WroteShape, SMTT(30)
    <2>6. u \in Tx(c) /\ SameWrites(w, u) /\ u.at = "commit"
        <3>1. w \in Tx(c) /\ "commit" \in Locations
            BY <2>5 DEF Locations
        <3> QED BY <2>1, <3>1 DEF Tx, SameWrites
    <2>7. w.events[r] = <<EventOf[q.state]>>
        <3>1. t.events[r] = <<>>
            BY <1>2, <1>3 DEF RowsTrue
        <3>2. <<>> \o <<EventOf[q.state]>> = <<EventOf[q.state]>>
            OBVIOUS
        <3> HIDE DEF t, h
        <3> QED BY <2>1, <2>4, <2>5, <3>1, <3>2
    <2> HIDE DEF t
    <2>8. HasClosed(u, r, holds, due)
        <3>1. LeavesAs(q) = q.state /\ Picks(q, r, due)
            BY <1>3 DEF LeavesAs, Picks
        <3> QED BY <1>3, <1>7, <2>5, <2>6, <2>7, <3>1 DEF HasClosed, SameWrites
    <2>9. Belongs(u)
        BY <2>6 DEF Belongs
    <2>10. Progress(u, holds, due)
        BY <1>3, <2>5, <2>6 DEF SameWrites, Progress
    <2>11. /\ u.request = q /\ u.at # "idle"
           /\ u.entry = t.entry /\ u.threshold = t.threshold /\ u.alert = t.alert
           /\ DOMAIN u.rows = DOMAIN t.rows \cup {r}
           /\ \A x \in DOMAIN t.rows \ {r} : u.rows[x] = t.rows[x]
           /\ \A x \in Runs \ {r} : u.events[x] = t.events[x]
           /\ r \notin DOMAIN t.rows
        BY <1>3, <2>5, <2>6 DEF SameWrites
    <2> HIDE DEF r
    <2> QED BY <1>1, <1>3, <2>2, <2>3, <2>6, <2>8, <2>9, <2>10, <2>11, RowKeeps DEF t
<1> QED BY <1>5, <1>6, <1>7

(* A transaction that begins has written nothing. *)
LEMMA BeginKeeps ==
    ASSUME TxSafe, NEW c \in Clients, Begin(c)
    PROVE  Still
<1>1. PICK q \in Requests[c] :
          Step(c, [Idle EXCEPT !.at = FirstStatement(q.op), !.request = q, !.start = clock + 1])
    BY DEF Begin
<1>2. PICK s, n, u : /\ s = FirstStatement(q.op)
                     /\ n = clock + 1
                     /\ u = [Idle EXCEPT !.at = s, !.request = q, !.start = n]
    OBVIOUS
<1>3. Replaced(c, u)
    BY <1>1, <1>2 DEF Begin, Step, Replaced
<1>4. n \in 0..MaxTx
    BY <1>2, BoundsAssumption DEF Begin, TxSafe, Shapes
<1>5. q.op \in {"authorize", "consume", "close", "expire", "releaseOpen", "append"}
    BY RequestShape
<1>6. s \in {"lock", "sweep", "lock hold", "close", "append"}
    BY <1>2, <1>5 DEF FirstStatement
<1>7. /\ u \in Tx(c) /\ u.at = s /\ u.request = q /\ u.rows = Idle.rows
      /\ u.events = Idle.events /\ u.entry = Idle.entry
      /\ u.threshold = Idle.threshold /\ u.alert = Idle.alert
    <2>1. Idle \in Tx(c) /\ s \in Locations
        BY <1>6, IdleIsTx DEF Locations
    <2> QED BY <1>2, <1>4, <2>1 DEF Tx
<1>8. /\ DOMAIN u.rows = {} /\ u.entry = {} /\ u.threshold = {} /\ u.alert = <<>>
      /\ \A r \in Runs : u.events[r] = <<>>
    BY <1>7 DEF Idle
<1>9. RowsTrue(u, holds, due) /\ EntryTrue(u, ledger) /\ AlertTrue(u, projection.threshold)
    BY <1>8 DEF RowsTrue, EntryTrue, AlertTrue
<1>10. Belongs(u) /\ Progress(u, holds, due)
    BY <1>2, <1>5, <1>6, <1>7, <1>8 DEF Belongs, Progress, FirstStatement, Sweeps
<1>11. u.request # NoRequest /\ u.at # "idle"
    BY <1>6, <1>7, RequestShape
<1>12. Sound(c, u)
    BY <1>7, <1>9, <1>10, <1>11 DEF Sound, InOrder
<1>13. \A d \in Clients \ {c} : Apart(u, tx[d])
    BY <1>8 DEF Apart
<1> QED BY <1>3, <1>12, <1>13, ReplacedKeeps

(* A hold that falls due is one more the sweeps in flight might have taken. *)
LEMMA DueKeeps ==
    ASSUME TxSafe, NEW r \in Runs, HoldFallsDue(r)
    PROVE  Still
<1>1. /\ holds' = holds /\ ledger' = ledger /\ projection' = projection /\ tx' = tx
      /\ due \subseteq due'
    BY DEF HoldFallsDue, TtlElapses
<1>2. ASSUME NEW c \in Clients PROVE InOrder(tx[c], holds, ledger, due')
    <2>1. CASE tx[c] = Idle
        BY <2>1 DEF InOrder
    <2>2. CASE tx[c] # Idle
        <3> DEFINE t == tx[c]
        <3>1. /\ RowsTrue(t, holds, due) /\ EntryTrue(t, ledger) /\ Belongs(t)
              /\ Progress(t, holds, due) /\ t.at # "idle" /\ t.request # NoRequest
            BY <2>2, Knows DEF Sound, InOrder
        <3> HIDE DEF t
        <3>2. \A x : Picks(t.request, x, due) => Picks(t.request, x, due')
            BY <1>1 DEF Picks
        <3>3. RowsTrue(t, holds, due')
            BY <3>1, <3>2 DEF RowsTrue, HasClosed
        <3>4. Progress(t, holds, due')
            BY <3>1, <3>2 DEF Progress
        <3> QED BY <3>1, <3>3, <3>4 DEF InOrder, t
    <2> QED BY <2>1, <2>2
<1>3. Transactions'
    BY <1>1, <1>2 DEF TxSafe, Transactions
<1> QED BY <1>1, <1>3 DEF Still, TxSafe, Shapes

-----------------------------------------------------------------------------
(* Commit is a step of the hold protocol.                                  *)

LEMMA AppendOne ==
    ASSUME NEW S, NEW s \in Seq(S), NEW e \in S
    PROVE  s \o <<e>> = Append(s, e) /\ s \o <<>> = s
BY AppendIsConcat, ConcatEmptySeq

LEMMA Committed ==
    ASSUME TxSafe, NEW c \in Clients, Commit(c)
    PROVE  /\ tx[c].at = "commit" /\ Sound(c, tx[c]) /\ tx[c].request \in Requests[c]
           /\ RowsTrue(tx[c], holds, due) /\ EntryTrue(tx[c], ledger)
           /\ Progress(tx[c], holds, due) /\ DOMAIN tx[c].rows \subseteq Runs
           /\ \A r \in Runs :
                 holds'[r] = IF r \in DOMAIN tx[c].rows THEN tx[c].rows[r] ELSE holds[r]
           /\ holds' = [r \in Runs |-> holds'[r]]
           /\ \A r \in Runs : outbox'[r] = outbox[r] \o tx[c].events[r]
           /\ outbox' = [r \in Runs |-> outbox'[r]]
           /\ ledger' = [k \in Keys |-> IF k \in tx[c].entry THEN EntryOf(tx[c].request)
                                                             ELSE ledger[k]]
           /\ due' = due
<1>1. tx[c].at = "commit"
    BY DEF Commit, At
<1>2. Sound(c, tx[c])
    BY Knows
<1> QED BY <1>1, <1>2, Knows, TxFields DEF Commit, View, Sound

LEMMA LedgerStays ==
    ASSUME TxSafe, NEW c \in Clients, Commit(c), tx[c].entry = {}
    PROVE  ledger' = ledger
<1>1. ledger \in [Keys -> Entry]
    BY DEF TxSafe, TypeOK
<1>2. ledger' = [k \in Keys |-> IF k \in tx[c].entry THEN EntryOf(tx[c].request)
                                                     ELSE ledger[k]]
    BY DEF Commit
<1> QED BY <1>1, <1>2

(* The rows of R, closed, and nothing else: Closed and Announced. *)
LEMMA CommitCloses ==
    ASSUME TxSafe, NEW c \in Clients, Commit(c), NEW R \in SUBSET Runs,
           R \subseteq DOMAIN tx[c].rows, \A r \in R : HasClosed(tx[c], r, holds, due)
    PROVE  /\ \A r \in R : /\ holds'[r] = Closed(R, LeavesAs(tx[c].request))[r]
                           /\ outbox'[r] = Announced(R, LeavesAs(tx[c].request))[r]
           /\ \A r \in Runs \ DOMAIN tx[c].rows :
                 /\ holds'[r] = Closed(R, LeavesAs(tx[c].request))[r]
                 /\ outbox'[r] = Announced(R, LeavesAs(tx[c].request))[r]
           /\ R \subseteq Open
<1> DEFINE t == tx[c]
           s == LeavesAs(t.request)
<1>1. /\ t.request \in Requests[c] /\ RowsTrue(t, holds, due)
      /\ \A r \in Runs : /\ holds'[r] = IF r \in DOMAIN t.rows THEN t.rows[r] ELSE holds[r]
                         /\ outbox'[r] = outbox[r] \o t.events[r]
    BY Committed
<1>2. \A r \in Runs : outbox[r] \in Seq(HoldEvents)
    BY DEF TxSafe, TypeOK
<1> HIDE DEF t
<1>3. s \in HoldStates \ {"none"}
    BY <1>1, RequestShape DEF LeavesAs, HoldStates, Closures
<1>4. EventOf[s] \in HoldEvents
    BY <1>3, EventOfType
<1>5. ASSUME NEW r \in R
      PROVE  holds'[r] = Closed(R, s)[r] /\ outbox'[r] = Announced(R, s)[r] /\ r \in Open
    <2>1. HasClosed(t, r, holds, due) /\ r \in Runs /\ r \in DOMAIN t.rows
        BY DEF t
    <2>2. holds'[r] = [holds[r] EXCEPT !.state = s]
        BY <1>1, <2>1 DEF HasClosed
    <2>3. outbox'[r] = outbox[r] \o <<EventOf[s]>>
        BY <1>1, <2>1 DEF HasClosed
    <2>4. outbox'[r] = Append(outbox[r], EventOf[s])
        <3>1. outbox[r] \in Seq(HoldEvents)
            BY <1>2, <2>1
        <3> HIDE DEF s
        <3> QED BY <1>4, <2>3, <3>1, AppendOne
    <2> QED BY <2>1, <2>2, <2>4 DEF Closed, Announced, Open, OpenIn, HasClosed
<1>6. ASSUME NEW r \in Runs \ DOMAIN t.rows
      PROVE  holds'[r] = Closed(R, s)[r] /\ outbox'[r] = Announced(R, s)[r]
    <2>1. t.events[r] = <<>> /\ r \notin R
        BY <1>1 DEF RowsTrue, t
    <2>2. outbox'[r] = outbox[r]
        <3>1. outbox'[r] = outbox[r] \o <<>>
            BY <1>1, <2>1
        <3> QED BY <1>2, <1>4, <3>1, AppendOne
    <2> QED BY <1>1, <2>1, <2>2 DEF Closed, Announced
<1> QED BY <1>5, <1>6 DEF t

LEMMA CommitClosesAll ==
    ASSUME TxSafe, NEW c \in Clients, Commit(c),
           \A r \in DOMAIN tx[c].rows : HasClosed(tx[c], r, holds, due)
    PROVE  LET R == DOMAIN tx[c].rows
               s == LeavesAs(tx[c].request) IN
           /\ R \in SUBSET Runs /\ R \subseteq Open
           /\ holds' = Closed(R, s) /\ outbox' = Announced(R, s)
           /\ R = {} => holds' = holds /\ outbox' = outbox
<1> DEFINE R == DOMAIN tx[c].rows
           s == LeavesAs(tx[c].request)
<1>1. /\ R \in SUBSET Runs /\ holds' = [r \in Runs |-> holds'[r]]
      /\ outbox' = [r \in Runs |-> outbox'[r]]
    BY Committed
<1>2. /\ R \subseteq Open
      /\ \A r \in Runs : holds'[r] = Closed(R, s)[r] /\ outbox'[r] = Announced(R, s)[r]
    BY <1>1, CommitCloses
<1> HIDE DEF R, s
<1>3. holds' = Closed(R, s) /\ outbox' = Announced(R, s)
    BY <1>1, <1>2 DEF Closed, Announced
<1>4. R = {} => holds' = holds /\ outbox' = outbox
    BY <1>3 DEF Closed, Announced, TxSafe, TypeOK
<1> QED BY <1>1, <1>2, <1>3, <1>4 DEF R, s

(* A commit that closed some holds and appended nothing. *)
LEMMA ClosingAdvances ==
    ASSUME TxSafe, NEW c \in Clients, Commit(c), tx[c].request.op \in Sweeps \cup {"close"},
           \A r \in DOMAIN tx[c].rows : HasClosed(tx[c], r, holds, due)
    PROVE  [RowsNext]_vars
<1> DEFINE q == tx[c].request
           R == DOMAIN tx[c].rows
           s == LeavesAs(q)
<1>1. q \in Requests[c] /\ EntryTrue(tx[c], ledger) /\ Progress(tx[c], holds, due) /\ due' = due
    BY Committed
<1>2. ledger' = ledger
    <2>1. tx[c].entry = {}
        BY <1>1 DEF EntryTrue, Sweeps
    <2> QED BY <2>1, LedgerStays
<1>3. /\ R \in SUBSET Runs /\ R \subseteq Open
      /\ holds' = Closed(R, s) /\ outbox' = Announced(R, s)
      /\ R = {} => holds' = holds /\ outbox' = outbox
    BY CommitClosesAll
<1>4. \A r \in R : Picks(q, r, due)
    BY DEF HasClosed
<1>5. CASE R = {}
    BY <1>1, <1>2, <1>3, <1>5 DEF vars
<1> HIDE DEF R, s
<1>6. CASE R # {} /\ q.op \in {"authorize", "expire"}
    <2>1. s = "expired" /\ R \subseteq due
        BY <1>4, <1>6 DEF Picks, LeavesAs, s
    <2>2. ExpireStaleHolds(R)
        BY <1>1, <1>2, <1>3, <1>6, <2>1 DEF ExpireStaleHolds
    <2> QED BY <1>3, <2>2 DEF RowsNext, Next
<1>7. CASE R # {} /\ q.op = "releaseOpen"
    <2>1. s = "released" /\ \A r \in R : WorkspaceOf[r] \in q.workspaces
        BY <1>4, <1>7 DEF Picks, LeavesAs, s
    <2>2. q.workspaces \in Suspensions
        BY <1>1, <1>7, RequestShape
    <2>3. ReleaseOpenHolds(R, q.workspaces)
        BY <1>1, <1>2, <1>3, <1>7, <2>1 DEF ReleaseOpenHolds
    <2> QED BY <1>3, <2>2, <2>3 DEF RowsNext, Next
<1>8. CASE R # {} /\ q.op = "close"
    <2>1. s = q.state /\ R = {q.run}
        <3>1. R \subseteq {q.run}
            BY <1>1, <1>8 DEF Progress, R
        <3> QED BY <1>8, <3>1 DEF LeavesAs, s
    <2>2. q.state \in {"settled", "released"} /\ q.run \in Runs
        BY <1>1, <1>8, RequestShape
    <2>3. CloseHold(q.run, q.state)
        BY <1>1, <1>2, <1>3, <2>1, <2>2 DEF CloseHold
    <2>4. q.state \in Closures
        BY <2>2 DEF Closures
    <2> QED BY <2>2, <2>3, <2>4 DEF RowsNext, Next
<1> QED BY <1>5, <1>6, <1>7, <1>8 DEF Sweeps

(* A commit that inserted a hold, and closed the ones its sweep took. *)
LEMMA InsertAdvances ==
    ASSUME TxSafe, NEW c \in Clients, Commit(c),
           NEW r \in DOMAIN tx[c].rows, HasInserted(tx[c], r, holds)
    PROVE  [RowsNext]_vars
<1> DEFINE t == tx[c]
           a == t.request.amount
           E == DOMAIN t.rows \ {r}
<1>1. /\ t.request \in Requests[c] /\ RowsTrue(t, holds, due) /\ EntryTrue(t, ledger)
      /\ due' = due /\ DOMAIN t.rows \subseteq Runs
      /\ \A x \in Runs : /\ holds'[x] = IF x \in DOMAIN t.rows THEN t.rows[x] ELSE holds[x]
                         /\ outbox'[x] = outbox[x] \o t.events[x]
      /\ holds' = [x \in Runs |-> holds'[x]] /\ outbox' = [x \in Runs |-> outbox'[x]]
      /\ r \in DOMAIN t.rows
    BY Committed
<1> HIDE DEF t
<1>2. /\ t.request.op = "authorize" /\ r = t.request.run /\ holds[r] = NoHold
      /\ t.rows[r] = NewHold(a) /\ t.events[r] = <<EventOf["held"]>>
    BY DEF HasInserted, t
<1>3. a \in Amounts /\ r \in Runs
    BY <1>1, <1>2, RequestShape
<1>4. ledger' = ledger
    <2>1. t.entry = {}
        BY <1>1, <1>2 DEF EntryTrue
    <2> QED BY <2>1, LedgerStays DEF t
<1>5. \A x \in E : HasClosed(t, x, holds, due) /\ x \in due
    <2>1. \A x \in E : HasClosed(t, x, holds, due)
        BY <1>1, <1>2 DEF RowsTrue, HasInserted, HasLocked, HasCharged
    <2> QED BY <1>2, <2>1 DEF HasClosed, Picks
<1>6. LeavesAs(t.request) = "expired"
    BY <1>2 DEF LeavesAs
<1>7. /\ \A x \in E : holds'[x] = Closed(E, "expired")[x] /\ outbox'[x] = Announced(E, "expired")[x]
      /\ \A x \in Runs \ DOMAIN t.rows :
            holds'[x] = Closed(E, "expired")[x] /\ outbox'[x] = Announced(E, "expired")[x]
      /\ E \subseteq Open /\ E \in SUBSET Runs
    <2>1. /\ E \in SUBSET Runs /\ E \subseteq DOMAIN tx[c].rows
          /\ \A x \in E : HasClosed(tx[c], x, holds, due)
          /\ LeavesAs(tx[c].request) = "expired"
        BY <1>1, <1>5, <1>6 DEF t
    <2> HIDE DEF E
    <2> QED BY <2>1, CommitCloses DEF t
<1>8. \A x \in Runs \ {r} :
          holds'[x] = Closed(E, "expired")[x] /\ outbox'[x] = Announced(E, "expired")[x]
    <2>1. \A x \in Runs \ {r} : x \in E \/ x \in Runs \ DOMAIN t.rows
        OBVIOUS
    <2> QED BY <1>7, <2>1
<1>9. holds'[r] = [state |-> "held", amount |-> a, consumed |-> 0]
    BY <1>1, <1>2, <1>3 DEF NewHold
<1>10. outbox'[r] = Append(Announced(E, "expired")[r], EventOf["held"])
    <2>1. outbox'[r] = outbox[r] \o <<EventOf["held"]>>
        BY <1>1, <1>2, <1>3
    <2>2. outbox[r] \in Seq(HoldEvents) /\ EventOf["held"] \in HoldEvents
        BY <1>3, EventOfType DEF TxSafe, TypeOK, HoldStates
    <2>3. outbox'[r] = Append(outbox[r], EventOf["held"])
        BY <2>1, <2>2, AppendOne
    <2>4. Announced(E, "expired")[r] = outbox[r]
        BY <1>3 DEF Announced
    <2> QED BY <2>3, <2>4
<1>11. InsertHeld(r, a, E)
    <2>1. Closed(E, "expired") = [x \in Runs |-> Closed(E, "expired")[x]]
        BY DEF Closed
    <2>2. Announced(E, "expired") = [x \in Runs |-> Announced(E, "expired")[x]]
        BY DEF Announced
    <2>3. holds' = [Closed(E, "expired") EXCEPT
                       ![r] = [state |-> "held", amount |-> a, consumed |-> 0]]
        BY <1>1, <1>8, <1>9, <2>1
    <2>4. outbox' = [Announced(E, "expired") EXCEPT
                        ![r] = Append(Announced(E, "expired")[r], EventOf["held"])]
        BY <1>1, <1>8, <1>10, <2>2
    <2> QED BY <1>1, <1>2, <1>4, <1>5, <1>7, <2>3, <2>4 DEF InsertHeld
<1> QED BY <1>3, <1>7, <1>11 DEF RowsNext

(* A commit that only locked the hold it found the charge for. *)
LEMMA LockAdvances ==
    ASSUME TxSafe, NEW c \in Clients, Commit(c),
           NEW r \in DOMAIN tx[c].rows, HasLocked(tx[c], r, holds)
    PROVE  UNCHANGED vars
<1> DEFINE t == tx[c]
<1>1. /\ t.request \in Requests[c] /\ RowsTrue(t, holds, due) /\ Progress(t, holds, due)
      /\ due' = due
      /\ \A x \in Runs : /\ holds'[x] = IF x \in DOMAIN t.rows THEN t.rows[x] ELSE holds[x]
                         /\ outbox'[x] = outbox[x] \o t.events[x]
      /\ holds' = [x \in Runs |-> holds'[x]] /\ outbox' = [x \in Runs |-> outbox'[x]]
    BY Committed
<1> HIDE DEF t
<1>2. /\ t.request.op = "consume" /\ r = t.request.run /\ t.entry = {} /\ t.rows[r] = holds[r]
      /\ t.events[r] = <<>> /\ DOMAIN t.rows = {r}
    BY <1>1 DEF HasLocked, Progress, t
<1>3. ledger' = ledger
    BY <1>2, LedgerStays DEF t
<1>4. ASSUME NEW x \in Runs PROVE holds'[x] = holds[x] /\ outbox'[x] = outbox[x]
    <2>1. t.events[x] = <<>> /\ outbox[x] \in Seq(HoldEvents)
        BY <1>1, <1>2 DEF RowsTrue, TxSafe, TypeOK
    <2>2. outbox'[x] = outbox[x] \o <<>>
        BY <1>1, <2>1
    <2>3. outbox'[x] = outbox[x]
        BY <2>1, <2>2, ConcatEmptySeq
    <2> QED BY <1>1, <1>2, <2>3
<1> QED BY <1>1, <1>3, <1>4 DEF vars, TxSafe, TypeOK

(* A commit that charged its run. *)
LEMMA ChargeAdvances ==
    ASSUME TxSafe, NEW c \in Clients, Commit(c),
           NEW r \in DOMAIN tx[c].rows, HasCharged(tx[c], r, holds)
    PROVE  [RowsNext]_vars
<1> DEFINE t == tx[c]
           q == t.request
<1>1. /\ q \in Requests[c] /\ RowsTrue(t, holds, due) /\ Progress(t, holds, due)
      /\ EntryTrue(t, ledger) /\ due' = due
      /\ \A x \in Runs : /\ holds'[x] = IF x \in DOMAIN t.rows THEN t.rows[x] ELSE holds[x]
                         /\ outbox'[x] = outbox[x] \o t.events[x]
      /\ holds' = [x \in Runs |-> holds'[x]] /\ outbox' = [x \in Runs |-> outbox'[x]]
      /\ ledger' = [k \in Keys |-> IF k \in t.entry THEN EntryOf(q) ELSE ledger[k]]
    BY Committed
<1> HIDE DEF t
<1>2. /\ q.op = "consume" /\ r = q.run /\ t.entry = {q.key} /\ Fits(q, holds[r])
      /\ t.rows[r] = [holds[r] EXCEPT !.consumed = holds[r].consumed + q.amount]
      /\ t.events[r] = <<>>
    BY DEF HasCharged, t
<1> HIDE DEF q
<1>3. q.run \in Runs /\ q.amount \in Amounts /\ q.key \in Keys /\ DOMAIN t.rows = {r}
      /\ ledger[q.key] = NoEntry
    <2>1. q.run \in Runs /\ q.amount \in Amounts /\ q.key \in Keys
        BY <1>1, <1>2, RequestShape
    <2>2. DOMAIN t.rows \subseteq {r} /\ r \in DOMAIN t.rows
        BY <1>1, <1>2 DEF Progress, t, q
    <2>3. ledger[q.key] = NoEntry
        BY <1>1, <1>2 DEF EntryTrue, q
    <2> QED BY <2>1, <2>2, <2>3
<1>4. outbox' = outbox
    <2>1. ASSUME NEW x \in Runs PROVE outbox'[x] = outbox[x]
        <3>1. t.events[x] = <<>> /\ outbox[x] \in Seq(HoldEvents)
            BY <1>1, <1>2, <1>3 DEF RowsTrue, TxSafe, TypeOK
        <3>2. outbox'[x] = outbox[x] \o <<>>
            BY <1>1, <3>1
        <3> QED BY <3>1, <3>2, ConcatEmptySeq
    <2> QED BY <1>1, <2>1 DEF TxSafe, TypeOK
<1>5. holds \in [Runs -> Hold] /\ ledger \in [Keys -> Entry]
    BY DEF TxSafe, TypeOK
<1>6. holds' = [holds EXCEPT ![r].consumed = holds[r].consumed + q.amount]
    BY <1>1, <1>2, <1>3, <1>5
<1>7. ledger' = [ledger EXCEPT ![q.key] = NewEntry("consumption", "debit", q.amount, r)]
    <2>1. EntryOf(q) = NewEntry("consumption", "debit", q.amount, r)
        BY <1>2 DEF EntryOf
    <2> QED BY <1>1, <1>2, <1>3, <1>5, <2>1
<1>8. q.amount <= Remaining(holds)[r] /\ holds[r].state = "held"
    BY <1>2, <1>3 DEF Fits, Remaining
<1>9. RecordConsumption(r, q.key, q.amount)
    BY <1>1, <1>2, <1>3, <1>4, <1>6, <1>7, <1>8 DEF RecordConsumption
<1> QED BY <1>2, <1>3, <1>9 DEF RowsNext, Next

(* A commit that appended a movement, or found its key used. *)
LEMMA MovementAdvances ==
    ASSUME TxSafe, NEW c \in Clients, Commit(c), tx[c].request.op = "append"
    PROVE  [RowsNext]_vars
<1> DEFINE t == tx[c]
           q == t.request
<1>1. /\ q \in Requests[c] /\ Progress(t, holds, due) /\ EntryTrue(t, ledger) /\ due' = due
      /\ ledger' = [k \in Keys |-> IF k \in t.entry THEN EntryOf(q) ELSE ledger[k]]
    BY Committed
<1>2. holds' = holds /\ outbox' = outbox
    <2>1. DOMAIN tx[c].rows = {}
        BY <1>1 DEF Progress
    <2> QED BY <2>1, CommitClosesAll
<1>3. CASE t.entry = {}
    <2>1. ledger' = ledger
        BY <1>3, LedgerStays
    <2> QED BY <1>1, <1>2, <2>1 DEF vars
<1>4. CASE t.entry # {}
    <2>1. t.entry = {q.key} /\ ledger[q.key] = NoEntry
        BY <1>1, <1>4 DEF EntryTrue
    <2>2. /\ q.key \in Keys /\ q.amount \in Amounts /\ q.movement \in Movements
          /\ q.movement[1] # "consumption"
        BY <1>1, RequestShape
    <2>3. EntryOf(q) = NewEntry(q.movement[1], q.movement[2], q.amount, NoRun)
        BY DEF EntryOf
    <2>4. ledger \in [Keys -> Entry]
        BY DEF TxSafe, TypeOK
    <2> HIDE DEF t, q
    <2>5. ledger' = [ledger EXCEPT ![q.key] =
                        NewEntry(q.movement[1], q.movement[2], q.amount, NoRun)]
        BY <1>1, <2>1, <2>2, <2>3, <2>4
    <2>6. AppendMovement(q.key, q.movement, q.amount)
        BY <1>1, <1>2, <2>1, <2>2, <2>5 DEF AppendMovement
    <2> QED BY <2>2, <2>6 DEF RowsNext, Next
<1> QED BY <1>3, <1>4

LEMMA CommitAdvances ==
    ASSUME TxSafe, NEW c \in Clients, Commit(c)
    PROVE  [RowsNext]_vars
<1> DEFINE t == tx[c]
<1>1. t.request \in Requests[c] /\ RowsTrue(t, holds, due) /\ Progress(t, holds, due)
      /\ t.at = "commit"
    BY Committed
<1>2. t.request.op \in {"authorize", "consume", "close", "expire", "releaseOpen", "append"}
    BY <1>1, RequestShape
<1>3. CASE \E r \in DOMAIN t.rows : HasInserted(t, r, holds)
    BY <1>3, InsertAdvances
<1>4. CASE \E r \in DOMAIN t.rows : HasLocked(t, r, holds)
    BY <1>4, LockAdvances
<1>5. CASE \E r \in DOMAIN t.rows : HasCharged(t, r, holds)
    BY <1>5, ChargeAdvances
<1>6. CASE \A r \in DOMAIN t.rows : HasClosed(t, r, holds, due)
    <2>1. CASE t.request.op \in Sweeps \cup {"close"}
        BY <1>6, <2>1, ClosingAdvances
    <2>2. CASE t.request.op = "consume"
        <3>1. t.request.run \in DOMAIN t.rows
            BY <1>1, <2>2 DEF Progress
        <3> QED BY <1>6, <2>2, <3>1 DEF HasClosed, Sweeps
    <2>3. CASE t.request.op = "append"
        BY <2>3, MovementAdvances
    <2> QED BY <1>2, <2>1, <2>2, <2>3 DEF Sweeps
<1> QED BY <1>1, <1>3, <1>4, <1>5, <1>6 DEF RowsTrue

-----------------------------------------------------------------------------
(* What a commit leaves of the facts about the others, and the alerts.     *)

(* A transaction depends on the rows it has locked, and on no others. *)
LEMMA Locked ==
    ASSUME NEW t, NEW hs, NEW l, NEW D, NEW gs, NEW m, InOrder(t, hs, l, D),
           \A r \in DOMAIN t.rows : gs[r] = hs[r], \A k \in t.entry : m[k] = l[k]
    PROVE  InOrder(t, gs, m, D)
<1>1. CASE t = Idle
    BY <1>1 DEF InOrder
<1>2. CASE t # Idle
    <2>1. /\ t.at # "idle" /\ t.request # NoRequest
          /\ RowsTrue(t, hs, D) /\ EntryTrue(t, l) /\ Belongs(t) /\ Progress(t, hs, D)
        BY <1>2 DEF InOrder
    <2>2. RowsTrue(t, gs, D)
        <3> SUFFICES ASSUME NEW r \in DOMAIN t.rows
                     PROVE  \/ HasClosed(t, r, gs, D) \/ HasInserted(t, r, gs)
                            \/ HasLocked(t, r, gs) \/ HasCharged(t, r, gs)
            BY <2>1 DEF RowsTrue
        <3>1. \/ HasClosed(t, r, hs, D) \/ HasInserted(t, r, hs)
              \/ HasLocked(t, r, hs) \/ HasCharged(t, r, hs)
            BY <2>1 DEF RowsTrue
        <3>2. HasClosed(t, r, hs, D) => HasClosed(t, r, gs, D)
            BY DEF HasClosed
        <3>3. HasInserted(t, r, hs) => HasInserted(t, r, gs)
            BY DEF HasInserted
        <3>4. HasLocked(t, r, hs) => HasLocked(t, r, gs)
            BY DEF HasLocked
        <3>5. HasCharged(t, r, hs) => HasCharged(t, r, gs)
            BY DEF HasCharged
        <3> QED BY <3>1, <3>2, <3>3, <3>4, <3>5
    <2>3. EntryTrue(t, m)
        BY <2>1 DEF EntryTrue
    <2>4. Progress(t, gs, D)
        BY <2>1 DEF Progress
    <2> QED BY <2>1, <2>2, <2>3, <2>4 DEF InOrder
<1> QED BY <1>1, <1>2

LEMMA CommitKeeps ==
    ASSUME TxSafe, NEW c \in Clients, Commit(c)
    PROVE  Still
<1>1. DOMAIN tx = Clients /\ tx' = [tx EXCEPT ![c] = Idle]
    BY DEF TxSafe, Shapes, Commit, Step
<1>2. tx'[c] = Idle /\ DOMAIN tx' = Clients /\ \A d \in Clients \ {c} : tx'[d] = tx[d]
    BY <1>1
<1>3. /\ \A r \in Runs :
            holds'[r] = IF r \in DOMAIN tx[c].rows THEN tx[c].rows[r] ELSE holds[r]
      /\ ledger' = [k \in Keys |-> IF k \in tx[c].entry THEN EntryOf(tx[c].request)
                                                        ELSE ledger[k]]
      /\ due' = due
    BY Committed
<1>4. tx[c].threshold = {} => projection' = projection
    BY DEF Commit
<1>5. ASSUME NEW d \in Clients \ {c}
      PROVE  /\ tx[d] \in Tx(d) /\ InOrder(tx[d], holds', ledger', due')
             /\ AlertTrue(tx[d], projection'.threshold)
    <2>1. Sound(d, tx[d]) /\ Apart(tx[c], tx[d])
        BY Knows
    <2>2. DOMAIN tx[d].rows \subseteq Runs /\ tx[d].entry \subseteq Keys
        BY <2>1, TxFields DEF Sound
    <2>3. \A r \in DOMAIN tx[d].rows : holds'[r] = holds[r]
        BY <1>3, <2>1, <2>2 DEF Apart
    <2>4. \A k \in tx[d].entry : ledger'[k] = ledger[k]
        BY <1>3, <2>1, <2>2 DEF Apart
    <2>5. InOrder(tx[d], holds', ledger', due)
        BY <2>1, <2>3, <2>4, Locked DEF Sound
    <2>6. AlertTrue(tx[d], projection'.threshold)
        <3>1. CASE tx[c].threshold = {}
            BY <1>4, <2>1, <3>1 DEF Sound
        <3>2. CASE tx[d].threshold = {}
            <4>1. tx[d].alert = <<>>
                BY <2>1, <3>2 DEF Sound, AlertTrue
            <4> QED BY <3>2, <4>1 DEF AlertTrue
        <3> QED BY <2>1, <3>1, <3>2 DEF Apart
    <2> QED BY <1>3, <2>1, <2>5, <2>6 DEF Sound
<1>6. /\ Idle \in Tx(c) /\ InOrder(Idle, holds', ledger', due')
      /\ AlertTrue(Idle, projection'.threshold) /\ \A t : Apart(Idle, t)
    BY IdleIsTx DEF InOrder, AlertTrue, Apart, Idle
<1>7. \A d \in Clients : /\ tx'[d] \in Tx(d) /\ InOrder(tx'[d], holds', ledger', due')
                         /\ AlertTrue(tx'[d], projection'.threshold)
    BY <1>2, <1>5, <1>6
<1>8. \A d, e \in Clients : d # e => Apart(tx'[d], tx'[e])
    <2> SUFFICES ASSUME NEW d \in Clients, NEW e \in Clients, d # e
                 PROVE  Apart(tx'[d], tx'[e])
        OBVIOUS
    <2>1. CASE d = c
        BY <1>2, <1>6, <2>1
    <2>2. CASE e = c
        BY <1>2, <1>6, <2>2, ApartSym
    <2>3. CASE d # c /\ e # c
        BY <1>2, <2>3, Knows
    <2> QED BY <2>1, <2>2, <2>3
<1> QED BY <1>2, <1>7, <1>8 DEF Still, Transactions

(* A commit leaves the tables in shape, and announces what it recorded. *)
LEMMA CommitRecords ==
    ASSUME TxSafe, NEW c \in Clients, Commit(c)
    PROVE  /\ createdAt' \in [Keys -> 0..MaxTx]
           /\ projection' \in [keys : SUBSET Keys, threshold : Thresholds]
           /\ alerts' \in Seq(Thresholds \ {"ok"})
           /\ alerts' = IF projection'.threshold \in {projection.threshold, "ok"}
                        THEN alerts
                        ELSE Append(alerts, projection'.threshold)
<1> DEFINE t == tx[c]
<1>1. /\ createdAt \in [Keys -> 0..MaxTx] /\ alerts \in Seq(Thresholds \ {"ok"})
      /\ projection \in [keys : SUBSET Keys, threshold : Thresholds]
    BY DEF TxSafe, Shapes
<1>2. Sound(c, t)
    BY Knows
<1>3. /\ t.start \in 0..MaxTx /\ t.counted \subseteq Keys /\ t.threshold \subseteq Thresholds
      /\ t.alert \in Seq(Thresholds \ {"ok"}) /\ AlertTrue(t, projection.threshold)
    BY <1>2, TxFields DEF Sound
<1>4. /\ createdAt' = [k \in Keys |-> IF k \in t.entry THEN t.start ELSE createdAt[k]]
      /\ projection' = IF t.threshold = {} THEN projection
                       ELSE Row(t.counted, CHOOSE s \in t.threshold : TRUE)
      /\ alerts' = alerts \o t.alert
    BY DEF Commit
<1> HIDE DEF t
<1>5. createdAt' \in [Keys -> 0..MaxTx]
    BY <1>1, <1>3, <1>4
<1>6. alerts' \in Seq(Thresholds \ {"ok"})
    BY <1>1, <1>3, <1>4
<1>7. CASE t.threshold = {}
    <2>1. t.alert = <<>> /\ projection' = projection
        BY <1>3, <1>4, <1>7 DEF AlertTrue
    <2>2. alerts' = alerts
        <3>1. alerts' = alerts \o <<>>
            BY <1>4, <2>1
        <3> QED BY <1>1, <3>1, ConcatEmptySeq
    <2> QED BY <1>1, <1>5, <1>6, <2>1, <2>2
<1>8. CASE t.threshold # {}
    <2>1. PICK s \in Thresholds :
              /\ t.threshold = {s}
              /\ t.alert = IF s \in {projection.threshold, "ok"} THEN <<>> ELSE <<s>>
        BY <1>3, <1>8 DEF AlertTrue
    <2>2. projection' = Row(t.counted, s)
        BY <1>4, <2>1
    <2>3. /\ projection' \in [keys : SUBSET Keys, threshold : Thresholds]
          /\ projection'.threshold = s
        BY <1>3, <2>2 DEF Row
    <2>4. CASE s \in {projection.threshold, "ok"}
        <3>1. alerts' = alerts \o <<>>
            BY <1>4, <2>1, <2>4
        <3>2. alerts' = alerts
            BY <1>1, <3>1, ConcatEmptySeq
        <3> QED BY <1>5, <1>6, <2>3, <2>4, <3>2
    <2>5. CASE s \notin {projection.threshold, "ok"}
        <3>1. alerts' = alerts \o <<s>>
            BY <1>4, <2>1, <2>5
        <3>2. s \in Thresholds \ {"ok"}
            BY <2>5
        <3>3. alerts' = Append(alerts, s)
            BY <1>1, <3>1, <3>2, AppendOne
        <3> QED BY <1>5, <1>6, <2>3, <2>5, <3>3
    <2> QED BY <2>4, <2>5
<1> QED BY <1>7, <1>8

-----------------------------------------------------------------------------
(* The invariant is inductive, and every step is one of the hold protocol. *)

(* What is committed stays as it is, and the clocks and locks keep their shape. *)
Quiet ==
    /\ UNCHANGED committed
    /\ clock' \in 0..MaxTx /\ crashes' \in 0..MaxCrashes
    /\ authLock' = {} \/ \E c \in Clients : authLock' = {c}

LEMMA StatementKeeps ==
    ASSUME TxSafe, NEW c \in Clients, Statement(c), ~Commit(c)
    PROVE  Still
<1>1. \/ AcquireAuthorizeLock(c) \/ StartSweep(c) \/ SweepRow(c)
      \/ (FindHold(c) \/ ReadProjection(c) \/ ProbeStale(c) \/ AggregateLedger(c)
          \/ SumOpenHolds(c))
      \/ InsertHold(c) \/ LockHold(c) \/ FindCharge(c) \/ AppendEntry(c)
      \/ ReaggregateLedger(c) \/ UpsertProjection(c) \/ CloseRow(c) \/ DeadlockVictim(c)
    BY DEF Statement
<1>2. ASSUME DeadlockVictim(c) PROVE Still
    BY <1>2, RollbackKeeps DEF DeadlockVictim
<1> QED BY <1>1, <1>2, AcquireKeeps, StartSweepKeeps, SweepRowKeeps, ReadsKeep, InsertHoldKeeps,
           LockHoldKeeps, FindChargeKeeps, AppendKeeps, ReaggregateKeeps, UpsertKeeps, CloseRowKeeps

LEMMA RollbackQuiet ==
    ASSUME TxSafe, NEW c \in Clients, Rollback(c)
    PROVE  UNCHANGED committed /\ (authLock' = {} \/ \E d \in Clients : authLock' = {d})
<1>1. authLock = {} \/ \E d \in Clients : authLock = {d}
    BY DEF TxSafe, Shapes
<1> QED BY <1>1 DEF Rollback

LEMMA StatementQuiet ==
    ASSUME TxSafe, NEW c \in Clients, Statement(c), ~Commit(c)
    PROVE  Quiet
<1>1. /\ clock \in 0..MaxTx /\ crashes \in 0..MaxCrashes
      /\ authLock = {} \/ \E d \in Clients : authLock = {d}
    BY DEF TxSafe, Shapes
<1>2. CASE AcquireAuthorizeLock(c)
    BY <1>1, <1>2 DEF AcquireAuthorizeLock, Quiet
<1>3. CASE StartSweep(c) \/ SweepRow(c) \/ FindHold(c) \/ ReadProjection(c) \/ ProbeStale(c)
    BY <1>1, <1>3 DEF StartSweep, SweepRow, FindHold, ReadProjection, ProbeStale, Quiet
<1>4. CASE AggregateLedger(c) \/ InsertHold(c) \/ AppendEntry(c) \/ ReaggregateLedger(c)
           \/ UpsertProjection(c)
    BY <1>1, <1>4 DEF AggregateLedger, InsertHold, AppendEntry, ReaggregateLedger,
                      UpsertProjection, Quiet
<1>5. ASSUME Rollback(c), UNCHANGED <<clock, crashes>> PROVE Quiet
    BY <1>1, <1>5, RollbackQuiet DEF Quiet
<1>6. CASE SumOpenHolds(c)
    BY <1>1, <1>5, <1>6 DEF SumOpenHolds, Quiet
<1>7. CASE LockHold(c)
    BY <1>1, <1>5, <1>7 DEF LockHold, Quiet
<1>8. CASE FindCharge(c)
    BY <1>1, <1>5, <1>8 DEF FindCharge, Quiet
<1>9. CASE CloseRow(c)
    BY <1>1, <1>5, <1>9 DEF CloseRow, Quiet
<1>10. CASE DeadlockVictim(c)
    BY <1>5, <1>10 DEF DeadlockVictim
<1> QED BY <1>2, <1>3, <1>4, <1>6, <1>7, <1>8, <1>9, <1>10 DEF Statement

(* What every step does, told once for the theorems that follow. *)
Alerted ==
    alerts' = IF projection'.threshold \in {projection.threshold, "ok"}
              THEN alerts
              ELSE Append(alerts, projection'.threshold)

LEMMA QuietStep ==
    ASSUME TxSafe, Still, Quiet
    PROVE  Shapes' /\ Transactions' /\ UNCHANGED vars /\ [Alerted]_<<projection, alerts>>
BY DEF TxSafe, Still, Quiet, Shapes, committed, vars

LEMMA EveryStep ==
    ASSUME TxSafe, [TxNext]_txVars
    PROVE  TxSafe' /\ [RowsNext]_vars /\ [Alerted]_<<projection, alerts>>
<1>1. SUFFICES Shapes' /\ Transactions' /\ [RowsNext]_vars /\ [Alerted]_<<projection, alerts>>
    BY TypeStep DEF TxSafe
<1>2. /\ clock \in 0..MaxTx /\ crashes \in 0..MaxCrashes
      /\ authLock = {} \/ \E d \in Clients : authLock = {d}
    BY DEF TxSafe, Shapes
<1>3. ASSUME NEW c \in Clients, Begin(c) PROVE Still /\ Quiet
    <2>1. clock' \in 0..MaxTx
        BY <1>2, <1>3, BoundsAssumption DEF Begin
    <2> QED BY <1>2, <1>3, <2>1, BeginKeeps DEF Begin, Quiet
<1>4. ASSUME NEW c \in Clients, Crash(c) PROVE Still /\ Quiet
    <2>1. crashes' \in 0..MaxCrashes
        BY <1>2, <1>4, BoundsAssumption DEF Crash
    <2> QED BY <1>2, <1>4, <2>1, RollbackKeeps, RollbackQuiet DEF Crash, Quiet
<1>5. ASSUME NEW c \in Clients, Statement(c), ~Commit(c) PROVE Still /\ Quiet
    BY <1>5, StatementKeeps, StatementQuiet
<1>6. ASSUME NEW c \in Clients, Commit(c)
      PROVE  Shapes' /\ Transactions' /\ [RowsNext]_vars /\ [Alerted]_<<projection, alerts>>
    <2>1. authLock' = {} \/ \E d \in Clients : authLock' = {d}
        BY <1>2, <1>6 DEF Commit
    <2>2. clock' = clock /\ crashes' = crashes
        BY <1>6 DEF Commit
    <2>3. Still
        BY <1>6, CommitKeeps
    <2>4. Shapes'
        BY <1>2, <1>6, <2>1, <2>2, <2>3, CommitRecords DEF Still, Shapes
    <2> QED BY <1>6, <2>3, <2>4, CommitAdvances, CommitRecords DEF Still, Alerted
<1>7. ASSUME NEW r \in Runs, HoldFallsDue(r)
      PROVE  Shapes' /\ Transactions' /\ [RowsNext]_vars /\ [Alerted]_<<projection, alerts>>
    <2>1. Still
        BY <1>7, DueKeeps
    <2>2. UNCHANGED <<createdAt, projection, alerts, clock, crashes, authLock>>
        BY <1>7 DEF HoldFallsDue
    <2>3. RowsNext
        BY <1>7 DEF HoldFallsDue, RowsNext, Next
    <2> QED BY <2>1, <2>2, <2>3 DEF Still, TxSafe, Shapes
<1>8. CASE UNCHANGED txVars
    BY <1>8 DEF txVars, committed, TxSafe, Shapes, Transactions, vars
<1>9. CASE \E c \in Clients : Begin(c) \/ Statement(c) \/ Crash(c)
    BY <1>3, <1>4, <1>5, <1>6, <1>9, QuietStep
<1> QED BY <1>7, <1>8, <1>9 DEF TxNext, Finished

LEMMA TxStarts == TxInit => TxSafe
<1> SUFFICES ASSUME TxInit PROVE TxSafe
    OBVIOUS
<1>1. TypeOK
    BY TypeInit DEF TxInit
<1>2. Shapes
    <2>1. 0 \in 0..MaxTx /\ 0 \in 0..MaxCrashes
        BY BoundsAssumption
    <2>2. projection \in [keys : SUBSET Keys, threshold : Thresholds]
        BY DEF TxInit, Row, Thresholds
    <2>3. alerts \in Seq(Thresholds \ {"ok"})
        BY DEF TxInit
    <2>4. \A c \in Clients : tx[c] \in Tx(c)
        BY IdleIsTx DEF TxInit
    <2> QED BY <2>1, <2>2, <2>3, <2>4 DEF TxInit, Shapes
<1>3. Transactions
    <2>1. \A c \in Clients : tx[c] = Idle
        BY DEF TxInit
    <2>2. \A c \in Clients : Sound(c, Idle) /\ \A t : Apart(Idle, t)
        BY IdleSound
    <2> QED BY <2>1, <2>2 DEF Sound, Transactions
<1> QED BY <1>1, <1>2, <1>3 DEF TxSafe

LEMMA AlwaysTxSafe == TxSpec => []TxSafe
<1>1. TxSafe /\ [TxNext]_txVars => TxSafe'
    BY EveryStep
<1> QED BY <1>1, TxStarts, PTL DEF TxSpec

(***************************************************************************)
(* Whatever the statements of concurrent calls do to one another, the      *)
(* committed rows and events keep their shape, the authorization lock has  *)
(* one owner and a transaction writes only what is its own.                *)
(***************************************************************************)
THEOREM TransactionsTyped == TxSpec => []TxTypeOK
<1>1. TxSafe => TxTypeOK
    <2> SUFFICES ASSUME TxSafe PROVE TxTypeOK
        OBVIOUS
    <2>1. authLock \subseteq Clients /\ Cardinality(authLock) <= 1
        <3>1. CASE authLock = {}
            BY <3>1, FS_EmptySet
        <3>2. CASE authLock # {}
            <4>1. PICK c \in Clients : authLock = {c}
                BY <3>2 DEF TxSafe, Shapes
            <4> QED BY <4>1, FS_Singleton
        <3> QED BY <3>1, <3>2
    <2>2. ASSUME NEW c \in Clients PROVE Cardinality(tx[c].entry) <= 1
        <3>1. CASE tx[c].entry = {}
            BY <3>1, FS_EmptySet
        <3>2. CASE tx[c].entry = {tx[c].request.key}
            <4>1. PICK k : tx[c].entry = {k}
                BY <3>2
            <4>2. Cardinality({k}) = 1
                BY FS_Singleton
            <4> QED BY <4>1, <4>2
        <3> QED BY <3>1, <3>2, OneEntry
    <2>3. \A c \in Clients : /\ tx[c].at \in Locations /\ DOMAIN tx[c].rows \subseteq Runs
                             /\ tx[c].entry \subseteq Keys /\ tx[c].threshold \subseteq Thresholds
        BY TxFields DEF TxSafe, Shapes
    <2> QED BY <2>1, <2>2, <2>3 DEF TxSafe, Shapes, TxTypeOK
<1> QED BY <1>1, AlwaysTxSafe, PTL

(***************************************************************************)
(* "CreditsLow/CreditsExhausted on transition": of two consumptions that   *)
(* project the balance at once, the one that writes second compares with   *)
(* what the first recorded, so each crossing is announced once.            *)
(***************************************************************************)
THEOREM AlertsFollowTheThreshold == TxSpec => AlertOnTransition
<1>1. TxSafe /\ [TxNext]_txVars => [Alerted]_<<projection, alerts>>
    BY EveryStep
<1> QED BY <1>1, AlwaysTxSafe, PTL DEF TxSpec, AlertOnTransition, Alerted

(***************************************************************************)
(* The SQL implements the hold protocol: a row a transaction has written   *)
(* is locked until it commits, so what it decided about the row still      *)
(* holds then, and each commit is one step of RowsNext.                    *)
(***************************************************************************)
THEOREM TransactionsImplementTheRows == TxSpec => RowsSpec
<1>1. TxInit => Init
    BY DEF TxInit
<1>2. TxSafe /\ [TxNext]_txVars => [RowsNext]_vars
    BY EveryStep
<1> QED BY <1>1, <1>2, AlwaysTxSafe, PTL DEF TxSpec, RowsSpec

(***************************************************************************)
(* recordConsumption, retried, raced by sweeps and settlements or lost     *)
(* with its caller, advances the hold by exactly what the ledger says.     *)
(***************************************************************************)
THEOREM CommittedConsumptionIsExact == TxSpec => []ConsumedIsCharged
BY TransactionsImplementTheRows, RowsCharged

(***************************************************************************)
(* Sweeps, suspensions, settlements and authorizations that overlap        *)
(* announce one closure of a hold between them, after its creation.        *)
(***************************************************************************)
THEOREM CommittedEventsAreExact == TxSpec => []EventsTellTheHold
BY TransactionsImplementTheRows, RowsTold

(* No transaction, however late, changes a closed hold or a ledger row. *)
THEOREM CommittedBooksStand == TxSpec => NothingIsRewritten
BY TransactionsImplementTheRows, RowsFinal, RowsGrow DEF NothingIsRewritten
=============================================================================
