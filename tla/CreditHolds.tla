---------------------------- MODULE CreditHolds ----------------------------
(***************************************************************************)
(* What the credits service promises: the hold protocol of one             *)
(* organization, with every service call a single atomic transaction.      *)
(*                                                                         *)
(*   authorize  reserves an estimated maximum (a hold) before any spend    *)
(*   consume    appends a debit to the ledger and advances the hold        *)
(*   close      settles, releases or expires the hold, once                *)
(*                                                                         *)
(* A call that converges on earlier work (a retried key, a hold already    *)
(* closed) or that throws changes nothing, so it is a stuttering step.     *)
(* CreditsTx splits the same calls into their SQL statements.              *)
(***************************************************************************)
EXTENDS CreditRows

VARIABLES
    holds,      \* credit_holds, by run
    due,        \* the runs whose hold has outlived its expires_at
    ledger,     \* credit_ledger_entries, by idempotency key
    outbox      \* the hold events published about each run, in order

vars == <<holds, due, ledger, outbox>>

-----------------------------------------------------------------------------

Init ==
    /\ holds = [r \in Runs |-> NoHold]
    /\ due = {}
    /\ ledger = OpeningLedger
    /\ outbox = [r \in Runs |-> <<>>]

Open == OpenIn(holds)

(* The holds of R leave "held" for state s; each publishes its event. *)
Closed(R, s) == [r \in Runs |-> IF r \in R THEN [holds[r] EXCEPT !.state = s] ELSE holds[r]]

(* Mutant of Announced: the state's own name goes on the bus. *)
AnnouncedByState(R, s) == [r \in Runs |-> IF r \in R THEN Append(outbox[r], s) ELSE outbox[r]]

Announced(R, s) == [r \in Runs |-> IF r \in R THEN Append(outbox[r], EventOf[s]) ELSE outbox[r]]

(* The clock passes a hold's expires_at.  Nothing is written. *)
TtlElapses(r) ==
    /\ r \in Open \ due
    /\ due' = due \cup {r}
    /\ UNCHANGED <<holds, ledger, outbox>>

(***************************************************************************)
(* A movement no hold is charged for: grant, refund, expiry, adjustment.   *)
(* The unique index on the key decides; a key already used converges.      *)
(***************************************************************************)
AppendMovement(k, m, a) ==
    /\ m[1] # "consumption"
    /\ ledger[k] = NoEntry
    /\ ledger' = [ledger EXCEPT ![k] = NewEntry(m[1], m[2], a, NoRun)]
    /\ UNCHANGED <<holds, due, outbox>>

(***************************************************************************)
(* What an authorization writes.  E is what its sweep reclaims on the way  *)
(* in: holds past their TTL, though not necessarily every one, because one *)
(* may come due after the sweep looked.                                    *)
(***************************************************************************)
InsertHeld(r, a, E) ==
    /\ holds[r] = NoHold
    /\ E \subseteq Open \cap due
    /\ holds' = [Closed(E, "expired") EXCEPT
                    ![r] = [state |-> "held", amount |-> a, consumed |-> 0]]
    /\ outbox' = [Announced(E, "expired") EXCEPT
                    ![r] = Append(Announced(E, "expired")[r], EventOf["held"])]
    /\ UNCHANGED <<due, ledger>>

(* Mutant of AuthorizeSpend: what other runs reserve is left out. *)
AuthorizeSpendOnBalance(r, a, E) ==
    /\ InsertHeld(r, a, E)
    /\ a <= Balance(ledger)

(* authorizeSpend: what is left after the sweep must cover the request. *)
AuthorizeSpend(r, a, E) ==
    /\ InsertHeld(r, a, E)
    /\ a <= Available(Closed(E, "expired"), ledger)

(* Mutant of RecordConsumption: the hold advances from the request, retried or not. *)
RecordConsumptionFromRequest(r, k, a) ==
    /\ holds[r].state = "held"
    /\ a <= Remaining(holds)[r]
    /\ ledger' = IF ledger[k] = NoEntry
                 THEN [ledger EXCEPT ![k] = NewEntry("consumption", "debit", a, r)]
                 ELSE ledger
    /\ holds' = [holds EXCEPT ![r].consumed = @ + a]
    /\ UNCHANGED <<due, outbox>>

(***************************************************************************)
(* recordConsumption.  A key already in the ledger converges before the    *)
(* bound is looked at; a new one must fit what the open hold has left.     *)
(***************************************************************************)
RecordConsumption(r, k, a) ==
    /\ holds[r].state = "held"
    /\ ledger[k] = NoEntry
    /\ a <= Remaining(holds)[r]
    /\ ledger' = [ledger EXCEPT ![k] = NewEntry("consumption", "debit", a, r)]
    /\ holds' = [holds EXCEPT ![r].consumed = @ + a]
    /\ UNCHANGED <<due, outbox>>

(* Mutant of CloseHold: any hold that is not settled yet may be closed. *)
CloseHoldUnguarded(r, s) ==
    /\ s \in {"settled", "released"}
    /\ holds[r].state \notin {"none", s}
    /\ holds' = Closed({r}, s)
    /\ outbox' = Announced({r}, s)
    /\ UNCHANGED <<due, ledger>>

(* settle and release: one guarded transition of one hold. *)
CloseHold(r, s) ==
    /\ s \in {"settled", "released"}
    /\ r \in Open
    /\ holds' = Closed({r}, s)
    /\ outbox' = Announced({r}, s)
    /\ UNCHANGED <<due, ledger>>

(* expireStaleHolds, and the sweep of an authorization that converges. *)
ExpireStaleHolds(E) ==
    /\ E # {}
    /\ E \subseteq Open \cap due
    /\ holds' = Closed(E, "expired")
    /\ outbox' = Announced(E, "expired")
    /\ UNCHANGED <<due, ledger>>

(* Mutant of ReleaseOpenHolds: every hold of the workspace, open or not. *)
ReleaseAllHolds(R, W) ==
    /\ R # {}
    /\ R \subseteq {r \in Runs : holds[r] # NoHold /\ WorkspaceOf[r] \in W}
    /\ holds' = Closed(R, "released")
    /\ outbox' = Announced(R, "released")
    /\ UNCHANGED <<due, ledger>>

(***************************************************************************)
(* releaseOpenHolds, for a suspended workspace or (W = Workspaces) for the *)
(* whole organization.                                                     *)
(***************************************************************************)
ReleaseOpenHolds(R, W) ==
    /\ R # {}
    /\ R \subseteq {r \in Open : WorkspaceOf[r] \in W}
    /\ holds' = Closed(R, "released")
    /\ outbox' = Announced(R, "released")
    /\ UNCHANGED <<due, ledger>>

(* What one suspension event covers: a workspace, or all of them. *)
Suspensions == {{w} : w \in Workspaces} \cup {Workspaces}

Next ==
    \/ \E r \in Runs : TtlElapses(r)
    \/ \E k \in Keys, m \in Movements, a \in Amounts : AppendMovement(k, m, a)
    \/ \E r \in Runs, a \in Amounts, E \in SUBSET Runs : AuthorizeSpend(r, a, E)
    \/ \E r \in Runs, k \in Keys, a \in Amounts : RecordConsumption(r, k, a)
    \/ \E r \in Runs, s \in Closures : CloseHold(r, s)
    \/ \E E \in SUBSET Runs : ExpireStaleHolds(E)
    \/ \E R \in SUBSET Runs, W \in Suspensions : ReleaseOpenHolds(R, W)

Spec == Init /\ [][Next]_vars

(***************************************************************************)
(* The same protocol without the comparison with the funds: what the rows  *)
(* and the events promise even where an authorization may misjudge what is *)
(* left over.                                                              *)
(***************************************************************************)
RowsNext ==
    \/ Next
    \/ \E r \in Runs, a \in Amounts, E \in SUBSET Runs : InsertHeld(r, a, E)

RowsSpec == Init /\ [][RowsNext]_vars

-----------------------------------------------------------------------------

(* Every row has the shape its table gives it. *)
TypeOK ==
    /\ holds \in [Runs -> Hold]
    /\ due \subseteq Runs
    /\ ledger \in [Keys -> Entry]
    /\ outbox \in [Runs -> Seq(HoldEvents)]

(***************************************************************************)
(* The reservation is the bound on worst-case spend, and the ledger is the *)
(* record of it: a hold's running total is exactly the sum of the ledger   *)
(* debits charged to its run, and never exceeds what was reserved.  This   *)
(* is why `consumed` advances from the ledger's answer in                  *)
(* recordConsumption, and what a double-charged retry would break.         *)
(***************************************************************************)
ConsumedIsCharged ==
    \A r \in Runs :
        /\ holds[r].consumed = Total(ChargesOf(r, ledger), AmountIn(ledger))
        /\ holds[r].consumed <= holds[r].amount

(***************************************************************************)
(* No run is ever authorized against credits that are not there: whatever  *)
(* is open and whatever has been charged, the balance covers every         *)
(* reservation, short only by debits that no hold could have reserved.     *)
(***************************************************************************)
NeverOverCommitted == Available(holds, ledger) + UnreservedDebits(ledger) >= 0

(* What has been announced about a hold in each state. *)
StoryOf ==
    [s \in HoldStates |->
        CASE s = "none" -> <<>>
          [] s = "held" -> <<"CreditHeld">>
          [] OTHER      -> <<"CreditHeld", EventOf[s]>>]

(***************************************************************************)
(* The events about a run tell the whole story of its hold, once: held     *)
(* first, then at most one closure, the one the row records.  A sweep, a   *)
(* suspension and a settlement deciding about the same hold must not both  *)
(* announce.                                                               *)
(***************************************************************************)
EventsTellTheHold == \A r \in Runs : outbox[r] = StoryOf[holds[r].state]

(***************************************************************************)
(* A closed hold never changes again: not its state, not what it consumed. *)
(* "Terminal is terminal" is what lets settle, release and the sweep all   *)
(* converge on whichever of them came first.                               *)
(***************************************************************************)
TerminalIsTerminal ==
    [][\A r \in Runs : holds[r].state \in Closures => holds'[r] = holds[r]]_holds

(* A ledger row, once written, is never edited or removed. *)
LedgerIsAppendOnly ==
    [][\A k \in Keys : ledger[k] # NoEntry => ledger'[k] = ledger[k]]_ledger

(***************************************************************************)
(* What the books say stays said: sweeps, suspensions, settlements and     *)
(* retries that come late change neither a closed hold nor a ledger row,   *)
(* though keys are shared by grants and charges.                           *)
(***************************************************************************)
NothingIsRewritten == TerminalIsTerminal /\ LedgerIsAppendOnly
=============================================================================
