----------------------------- MODULE CreditRows -----------------------------
(***************************************************************************)
(* The rows the credits service keeps for one organization, and the        *)
(* figures it derives from them: holds (credit_holds), the ledger          *)
(* (credit_ledger_entries), and the sums of balance.ts.                    *)
(***************************************************************************)
EXTENDS AmountSums, Sequences

CONSTANTS
    Runs,           \* pipeline runs; a hold is identified by its run
    Workspaces,     \* workspaces of the organization
    WorkspaceOf,    \* the workspace each run works in
    Keys,           \* ledger idempotency keys
    Amounts,        \* the amounts a caller may ask for, in micro-credits
    NoRun,          \* the run of an entry no run is charged for
    OpeningLedger   \* the ledger as the behaviours studied here find it

ASSUME RunsAssumption == IsFiniteSet(Runs) /\ NoRun \notin Runs
ASSUME KeysAssumption == IsFiniteSet(Keys)
ASSUME AmountsAssumption == Amounts \subseteq Nat
ASSUME WorkspaceAssumption == WorkspaceOf \in [Runs -> Workspaces]

-----------------------------------------------------------------------------

(* The states a hold leaves "held" for.  All three are terminal. *)
Closures == {"settled", "released", "expired"}

HoldStates == {"none", "held"} \cup Closures

Hold == [state : HoldStates, amount : Nat, consumed : Nat]

NoHold == [state |-> "none", amount |-> 0, consumed |-> 0]

(* The event that announces each state. *)
EventOf ==
    [s \in HoldStates \ {"none"} |->
        CASE s = "held"    -> "CreditHeld"
          [] s = "settled" -> "CreditSettled"
          [] OTHER         -> "CreditReleased"]

HoldEvents == {"CreditHeld", "CreditSettled", "CreditReleased"}

(***************************************************************************)
(* The entry types with the direction each may take.  Only an adjustment   *)
(* chooses; resolveDirection refuses every other pair.                     *)
(***************************************************************************)
Movements ==
    { <<"grant", "credit">>, <<"refund", "credit">>, <<"consumption", "debit">>,
      <<"expiry", "debit">>, <<"adjustment", "credit">>, <<"adjustment", "debit">> }

Entry == [type : {m[1] : m \in Movements} \cup {"none"},
          direction : {"credit", "debit", "none"},
          amount : Nat,
          run : Runs \cup {NoRun}]

NoEntry == [type |-> "none", direction |-> "none", amount |-> 0, run |-> NoRun]

NewEntry(type, direction, a, r) ==
    [type |-> type, direction |-> direction, amount |-> a, run |-> r]

-----------------------------------------------------------------------------
(* The figures balance.ts derives from a set of holds hs and a ledger l.   *)

OpenIn(hs) == {r \in Runs : hs[r].state = "held"}

AmountIn(l) == [k \in Keys |-> l[k].amount]

Credited(l) == Total({k \in Keys : l[k].direction = "credit"}, AmountIn(l))

Debited(l) == Total({k \in Keys : l[k].direction = "debit"}, AmountIn(l))

Balance(l) == Credited(l) - Debited(l)

(* What an open hold still reserves: only the part not yet a ledger debit. *)
Remaining(hs) == [r \in Runs |-> hs[r].amount - hs[r].consumed]

Held(hs) == Total(OpenIn(hs), Remaining(hs))

Available(hs, l) == Balance(l) - Held(hs)

(***************************************************************************)
(* Debits no hold reserved: an allowance lapsing, a support correction.    *)
(* They are the one legitimate way below zero.                             *)
(***************************************************************************)
UnreservedDebits(l) ==
    Total({k \in Keys : l[k].direction = "debit" /\ l[k].type # "consumption"}, AmountIn(l))

ChargesOf(r, l) == {k \in Keys : l[k].type = "consumption" /\ l[k].run = r}

(***************************************************************************)
(* The books an organization starts with: grants and other credits, and no *)
(* charge for a run that is yet to begin.                                  *)
(***************************************************************************)
ASSUME OpeningAssumption ==
    /\ OpeningLedger \in [Keys -> Entry]
    /\ \A k \in Keys :
          \/ OpeningLedger[k] = NoEntry
          \/ /\ OpeningLedger[k].direction = "credit"
             /\ OpeningLedger[k].type \in {"grant", "refund", "adjustment"}
=============================================================================
