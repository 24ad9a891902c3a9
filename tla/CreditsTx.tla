----------------------------- MODULE CreditsTx -----------------------------
(***************************************************************************)
(* The credits service as it runs: every call is a READ COMMITTED          *)
(* transaction, one action per SQL statement, over the row locks, unique   *)
(* indexes and the advisory lock of credits-service.ts and balance.ts.     *)
(*                                                                         *)
(* A statement sees what was committed before it began plus its own        *)
(* transaction's writes.  A write to a row another transaction holds waits *)
(* and then looks at the row again.  The committed rows and events are the *)
(* variables of CreditHolds, whose Spec says what the commits must amount  *)
(* to.                                                                     *)
(***************************************************************************)
EXTENDS CreditHolds, SequencesExt

CONSTANTS
    Clients,        \* callers: orchestrators, consumers, sweeps, cascades
    Requests,       \* Requests[c] is what client c may ask for, any number of times
    LowThreshold,   \* lowBalanceThreshold
    Millisecond,    \* ticks of the database's clock in a millisecond
    MaxTx,          \* bound: transactions begun in a behaviour
    MaxCrashes      \* bound: callers lost in the middle of a transaction

(* What each operation of the service is asked; append is not for charges. *)
Request ==
    [op : {"authorize"}, run : Runs, amount : Amounts]
    \cup [op : {"consume"}, run : Runs, key : Keys, amount : Amounts]
    \cup [op : {"close"}, run : Runs, state : {"settled", "released"}]
    \cup [op : {"expire"}]
    \cup [op : {"releaseOpen"}, workspaces : Suspensions]
    \cup [op : {"append"}, key : Keys, amount : Amounts,
          movement : {m \in Movements : m[1] # "consumption"}]

ASSUME RequestsAssumption == Requests \in [Clients -> SUBSET Request]
ASSUME ClockAssumption == Millisecond \in Nat \ {0}
ASSUME BoundsAssumption == MaxTx \in Nat /\ MaxCrashes \in Nat

VARIABLES
    createdAt,      \* created_at of each ledger row: when its transaction began
    projection,     \* credit_balances: the entries it sums and its threshold
    alerts,         \* CreditsLow and CreditsExhausted, in the order published
    clock,          \* the transactions begun so far
    crashes,        \* the callers lost so far
    authLock,       \* who holds the organization's authorization lock
    tx              \* the transaction each client is in

committed == <<holds, due, ledger, outbox, createdAt, projection, alerts>>
txVars == <<committed, clock, crashes, authLock, tx>>

(* A row of credit_balances; no keys is no row, as on day one. *)
Row(keys, threshold) == [keys |-> keys, threshold |-> threshold]

(***************************************************************************)
(* A transaction: the statement it is at, when it began, the rows a sweep  *)
(* has still to visit, the holds it wrote or locked, the entry it          *)
(* inserted, the entries its balance counts, the threshold it wrote, and   *)
(* the events it published: about each hold, and about the threshold.      *)
(***************************************************************************)
Idle == [at |-> "idle", request |-> [op |-> "none"], start |-> 0, todo |-> <<>>,
         rows |-> [r \in {} |-> NoHold], entry |-> {}, counted |-> {}, threshold |-> {},
         events |-> [r \in Runs |-> <<>>], alert |-> <<>>]

TxInit ==
    /\ Init
    /\ createdAt = [k \in Keys |-> 0]
    /\ projection = Row({}, "ok")
    /\ alerts = <<>>
    /\ clock = 0
    /\ crashes = 0
    /\ authLock = {}
    /\ tx = [c \in Clients |-> Idle]

-----------------------------------------------------------------------------
(* What a transaction sees and what it must wait for.                      *)

Req(c) == tx[c].request

(* The holds as c sees them: the committed rows and its own writes. *)
View(c) == [r \in Runs |-> IF r \in DOMAIN tx[c].rows THEN tx[c].rows[r] ELSE holds[r]]

CommittedKeys == {k \in Keys : ledger[k] # NoEntry}

RowOwners(c, r) == {d \in Clients \ {c} : r \in DOMAIN tx[d].rows}

(* The transaction c waits for at its next statement, if any. *)
Blockers(c) ==
    CASE tx[c].at = "lock" -> authLock \ {c}
      [] tx[c].at = "sweep row" -> RowOwners(c, Head(tx[c].todo))
      [] tx[c].at = "insert hold" -> RowOwners(c, Req(c).run)
      [] tx[c].at = "lock hold" /\ holds[Req(c).run] # NoHold -> RowOwners(c, Req(c).run)
      [] tx[c].at = "close" /\ holds[Req(c).run].state = "held" -> RowOwners(c, Req(c).run)
      [] tx[c].at = "append" -> {d \in Clients \ {c} : tx[d].entry = {Req(c).key}}
      [] tx[c].at = "upsert" -> {d \in Clients \ {c} : tx[d].threshold # {}}
      [] OTHER -> {}

(* c is at statement s, and nothing it needs is locked. *)
At(c, s) == tx[c].at = s /\ Blockers(c) = {}

Step(c, next) == tx' = [tx EXCEPT ![c] = next]

Goto(c, s) == Step(c, [tx[c] EXCEPT !.at = s])

(* Rolling back undoes every write and frees every lock of c. *)
Rollback(c) ==
    /\ Step(c, Idle)
    /\ authLock' = authLock \ {c}
    /\ UNCHANGED committed

(* Writing hold h of run r in c's transaction; said is the event published. *)
Wrote(t, r, h, said) ==
    [t EXCEPT !.rows = [x \in DOMAIN t.rows \cup {r} |-> IF x = r THEN h ELSE t.rows[x]],
              !.events = [t.events EXCEPT ![r] = t.events[r] \o said]]

FirstStatement(op) ==
    CASE op = "authorize" -> "lock"
      [] op \in {"expire", "releaseOpen"} -> "sweep"
      [] op = "consume" -> "lock hold"
      [] op \in {"close", "append"} -> op

Begin(c) ==
    /\ tx[c].at = "idle"
    /\ clock < MaxTx
    /\ clock' = clock + 1
    /\ \E q \in Requests[c] :
          Step(c, [Idle EXCEPT !.at = FirstStatement(q.op), !.request = q, !.start = clock + 1])
    /\ UNCHANGED <<committed, crashes, authLock>>

(* Mutant of AcquireAuthorizeLock: a lock that is not the organization's. *)
AcquireSomeLock(c) ==
    /\ tx[c].at = "lock"
    /\ authLock' = authLock \cup {c}
    /\ Goto(c, "sweep")
    /\ UNCHANGED <<committed, clock, crashes>>

(* AUTHORIZE_LOCK_SQL: one authorization per organization at a time. *)
AcquireAuthorizeLock(c) ==
    /\ At(c, "lock")
    /\ authLock' = {c}
    /\ Goto(c, "sweep")
    /\ UNCHANGED <<committed, clock, crashes>>

-----------------------------------------------------------------------------
(* EXPIRE_HOLDS_SQL and RELEASE_OPEN_HOLDS_SQL: one UPDATE over many rows. *)

Selected(c) ==
    {r \in OpenIn(View(c)) :
        IF Req(c).op = "releaseOpen" THEN WorkspaceOf[r] \in Req(c).workspaces ELSE r \in due}

SweepState(c) == IF Req(c).op = "releaseOpen" THEN "released" ELSE "expired"

AfterSweep(c) == IF Req(c).op = "authorize" THEN "find hold" ELSE "commit"

(***************************************************************************)
(* The UPDATE's snapshot picks the rows; which index the planner scans     *)
(* decides the order in which it then locks them.                          *)
(***************************************************************************)
StartSweep(c) ==
    /\ At(c, "sweep")
    /\ \E order \in SetToSeqs(Selected(c)) :
          Step(c, [tx[c] EXCEPT !.todo = order,
                                !.at = IF order = <<>> THEN AfterSweep(c) ELSE "sweep row"])
    /\ UNCHANGED <<committed, clock, crashes, authLock>>

(* A row someone closed in the meantime no longer matches and is skipped. *)
SweepRow(c) ==
    /\ At(c, "sweep row")
    /\ LET r == Head(tx[c].todo)
           h == [View(c)[r] EXCEPT !.state = SweepState(c)]
           t == IF View(c)[r].state = "held"
                THEN Wrote(tx[c], r, h, <<EventOf[h.state]>>)
                ELSE tx[c]
           rest == Tail(tx[c].todo)
       IN Step(c, [t EXCEPT !.todo = rest, !.at = IF rest = <<>> THEN AfterSweep(c) ELSE "sweep row"])
    /\ UNCHANGED <<committed, clock, crashes, authLock>>

-----------------------------------------------------------------------------
(* authorizeSpend after its lock and its sweep.                            *)

(* A run that has a hold converges on it, whatever became of the hold. *)
FindHold(c) ==
    /\ At(c, "find hold")
    /\ Goto(c, IF View(c)[Req(c).run] # NoHold THEN "commit" ELSE "read projection")
    /\ UNCHANGED <<committed, clock, crashes, authLock>>

(* readBalance: the projection row, *)
ReadProjection(c) ==
    /\ At(c, "read projection")
    /\ Step(c, [tx[c] EXCEPT !.counted = projection.keys, !.at = "probe"])
    /\ UNCHANGED <<committed, clock, crashes, authLock>>

(* the newest entry the row sums, *)
ThroughAt(keys) == Max({createdAt[k] : k \in keys})

(* of which the watermark has the whole milliseconds only, being a Date, *)
Watermark(keys) == (ThroughAt(keys) \div Millisecond) * Millisecond

(* and any entry past it, or any at all without a row, is a stale model, *)
Stale(keys) ==
    IF keys = {} THEN CommittedKeys # {}
                 ELSE \E k \in CommittedKeys : createdAt[k] > Watermark(keys)

ProbeStale(c) ==
    /\ At(c, "probe")
    /\ Goto(c, IF Stale(tx[c].counted) \/ tx[c].counted = {} THEN "aggregate" ELSE "sum holds")
    /\ UNCHANGED <<committed, clock, crashes, authLock>>

(* for which the ledger itself is aggregated, *)
AggregateLedger(c) ==
    /\ At(c, "aggregate")
    /\ Step(c, [tx[c] EXCEPT !.counted = CommittedKeys, !.at = "sum holds"])
    /\ UNCHANGED <<committed, clock, crashes, authLock>>

(* The ledger cut down to the entries a balance counts. *)
Counting(keys, l) == [k \in Keys |-> IF k \in keys THEN l[k] ELSE NoEntry]

(* Mutant of SumOpenHolds: too little left over is waited for, not refused. *)
SumOpenHoldsUntilEnough(c) ==
    /\ At(c, "sum holds")
    /\ Req(c).amount <= Available(View(c), Counting(tx[c].counted, ledger))
    /\ Goto(c, "insert hold")
    /\ UNCHANGED <<committed, clock, crashes, authLock>>

(***************************************************************************)
(* and the holds are summed last, by a statement of its own.  Too little   *)
(* left over is InsufficientCreditsError, thrown, so the sweep is undone.  *)
(***************************************************************************)
SumOpenHolds(c) ==
    /\ At(c, "sum holds")
    /\ IF Req(c).amount <= Available(View(c), Counting(tx[c].counted, ledger))
       THEN Goto(c, "insert hold") /\ UNCHANGED <<committed, authLock>>
       ELSE Rollback(c)
    /\ UNCHANGED <<clock, crashes>>

(* INSERT_HOLD_SQL.  On conflict the raced winner is returned as it stands. *)
InsertHold(c) ==
    /\ At(c, "insert hold")
    /\ LET r == Req(c).run
           h == [state |-> "held", amount |-> Req(c).amount, consumed |-> 0]
           t == IF View(c)[r] = NoHold
                THEN Wrote(tx[c], r, h, <<EventOf["held"]>>)
                ELSE tx[c]
       IN Step(c, [t EXCEPT !.at = "commit"])
    /\ UNCHANGED <<committed, clock, crashes, authLock>>

-----------------------------------------------------------------------------
(* recordConsumption; append, which grants and refunds use directly.       *)

(* Mutant of LockHold: a plain SELECT. *)
ReadHold(c) ==
    /\ tx[c].at = "lock hold"
    /\ LET r == Req(c).run
       IN IF holds[r] = NoHold
          THEN Rollback(c)
          ELSE /\ Step(c, [Wrote(tx[c], r, holds[r], <<>>) EXCEPT !.at = "find charge"])
               /\ UNCHANGED <<committed, authLock>>
    /\ UNCHANGED <<clock, crashes>>

(* SELECT ... FOR UPDATE.  No hold is HoldNotFound; a closed one is locked. *)
LockHold(c) ==
    /\ At(c, "lock hold")
    /\ LET r == Req(c).run
       IN IF holds[r] = NoHold
          THEN Rollback(c)
          ELSE /\ Step(c, [Wrote(tx[c], r, holds[r], <<>>) EXCEPT !.at = "find charge"])
               /\ UNCHANGED <<committed, authLock>>
    /\ UNCHANGED <<clock, crashes>>

(***************************************************************************)
(* A key in the ledger is a retry and converges before the bound is looked *)
(* at.  assertFitsWithinHold refuses a closed hold and a charge too large. *)
(***************************************************************************)
FindCharge(c) ==
    /\ At(c, "find charge")
    /\ LET h == View(c)[Req(c).run]
           retried == ledger[Req(c).key] # NoEntry
           fits == h.state = "held" /\ Req(c).amount <= h.amount - h.consumed
       IN IF retried \/ fits
          THEN /\ Goto(c, IF retried THEN "commit" ELSE "append")
               /\ UNCHANGED <<committed, authLock>>
          ELSE Rollback(c)
    /\ UNCHANGED <<clock, crashes>>

(***************************************************************************)
(* INSERT_ENTRY_SQL waits for an insert of the same key in flight, and     *)
(* converges if that one committed.  A consumption that is new advances    *)
(* the hold it has locked (ADVANCE_CONSUMED_SQL) before anyone can look.   *)
(***************************************************************************)
AppendEntry(c) ==
    /\ At(c, "append")
    /\ LET q == Req(c)
           charge == q.op = "consume"
           h == View(c)[q.run]
           new == [tx[c] EXCEPT !.entry = {q.key}, !.at = IF charge THEN "reaggregate" ELSE "commit"]
       IN IF ledger[q.key] # NoEntry
          THEN Goto(c, "commit")
          ELSE Step(c, IF charge
                       THEN Wrote(new, q.run, [h EXCEPT !.consumed = h.consumed + q.amount], <<>>)
                       ELSE new)
    /\ UNCHANGED <<committed, clock, crashes, authLock>>

EntryOf(q) ==
    IF q.op = "consume" THEN NewEntry("consumption", "debit", q.amount, q.run)
                        ELSE NewEntry(q.movement[1], q.movement[2], q.amount, NoRun)

(* projectBalance: aggregate again, its own entry included, *)
ReaggregateLedger(c) ==
    /\ At(c, "reaggregate")
    /\ Step(c, [tx[c] EXCEPT !.counted = CommittedKeys \cup tx[c].entry, !.at = "upsert"])
    /\ UNCHANGED <<committed, clock, crashes, authLock>>

ThresholdOf(balance) ==
    CASE balance <= 0 -> "exhausted"
      [] balance > 0 /\ balance <= LowThreshold -> "low"
      [] OTHER -> "ok"

(* Mutant of UpsertProjection: the threshold is compared without waiting. *)
UpsertWithoutWaiting(c) ==
    /\ tx[c].at = "upsert"
    /\ LET seen == [k \in Keys |-> IF k \in tx[c].entry THEN EntryOf(Req(c)) ELSE ledger[k]]
           s == ThresholdOf(Balance(Counting(tx[c].counted, seen)))
       IN Step(c, [tx[c] EXCEPT !.threshold = {s},
                                !.alert = IF s \in {projection.threshold, "ok"} THEN <<>> ELSE <<s>>,
                                !.at = "commit"])
    /\ UNCHANGED <<committed, clock, crashes, authLock>>

(***************************************************************************)
(* then overwrite the row, which waits for any projection in flight and    *)
(* returns the threshold that one left.  Only a change away from it, and   *)
(* not back to ok, is announced.                                           *)
(***************************************************************************)
UpsertProjection(c) ==
    /\ At(c, "upsert")
    /\ LET seen == [k \in Keys |-> IF k \in tx[c].entry THEN EntryOf(Req(c)) ELSE ledger[k]]
           s == ThresholdOf(Balance(Counting(tx[c].counted, seen)))
       IN Step(c, [tx[c] EXCEPT !.threshold = {s},
                                !.alert = IF s \in {projection.threshold, "ok"} THEN <<>> ELSE <<s>>,
                                !.at = "commit"])
    /\ UNCHANGED <<committed, clock, crashes, authLock>>

(* settle and release.  A hold already terminal is reported as it is. *)
CloseRow(c) ==
    /\ At(c, "close")
    /\ LET r == Req(c).run
           h == [View(c)[r] EXCEPT !.state = Req(c).state]
           t == IF View(c)[r].state = "held"
                THEN Wrote(tx[c], r, h, <<EventOf[h.state]>>)
                ELSE tx[c]
       IN IF View(c)[r] = NoHold
          THEN Rollback(c)
          ELSE Step(c, [t EXCEPT !.at = "commit"]) /\ UNCHANGED <<committed, authLock>>
    /\ UNCHANGED <<clock, crashes>>

-----------------------------------------------------------------------------

(* Everything written becomes visible at once, the events with it. *)
Commit(c) ==
    LET t == tx[c] IN
    /\ At(c, "commit")
    /\ holds' = View(c)
    /\ ledger' = [k \in Keys |-> IF k \in t.entry THEN EntryOf(t.request) ELSE ledger[k]]
    /\ createdAt' = [k \in Keys |-> IF k \in t.entry THEN t.start ELSE createdAt[k]]
    /\ outbox' = [r \in Runs |-> outbox[r] \o t.events[r]]
    /\ projection' = IF t.threshold = {} THEN projection
                     ELSE Row(t.counted, CHOOSE s \in t.threshold : TRUE)
    /\ alerts' = alerts \o t.alert
    /\ Step(c, Idle)
    /\ authLock' = authLock \ {c}
    /\ UNCHANGED <<due, clock, crashes>>

(* The caller's process dies; the server rolls its transaction back. *)
Crash(c) ==
    /\ tx[c].at # "idle"
    /\ crashes < MaxCrashes
    /\ crashes' = crashes + 1
    /\ Rollback(c)
    /\ UNCHANGED clock

(* Two sweeps that lock in different orders wait in a circle. *)
InACircle(c) ==
    \E S \in SUBSET Clients :
        /\ c \in S
        /\ \A d \in S : Blockers(d) \cap S # {} /\ \E e \in S : d \in Blockers(e)

(* The server's deadlock detector breaks the circle anywhere. *)
DeadlockVictim(c) ==
    /\ InACircle(c)
    /\ Rollback(c)
    /\ UNCHANGED <<clock, crashes>>

(* The clock passes a hold's expires_at, as in CreditHolds. *)
HoldFallsDue(r) ==
    /\ TtlElapses(r)
    /\ UNCHANGED <<createdAt, projection, alerts, clock, crashes, authLock, tx>>

(* Nothing in flight, and no transaction left to begin. *)
Finished ==
    /\ clock = MaxTx
    /\ \A c \in Clients : tx[c].at = "idle"
    /\ UNCHANGED txVars

Statement(c) ==
    \/ AcquireAuthorizeLock(c) \/ StartSweep(c) \/ SweepRow(c) \/ FindHold(c)
    \/ ReadProjection(c) \/ ProbeStale(c) \/ AggregateLedger(c) \/ SumOpenHolds(c)
    \/ InsertHold(c) \/ LockHold(c) \/ FindCharge(c) \/ AppendEntry(c)
    \/ ReaggregateLedger(c) \/ UpsertProjection(c) \/ CloseRow(c)
    \/ Commit(c) \/ DeadlockVictim(c)

TxNext ==
    \/ \E c \in Clients : Begin(c) \/ Statement(c) \/ Crash(c)
    \/ \E r \in Runs : HoldFallsDue(r)
    \/ Finished

(* A statement that is not waiting runs; no caller is obliged to call. *)
TxSpec == TxInit /\ [][TxNext]_txVars /\ \A c \in Clients : WF_txVars(Statement(c))

-----------------------------------------------------------------------------

Locations ==
    {"idle", "lock", "sweep", "sweep row", "find hold", "read projection", "probe", "aggregate",
     "sum holds", "insert hold", "lock hold", "find charge", "append", "reaggregate", "upsert",
     "close", "commit"}

Thresholds == {"ok", "low", "exhausted"}

(* Rows have their tables' shape; a transaction writes only what is its own. *)
TxTypeOK ==
    /\ TypeOK
    /\ createdAt \in [Keys -> 0..MaxTx]
    /\ projection \in [keys : SUBSET Keys, threshold : Thresholds]
    /\ alerts \in Seq(Thresholds \ {"ok"})
    /\ clock \in 0..MaxTx /\ crashes \in 0..MaxCrashes
    /\ authLock \subseteq Clients /\ Cardinality(authLock) <= 1
    /\ \A c \in Clients :
          /\ tx[c].at \in Locations
          /\ DOMAIN tx[c].rows \subseteq Runs
          /\ tx[c].entry \subseteq Keys /\ Cardinality(tx[c].entry) <= 1
          /\ tx[c].threshold \subseteq Thresholds

(***************************************************************************)
(* However the statements of concurrent calls interleave, wait, time out   *)
(* or are lost with their caller, what commits is what the calls would     *)
(* have done one at a time, in some order: CreditHolds.                    *)
(***************************************************************************)
ImplementsCreditHolds == Spec

(***************************************************************************)
(* "CreditsLow/CreditsExhausted on transition": the recorded threshold     *)
(* leaves for a state worth announcing exactly when that is announced,     *)
(* even when two consumptions project the balance at once.                 *)
(***************************************************************************)
AlertOnTransition ==
    [][alerts' = IF projection'.threshold \in {projection.threshold, "ok"}
                 THEN alerts
                 ELSE Append(alerts, projection'.threshold)]_<<projection, alerts>>

(***************************************************************************)
(* Every call is answered: no lock is stranded by a refusal, a lost caller *)
(* or a circle of waits.                                                   *)
(***************************************************************************)
EveryTransactionEnds == \A c \in Clients : tx[c].at # "idle" ~> tx[c].at = "idle"

(***************************************************************************)
(* "Every read compares the projection's watermark against the ledger      *)
(* BEFORE trusting it": a balance row that passes the staleness probe sums *)
(* every committed entry.                                                  *)
(***************************************************************************)
StaleProjectionIsDetected ==
    projection.keys = {} \/ Stale(projection.keys) \/ projection.keys = CommittedKeys
=============================================================================
