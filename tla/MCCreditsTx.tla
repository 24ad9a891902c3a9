---------------------------- MODULE MCCreditsTx ----------------------------
(* Small organizations for CreditsTx; each .cfg picks its callers. *)
EXTENDS CreditsTx, TLC

CONSTANTS r1, r2, w1, w2, k0, k1, k2, c1, c2

MCWorkspaceOf == (r1 :> w1) @@ (r2 :> w2)

Authorize(r, a) == [op |-> "authorize", run |-> r, amount |-> a]
Consume(r, k, a) == [op |-> "consume", run |-> r, key |-> k, amount |-> a]
Close(r, s) == [op |-> "close", run |-> r, state |-> s]
ExpireStale == [op |-> "expire"]
Suspend(W) == [op |-> "releaseOpen", workspaces |-> W]
Grant(k, a) == [op |-> "append", key |-> k, movement |-> <<"grant", "credit">>, amount |-> a]

Granted(a) == [k \in Keys |-> IF k = k0 THEN NewEntry("grant", "credit", a, NoRun) ELSE NoEntry]

ScarceLedger == Granted(5)

(***************************************************************************)
(* Two orchestrators after credits that cover both runs only once more are *)
(* granted, under the key of a charge.  Each charges and closes its run;   *)
(* the second also retries the first's charge and sweeps what expired.  No *)
(* charge is so large, or authorization so tight, that the two-statement   *)
(* balance (see SpendingRequests) tips the answer.                         *)
(***************************************************************************)
ScarceRequests ==
    (c1 :> {Authorize(r1, 3), Consume(r1, k1, 1), Close(r1, "settled"), Suspend({w1, w2}), Grant(k2, 2)}) @@
    (c2 :> {Authorize(r2, 1), Authorize(r2, 4), Consume(r1, k1, 1), Consume(r2, k2, 1), ExpireStale})

SpendingLedger == Granted(3)

(* A second run starts while the first one is still being charged. *)
SpendingRequests ==
    (c1 :> {Authorize(r1, 2), Authorize(r2, 2)}) @@
    (c2 :> {Consume(r1, k1, 1)})

ChargingLedger == Granted(6)

(* Two runs of one organization charged at the same time. *)
ChargingRequests ==
    (c1 :> {Authorize(r1, 1), Consume(r1, k1, 1)}) @@
    (c2 :> {Authorize(r2, 1), Consume(r2, k2, 1)})
=============================================================================
