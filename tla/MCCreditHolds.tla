--------------------------- MODULE MCCreditHolds ---------------------------
(* A small organization for CreditHolds: two workspaces, two runs. *)
EXTENDS CreditHolds, TLC, FiniteSetsExt

CONSTANTS r1, r2, w1, w2

MCOpeningLedger == [k \in Keys |-> NoEntry]

MCWorkspaceOf == (r1 :> w1) @@ (r2 :> w2)

(* Counting units is summing: Total agrees with the library's fold. *)
ASSUME TotalIsSum ==
    \A S \in SUBSET (1..3) : \A f \in [1..3 -> 0..3] :
        Total(S, f) = FoldSet(LAMBDA x, acc : f[x] + acc, 0, S)
=============================================================================
