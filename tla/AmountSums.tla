----------------------------- MODULE AmountSums -----------------------------
(***************************************************************************)
(* Exact sums of credit amounts.                                           *)
(*                                                                         *)
(* An amount is an integral number of micro-credits (amount.ts scales      *)
(* NUMERIC(20,6) to a bigint), so the sum of a column over a set of rows   *)
(* is the number of micro-credits those rows hold together.  Counting them *)
(* defines the sum without recursion: each row x of S contributes the      *)
(* pairs <<x, 1>> ... <<x, f[x]>>, and rows never share a pair.            *)
(***************************************************************************)
EXTENDS Integers, FiniteSets

(* The micro-credits of the rows in S, one pair each. *)
Units(S, f) == UNION { {x} \X (1..f[x]) : x \in S }

(* SUM(f) over S; 0 over the empty set, as sumOrZero reads SQL's NULL. *)
Total(S, f) == Cardinality(Units(S, f))
=============================================================================
