-------------------------------- MODULE Sums --------------------------------
(***************************************************************************)
(* SUM(column) over the rows of a table, a table being a sequence of rows. *)
(* The sum is a recursive function over the row numbers, and not a fold    *)
(* over a set of rows, because module LoyaltyLedgerProofs proves about it. *)
(***************************************************************************)
EXTENDS Integers, Sequences

SumSeq(v) ==
  LET sum[n \in 0..Len(v)] == IF n = 0 THEN 0 ELSE sum[n - 1] + v[n]
  IN  sum[Len(v)]
=============================================================================
