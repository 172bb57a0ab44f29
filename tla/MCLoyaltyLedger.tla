--------------------------- MODULE MCLoyaltyLedger ---------------------------
(* Instances of LoyaltyLedger for TLC. *)
EXTENDS LoyaltyLedger, TLC

CONSTANTS o1, o2, v1, v2, u1

Line(item, qty, free) == [item |-> item, qty |-> qty, free |-> free]

\* o1 scans one variation twice and has a free line; o2 crosses the threshold by
\* itself and is exchanged.  A claim without a customer leaves returns without
\* purchases.
MCBasket == o1 :> <<Line(v1, 1, FALSE), Line(v2, 1, TRUE), Line(v1, 1, FALSE)>>
         @@ o2 :> <<Line(v2, 4, FALSE)>>

MCReturns == o1 :> {[item |-> v1, qty |-> 1, ref |-> u1]}
          @@ o2 :> {[item |-> v2, qty |-> 1, ref |-> u1]}

\* Half of what o2 bought comes back.
MCHalfBack == o1 :> {} @@ o2 :> {[item |-> v2, qty |-> 2, ref |-> u1]}

\* Keyed in for a line that was paid for, with another quantity than the order has.
MCManual == {[order |-> o2, item |-> v2, qty |-> 1]}
=============================================================================
