------------------------------ MODULE OrderCredit ------------------------------
(***************************************************************************)
(* What loyalty intake promises for one completed order, whoever takes it  *)
(* in and however often it is offered: one verdict, given once and for     *)
(* good, and purchase events exactly when the verdict is that the order    *)
(* qualifies.                                                              *)
(***************************************************************************)
VARIABLES
  claim,   \* loyalty_processed_orders.result_type, "none" without a row
  events   \* the lines recorded in loyalty_purchase_events

Lines    == {"paid", "reward"}
Verdicts == {"qualifying", "non_qualifying", "no_customer", "no_line_items"}

Init == claim = "none" /\ events = {}

Decide ==
  /\ claim = "none"
  /\ claim' \in Verdicts
  /\ events' \in SUBSET Lines
  /\ events' # {} <=> claim' = "qualifying"

Spec == Init /\ [][Decide]_<<claim, events>>
=============================================================================
