------------------------------- MODULE PunchCard -------------------------------
(***************************************************************************)
(* What the loyalty ledger promises a customer, as a punch card: whatever  *)
(* is bought, returned, split, locked and unlocked, each reward that was   *)
(* handed out is paid for with Required units, and the units that pay for  *)
(* none are still on the card.                                             *)
(***************************************************************************)
EXTENDS Integers

CONSTANT Required  \* what a reward costs

VARIABLES
  bought,  \* units bought, less those returned
  free,    \* units that pay for no reward; fewer than none after returns
  held,    \* rewards the customer has
  used     \* rewards the customer has used

Init == bought = 0 /\ free = 0 /\ held = 0 /\ used = 0

\* Units are bought or returned, and rewards are earned, or lost, for what they cost.
Trade ==
  /\ held' \in Nat
  /\ bought' - bought = (free' - free) + Required * (held' - held)
  /\ UNCHANGED used

Use ==
  /\ held > 0
  /\ held' = held - 1
  /\ used' = used + 1
  /\ UNCHANGED <<bought, free>>

\* A reward is used after its expiry was decided: it is taken back, used as it is, and
\* what it cost is free again.
Lapse ==
  /\ used > 0
  /\ used' = used - 1
  /\ free' = free + Required
  /\ UNCHANGED <<bought, held>>

Next == Trade \/ Use \/ Lapse

Spec == Init /\ [][Next]_<<bought, free, held, used>>
=============================================================================
