------------------------------ MODULE MCDelivery ------------------------------
(* Instances of Delivery for TLC. *)
EXTENDS Delivery

CONSTANTS o1, o2

OneHeld     == {{}, {o1}}
=============================================================================
