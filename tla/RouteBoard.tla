------------------------------ MODULE RouteBoard ------------------------------
(***************************************************************************)
(* What the delivery service promises a driver: the orders that are out    *)
(* are out on a route that is under way.  A route is dispatched with its   *)
(* orders, the routes it replaces and the routes that are closed give all  *)
(* of theirs back, and an order leaves its route by itself.                *)
(***************************************************************************)
CONSTANTS
  Orders,   \* delivery orders
  Routes,   \* routes
  NoRoute   \* the route of an order that is not out

VARIABLES
  live,     \* the routes under way
  board     \* the route each order is out on

BoardInit ==
  /\ live = {}
  /\ board = [o \in Orders |-> NoRoute]

\* A route r starts with the orders S; the routes in gone end with it.
Dispatch(r, S, gone) ==
  /\ r \in Routes \ live
  /\ gone \subseteq Routes \ {r}
  /\ live' = (live \ gone) \cup {r}
  /\ board' = [o \in Orders |-> IF o \in S THEN r
                                ELSE IF board[o] \in gone THEN NoRoute ELSE board[o]]

\* A route ends and gives back every order that is still out on it.
Close(r) ==
  /\ live' = live \ {r}
  /\ board' = [o \in Orders |-> IF board[o] = r THEN NoRoute ELSE board[o]]

\* Orders are no longer out: delivered, completed, skipped or removed.
Leave(S) ==
  /\ board' = [o \in Orders |-> IF o \in S THEN NoRoute ELSE board[o]]
  /\ UNCHANGED live

BoardNext ==
  \/ \E r \in Routes, S \in SUBSET Orders, gone \in SUBSET Routes : Dispatch(r, S, gone)
  \/ \E r \in Routes : Close(r)
  \/ \E S \in SUBSET Orders : Leave(S)

BoardSpec == BoardInit /\ [][BoardNext]_<<live, board>>
=============================================================================
