------------------------------- MODULE Delivery -------------------------------
(***************************************************************************)
(* Delivery orders and the routes they are taken out on: the requests of   *)
(* staff and drivers, Square's webhooks and the order pull, the generation *)
(* of routes, the nightly job that finishes forgotten routes and the       *)
(* weekly one that deletes old ones.                                       *)
(*                                                                         *)
(* Most of them read a row, await something and then write the row by its  *)
(* id: each is an operation of a worker, between whose steps the others    *)
(* run.  A transaction's first statement locks the rows it changed.        *)
(***************************************************************************)
EXTENDS FiniteSets, Naturals

CONSTANTS
  Orders,    \* delivery orders
  SquareOrders, \* those that were placed at Square; the others are entered by hand
  Routes,    \* routes: bounds how many are kept at a time
  NoRoute,   \* route_id NULL
  Workers,   \* requests, webhooks and jobs under way at a time
  HeldBack   \* the sets of orders staff may hold back from a route: excludeOrderIds

ASSUME SquareAssumption == SquareOrders \subseteq Orders
ASSUME RouteAssumption == NoRoute \notin Routes
ASSUME HeldAssumption == HeldBack \subseteq SUBSET Orders
ASSUME RoutesAssumption == IsFiniteSet(Routes) /\ IsFiniteSet(Workers)

VARIABLES
  rows,      \* delivery_orders
  routes,    \* delivery_routes: the status of each
  square,    \* the state Square last gave the order or its fulfilment
  ops        \* what each worker has read and is about to do

vars == <<rows, routes, square, ops>>
-----------------------------------------------------------------------------
Statuses == {"none", "pending", "active", "skipped", "delivered", "completed"}
Row      == [status : Statuses, route : Routes \cup {NoRoute}]
NoRow    == [status |-> "none", route |-> NoRoute]
Pending  == [status |-> "pending", route |-> NoRoute]

\* What a worker may have ahead of it: the write of a status, the removal or the insertion
\* of a row, and the two steps of the transactions that start and that end a route.
Writes == {"skipped", "delivered", "completed"}
Steps  == {"idle", "remove", "add", "addDone",
           "generate", "dispatch", "finish", "release"} \cup Writes
Op     == [do : Steps, orders : SUBSET Orders, route : Routes \cup {NoRoute},
           locked : SUBSET Orders]
Idle   == [do |-> "idle", orders |-> {}, route |-> NoRoute, locked |-> {}]

TypeOK ==
  /\ rows \in [Orders -> Row]
  /\ routes \in [Routes -> {"unused", "active", "finished", "cancelled"}]
  /\ square \in [SquareOrders -> {"OPEN", "COMPLETED", "CANCELED"}]
  /\ ops \in [Workers -> Op]

Init ==
  /\ rows = [o \in Orders |-> NoRow]
  /\ routes = [r \in Routes |-> "unused"]
  /\ square = [o \in SquareOrders |-> "OPEN"]
  /\ ops = [w \in Workers |-> Idle]

Exists(o)   == rows[o].status # "none"
OnRoute(r)  == {o \in Orders : r # NoRoute /\ rows[o].route = r}
ActiveRoutes == {r \in Routes : routes[r] = "active"}
\* Rows another transaction has changed and not yet committed.
Locked(w)   == UNION {ops[v].locked : v \in Workers \ {w}}
AllLocked   == UNION {ops[v].locked : v \in Workers}

Begin(w, do, S, r) ==
  /\ ops[w].do = "idle"
  /\ ops' = [ops EXCEPT ![w] = [do |-> do, orders |-> S, route |-> r, locked |-> {}]]

End(w) == ops' = [ops EXCEPT ![w] = Idle]

\* An operation whose rows are deleted finds none of their ids when it writes: one on a
\* single row changes nothing any more.
Without(op, S) ==
  IF op.do \in {"add", "addDone"} THEN op
  ELSE IF op.do \in Writes \cup {"remove"} /\ op.orders \subseteq S THEN Idle
  ELSE [op EXCEPT !.orders = @ \ S]

Forget(w, S) == ops' = [v \in Workers |-> IF v = w THEN Idle ELSE Without(ops[v], S)]
-----------------------------------------------------------------------------
(* Orders. *)

CreateOrder(o) ==
  /\ o \in Orders \ SquareOrders
  /\ ~ Exists(o)
  /\ rows' = [rows EXCEPT ![o] = Pending]
  /\ UNCHANGED <<routes, square, ops>>

\* One statement, by a worker that has nothing else to do.
DeleteOrder(w, o) ==
  /\ o \in Orders \ SquareOrders
  /\ rows[o].status \in {"pending", "active", "skipped"}
  /\ o \notin Locked(w)
  /\ ops[w].do = "idle"
  /\ rows' = [rows EXCEPT ![o] = NoRow]
  /\ Forget(w, {o})
  /\ UNCHANGED <<routes, square>>

\* Mutant: any order may be skipped (BUG-006).
SkipAny(w, o) ==
  /\ Exists(o)
  /\ Begin(w, "skipped", {o}, NoRoute)
  /\ UNCHANGED <<rows, routes, square>>

SkipRead(w, o) ==
  /\ rows[o].status = "active"
  /\ Begin(w, "skipped", {o}, NoRoute)
  /\ UNCHANGED <<rows, routes, square>>

\* A photo of an order on a route will mark it delivered; of any other it is only kept.
PodRead(w, o) ==
  /\ rows[o].status = "active"
  /\ Begin(w, "delivered", {o}, NoRoute)
  /\ UNCHANGED <<rows, routes, square>>

\* By staff or by a driver; that staff complete it in Square first is a SquareChange.
CompleteRead(w, o) ==
  /\ rows[o].status \in {"active", "delivered", "skipped"}
  /\ Begin(w, "completed", {o}, NoRoute)
  /\ UNCHANGED <<rows, routes, square>>

\* updateOrder: by id, whatever the status is by now.
StatusWrite(w) ==
  /\ ops[w].do \in Writes
  /\ ops[w].orders \cap Locked(w) = {}
  /\ rows' = [o \in Orders |-> IF o \in ops[w].orders
                               THEN [rows[o] EXCEPT !.status = ops[w].do] ELSE rows[o]]
  /\ End(w)
  /\ UNCHANGED <<routes, square>>
-----------------------------------------------------------------------------
(* Square: its order changes, and webhooks report any state it has been in, late or   *)
(* again; the pull of recent orders and the fulfilment webhook read the present one.  *)

SquareChange(o) ==
  /\ square[o] = "OPEN"
  /\ \E s \in {"COMPLETED", "CANCELED"} : square' = [square EXCEPT ![o] = s]
  /\ UNCHANGED <<rows, routes, ops>>

IngestRead(w, o, state) ==
  /\ state \in {"OPEN", square[o]}
  /\ \/ /\ ~ Exists(o)
        /\ Begin(w, IF state = "COMPLETED" THEN "addDone" ELSE "add", {o}, NoRoute)
     \/ /\ Exists(o) /\ state = "COMPLETED" /\ rows[o].status # "completed"
        /\ Begin(w, "completed", {o}, NoRoute)
  /\ UNCHANGED <<rows, routes, square>>

\* createOrder: a row that came in the meantime keeps its status.
IngestWrite(w) ==
  /\ ops[w].do \in {"add", "addDone"}
  /\ rows' = [o \in Orders |->
                IF o \in ops[w].orders /\ ~ Exists(o)
                THEN [Pending EXCEPT !.status = IF ops[w].do = "add" THEN @ ELSE "completed"]
                ELSE rows[o]]
  /\ End(w)
  /\ UNCHANGED <<routes, square>>

OrderUpdateRead(w, o) ==
  /\ Exists(o) /\ rows[o].status # "completed"
  /\ \/ square[o] = "COMPLETED" /\ Begin(w, "completed", {o}, NoRoute)
     \/ square[o] = "CANCELED" /\ Begin(w, "remove", {o}, NoRoute)
  /\ UNCHANGED <<rows, routes, square>>

Remove(w) ==
  /\ ops[w].do = "remove"
  /\ ops[w].orders \cap Locked(w) = {}
  /\ rows' = [o \in Orders |-> IF o \in ops[w].orders THEN NoRow ELSE rows[o]]
  /\ Forget(w, ops[w].orders)
  /\ UNCHANGED <<routes, square>>
-----------------------------------------------------------------------------
(* Routes. *)

\* Orders skipped on a route that is over wait again.
Requeued(o) ==
  IF rows[o].status = "skipped" /\ rows[o].route \notin ActiveRoutes THEN Pending ELSE rows[o]

\* The orders "id != ANY(held)" leaves of P.
NotHeld(P, held) == {o \in P : held = {} \/ \E h \in held : o # h}

Generating == {w \in Workers : ops[w].do \in {"generate", "dispatch"}}
Unused     == {r \in Routes : routes[r] = "unused"}

\* generateRoute up to the call that optimises it: P is the geocoded orders asked for,
\* old the active route of the day asked for, if there is one, that force replaces; any
\* active route may be of that day or of another.
GenerateRead(w, P, held) ==
  /\ ops[w].do = "idle"
  /\ Cardinality(Generating) < Cardinality(Unused)
  /\ rows' = [o \in Orders |-> Requeued(o)]
  /\ P \subseteq {o \in Orders : rows'[o].status = "pending"}
  /\ \E old \in ActiveRoutes \cup {NoRoute} :
       IF NotHeld(P, held) = {} THEN UNCHANGED ops
       ELSE Begin(w, "generate", NotHeld(P, held), old)
  /\ UNCHANGED <<routes, square>>

\* Mutant: a route with orders still out cannot be finished.
FinishEmpty(w, r) ==
  /\ routes[r] = "active" /\ \A o \in OnRoute(r) : rows[o].status # "active"
  /\ Begin(w, "finish", {}, r)
  /\ UNCHANGED <<rows, routes, square>>

\* finishRoute by staff or a driver, and autoFinishStaleRoutes, which lists the active
\* routes of earlier days and then finishes each without looking at it again.
FinishRead(w, r) ==
  /\ routes[r] = "active"
  /\ Begin(w, "finish", {}, r)
  /\ UNCHANGED <<rows, routes, square>>

\* The first statement of a transaction that ends a route completes its delivered orders.
Promote(w) ==
  LET r == ops[w].route
      S == {o \in OnRoute(r) : rows[o].status = "delivered"}
  IN /\ ops[w].do \in {"generate", "finish"}
     /\ S \cap Locked(w) = {}
     /\ rows' = [o \in Orders |-> IF o \in S THEN [rows[o] EXCEPT !.status = "completed"]
                                  ELSE rows[o]]
     /\ ops' = [ops EXCEPT ![w].do = IF @ = "generate" THEN "dispatch" ELSE "release",
                           ![w].locked = S]
     /\ UNCHANGED <<routes, square>>

\* Mutant: only the skipped orders wait again (BUG-001).
ReleasedSkipped(o, r) ==
  IF o \in OnRoute(r) /\ rows[o].status = "skipped" THEN Pending ELSE rows[o]

\* The others of the route wait again.
Released(o, r) ==
  IF o \in OnRoute(r) /\ rows[o].status \in {"active", "skipped"}
  THEN Pending ELSE rows[o]

Release(w) ==
  LET r == ops[w].route
  IN /\ ops[w].do = "release"
     /\ OnRoute(r) \cap Locked(w) = {}
     /\ rows' = [o \in Orders |-> Released(o, r)]
     /\ routes' = [q \in Routes |-> IF q = r THEN "finished" ELSE routes[q]]
     /\ End(w)
     /\ UNCHANGED square

\* The route is recorded and its orders put on it, whatever has become of them.
Dispatch(w, r) ==
  LET old == ops[w].route
  IN /\ ops[w].do = "dispatch"
     /\ routes[r] = "unused"
     /\ (ops[w].orders \cup OnRoute(old)) \cap Locked(w) = {}
     /\ rows' = [o \in Orders |->
                   IF o \in ops[w].orders THEN [status |-> "active", route |-> r]
                   ELSE Released(o, old)]
     /\ routes' = [q \in Routes |-> IF q = r THEN "active"
                                    ELSE IF q = old THEN "cancelled" ELSE routes[q]]
     /\ End(w)
     /\ UNCHANGED square

\* cleanupOldRoutes: an old route goes with its orders; the rest lose their route.
Retire(r) ==
  LET S == {o \in OnRoute(r) : rows[o].status \in {"completed", "delivered", "skipped"}}
  IN /\ routes[r] \in {"finished", "cancelled"}
     /\ OnRoute(r) \cap AllLocked = {}
     /\ rows' = [o \in Orders |-> IF o \in S THEN NoRow
                                  ELSE IF rows[o].route = r THEN [rows[o] EXCEPT !.route = NoRoute]
                                  ELSE rows[o]]
     /\ routes' = [routes EXCEPT ![r] = "unused"]
     /\ ops' = [v \in Workers |->
                  [Without(ops[v], S) EXCEPT !.route = IF @ = r THEN NoRoute ELSE @]]
     /\ UNCHANGED square
-----------------------------------------------------------------------------
OrderNext ==
  \/ \E o \in Orders : CreateOrder(o)
  \/ \E w \in Workers, o \in Orders :
       DeleteOrder(w, o) \/ SkipRead(w, o) \/ PodRead(w, o) \/ CompleteRead(w, o)
  \/ \E w \in Workers : StatusWrite(w)

SquareNext ==
  \/ \E o \in SquareOrders : SquareChange(o)
  \/ \E w \in Workers, o \in SquareOrders :
       \/ \E state \in {"OPEN", "COMPLETED", "CANCELED"} : IngestRead(w, o, state)
       \/ OrderUpdateRead(w, o)
  \/ \E w \in Workers : IngestWrite(w) \/ Remove(w)

RouteNext ==
  \/ \E w \in Workers, P \in SUBSET Orders, held \in HeldBack : GenerateRead(w, P, held)
  \/ \E w \in Workers, r \in Routes : FinishRead(w, r) \/ Dispatch(w, r)
  \/ \E w \in Workers : Promote(w) \/ Release(w)
  \/ \E r \in Routes : Retire(r)

Next == OrderNext \/ SquareNext \/ RouteNext

\* What was started ends; the nightly job finds a route active on every night after the
\* route's own day, as requests come and go.
Fairness ==
  /\ \A w \in Workers :
       WF_vars(StatusWrite(w) \/ IngestWrite(w) \/ Remove(w) \/ Promote(w) \/ Release(w)
               \/ \E r \in Routes : Dispatch(w, r))
  /\ \A r \in Routes : SF_vars(\E w \in Workers : FinishRead(w, r))

Spec == Init /\ [][Next]_vars /\ Fairness
-----------------------------------------------------------------------------

(* Properties. *)

\* An order that is out is out on a route that is under way: finishing a route, forcing a
\* new one, the nightly job and the retention job all leave no order marked active on a
\* route that is over (BUG-001 and BUG-002 of delivery-routes.js), whatever runs between.
ActiveOnRoute ==
  \A o \in Orders : rows[o].status = "active" => rows[o].route \in ActiveRoutes

Board == INSTANCE RouteBoard WITH
           live <- ActiveRoutes,
           board <- [o \in Orders |-> IF rows[o].status = "active" THEN rows[o].route
                                      ELSE NoRoute]

\* The service implements the route board: orders go out only with a route that starts,
\* and every route that ends, however it ends, gives back all that are still out on it.
Promise == Board!BoardSpec

\* Completed, and no worker that read the order before that is still to write it.
Settled(o) ==
  /\ rows[o].status = "completed"
  /\ \A w \in Workers :
       o \in ops[w].orders =>
         ops[w].do \notin {"skipped", "delivered", "remove", "generate", "dispatch"}

\* Once nothing that was under way when it was completed can still write it, a completed
\* order keeps its status whatever is tried on it (BUG-005 and BUG-006 of
\* delivery-orders.js): only the retention job removes it, with the route it was on.
SettledStays ==
  [][\A o \in Orders : Settled(o) =>
       \/ Settled(o)'
       \/ /\ rows'[o] = NoRow
          /\ \E r \in Routes : rows[o].route = r /\ routes[r] \in {"finished", "cancelled"}]_vars

\* No order stays trapped on a route nobody finishes: the nightly job ends the route and
\* the order is free again (BACKLOG-116 of delivery-auto-finish-job.js).
NotTrapped ==
  \A o \in Orders : rows[o].status = "active" ~> rows[o].status # "active"
=============================================================================
