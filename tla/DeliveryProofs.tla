---------------------------- MODULE DeliveryProofs ----------------------------
(* Proofs about Delivery, for any orders, routes and workers. *)
EXTENDS Delivery, TLAPS

RowsOK == rows \in [Orders -> Row]
OpsOK  == ops \in [Workers -> Op]

LEMMA IdleType == Idle \in Op
BY DEF Idle, Op, Steps

\* Taking up an operation, and ending one.
LEMMA BeginType ==
  ASSUME OpsOK, NEW w \in Workers, NEW do \in Steps, NEW S \in SUBSET Orders,
         NEW r \in Routes \cup {NoRoute}, Begin(w, do, S, r)
  PROVE  OpsOK'
<1>1. [do |-> do, orders |-> S, route |-> r, locked |-> {}] \in Op
  BY DEF Op
<1> QED
  BY <1>1 DEF OpsOK, Begin

LEMMA EndType ==
  ASSUME OpsOK, NEW w \in Workers, End(w)
  PROVE  OpsOK'
BY IdleType DEF OpsOK, End

LEMMA WithoutType ==
  ASSUME NEW op \in Op, NEW S \in SUBSET Orders
  PROVE  Without(op, S) \in Op
<1>1. [op EXCEPT !.orders = @ \ S] \in Op
  BY DEF Op
<1> QED
  BY <1>1, IdleType DEF Without

LEMMA ForgetType ==
  ASSUME OpsOK, NEW w \in Workers, NEW S \in SUBSET Orders, Forget(w, S)
  PROVE  OpsOK'
<1>1. \A v \in Workers : Without(ops[v], S) \in Op
  BY WithoutType DEF OpsOK
<1> QED
  BY <1>1, IdleType DEF OpsOK, Forget

\* The rows the statements write are rows.
LEMMA RowTypes ==
  ASSUME RowsOK, NEW o \in Orders, NEW r
  PROVE  /\ rows[o] \in Row /\ NoRow \in Row /\ Pending \in Row
         /\ Requeued(o) \in Row /\ Released(o, r) \in Row
         /\ \A s \in Statuses : [rows[o] EXCEPT !.status = s] \in Row
         /\ [rows[o] EXCEPT !.route = NoRoute] \in Row
BY DEF RowsOK, Row, NoRow, Pending, Statuses, Requeued, Released

\* What each kind of step does to the types.
LEMMA OrderStepType ==
  ASSUME TypeOK, OrderNext
  PROVE  TypeOK'
<1> USE DEF TypeOK, RowsOK, OpsOK
<1>1. ASSUME NEW o \in Orders, CreateOrder(o) PROVE TypeOK'
  BY <1>1, RowTypes DEF CreateOrder
<1>2. ASSUME NEW w \in Workers, NEW o \in Orders, DeleteOrder(w, o) PROVE TypeOK'
  BY <1>2, RowTypes, ForgetType DEF DeleteOrder
<1>3. ASSUME NEW w \in Workers, NEW o \in Orders, SkipRead(w, o) PROVE TypeOK'
  BY <1>3, BeginType DEF SkipRead, Steps, Writes
<1>4. ASSUME NEW w \in Workers, NEW o \in Orders, PodRead(w, o) PROVE TypeOK'
  BY <1>4, BeginType DEF PodRead, Steps, Writes
<1>5. ASSUME NEW w \in Workers, NEW o \in Orders, CompleteRead(w, o) PROVE TypeOK'
  BY <1>5, BeginType DEF CompleteRead, Steps, Writes
<1>6. ASSUME NEW w \in Workers, StatusWrite(w) PROVE TypeOK'
  <2>1. OpsOK'
    BY <1>6, EndType DEF StatusWrite
  <2>2. ops[w].do \in Statuses
    BY <1>6 DEF StatusWrite, Writes, Statuses
  <2>3. RowsOK'
    BY <1>6, <2>2, RowTypes DEF StatusWrite
  <2> QED
    BY <1>6, <2>1, <2>3 DEF StatusWrite
<1> QED
  BY <1>1, <1>2, <1>3, <1>4, <1>5, <1>6 DEF OrderNext

LEMMA SquareStepType ==
  ASSUME TypeOK, SquareNext
  PROVE  TypeOK'
<1> USE DEF TypeOK, RowsOK, OpsOK
<1>0. SquareOrders \subseteq Orders
  BY SquareAssumption
<1>1. ASSUME NEW o \in SquareOrders, SquareChange(o) PROVE TypeOK'
  BY <1>1 DEF SquareChange
<1>2. ASSUME NEW w \in Workers, NEW o \in SquareOrders, NEW state, IngestRead(w, o, state)
      PROVE TypeOK'
  <2>1. {o} \in SUBSET Orders
    BY <1>0
  <2>2. OpsOK'
    BY <1>2, <2>1, BeginType DEF IngestRead, Steps, Writes
  <2> QED
    BY <1>2, <2>2 DEF IngestRead
<1>3. ASSUME NEW w \in Workers, NEW o \in SquareOrders, OrderUpdateRead(w, o)
      PROVE TypeOK'
  <2>1. {o} \in SUBSET Orders
    BY <1>0
  <2>2. OpsOK'
    BY <1>3, <2>1, BeginType DEF OrderUpdateRead, Steps, Writes
  <2> QED
    BY <1>3, <2>2 DEF OrderUpdateRead
<1>4. ASSUME NEW w \in Workers, IngestWrite(w) PROVE TypeOK'
  <2>1. OpsOK'
    BY <1>4, EndType DEF IngestWrite
  <2>2. \A s \in {"pending", "completed"} : [Pending EXCEPT !.status = s] \in Row
    BY DEF Pending, Row, Statuses
  <2>3. RowsOK'
    BY <1>4, <2>2, RowTypes DEF IngestWrite, Pending
  <2> QED
    BY <1>4, <2>1, <2>3 DEF IngestWrite
<1>5. ASSUME NEW w \in Workers, Remove(w) PROVE TypeOK'
  <2>1. ops[w].orders \in SUBSET Orders
    BY DEF Op
  <2>2. OpsOK'
    BY <1>5, <2>1, ForgetType DEF Remove
  <2>3. RowsOK'
    BY <1>5, RowTypes DEF Remove
  <2> QED
    BY <1>5, <2>2, <2>3 DEF Remove
<1> QED
  BY <1>1, <1>2, <1>3, <1>4, <1>5 DEF SquareNext

LEMMA RouteStepType ==
  ASSUME TypeOK, RouteNext
  PROVE  TypeOK'
<1> USE DEF TypeOK, RowsOK, OpsOK
<1>1. ASSUME NEW w \in Workers, NEW P \in SUBSET Orders, NEW held \in HeldBack,
             GenerateRead(w, P, held)
      PROVE  TypeOK'
  <2>1. RowsOK'
    BY <1>1, RowTypes DEF GenerateRead
  <2>2. NotHeld(P, held) \in SUBSET Orders
    BY DEF NotHeld
  <2>3. ASSUME NEW old \in ActiveRoutes \cup {NoRoute},
               Begin(w, "generate", NotHeld(P, held), old)
        PROVE  OpsOK'
    BY <2>2, <2>3, BeginType DEF ActiveRoutes, Steps
  <2>4. OpsOK'
    BY <1>1, <2>3 DEF GenerateRead
  <2> QED
    BY <1>1, <2>1, <2>4 DEF GenerateRead
<1>2. ASSUME NEW w \in Workers, NEW r \in Routes, FinishRead(w, r) PROVE TypeOK'
  BY <1>2, BeginType DEF FinishRead, Steps
<1>3. ASSUME NEW w \in Workers, NEW r \in Routes, Dispatch(w, r) PROVE TypeOK'
  <2>1. OpsOK'
    BY <1>3, EndType DEF Dispatch
  <2>2. [status |-> "active", route |-> r] \in Row
    BY DEF Row, Statuses
  <2>3. RowsOK'
    BY <1>3, <2>2, RowTypes DEF Dispatch
  <2>4. (routes \in [Routes -> {"unused", "active", "finished", "cancelled"}])'
    BY <1>3 DEF Dispatch
  <2> QED
    BY <1>3, <2>1, <2>3, <2>4 DEF Dispatch
<1>4. ASSUME NEW w \in Workers, Promote(w) PROVE TypeOK'
  <2> DEFINE S == {o \in OnRoute(ops[w].route) : rows[o].status = "delivered"}
  <2>1. S \in SUBSET Orders
    BY DEF OnRoute
  <2>2. PICK do \in {"dispatch", "release"} :
          ops' = [ops EXCEPT ![w].do = do, ![w].locked = S]
    BY <1>4 DEF Promote
  <2>3. [ops[w] EXCEPT !.do = do, !.locked = S] \in Op
    BY <2>1 DEF Op, Steps
  <2>4. OpsOK'
    BY <2>2, <2>3
  <2>5. RowsOK'
    BY <1>4, RowTypes DEF Promote, Statuses
  <2> QED
    BY <1>4, <2>4, <2>5 DEF Promote
<1>5. ASSUME NEW w \in Workers, Release(w) PROVE TypeOK'
  <2>1. OpsOK'
    BY <1>5, EndType DEF Release
  <2>2. RowsOK'
    BY <1>5, RowTypes DEF Release
  <2> QED
    BY <1>5, <2>1, <2>2 DEF Release
<1>6. ASSUME NEW r \in Routes, Retire(r) PROVE TypeOK'
  <2> DEFINE S == {o \in OnRoute(r) : rows[o].status \in {"completed", "delivered", "skipped"}}
  <2>1. S \in SUBSET Orders
    BY DEF OnRoute
  <2>2. \A v \in Workers : Without(ops[v], S) \in Op
    BY <2>1, WithoutType
  <2>3. \A op \in Op : [op EXCEPT !.route = IF @ = r THEN NoRoute ELSE @] \in Op
    BY DEF Op
  <2>4. OpsOK'
    BY <1>6, <2>2, <2>3 DEF Retire
  <2>5. RowsOK'
    BY <1>6, RowTypes DEF Retire
  <2> QED
    BY <1>6, <2>4, <2>5 DEF Retire
<1> QED
  BY <1>1, <1>2, <1>3, <1>4, <1>5, <1>6 DEF RouteNext

\* The rows, routes and operations always have their types.
THEOREM DeliveryTypes == Spec => []TypeOK
<1>1. Init => TypeOK
  BY IdleType DEF Init, TypeOK, Row, NoRow, Statuses
<1>2. TypeOK /\ [Next]_vars => TypeOK'
  BY OrderStepType, SquareStepType, RouteStepType DEF Next, vars, TypeOK
<1> QED
  BY <1>1, <1>2, PTL DEF Spec
-----------------------------------------------------------------------------
(* Orders that are out, and the board. *)

onBoard == [o \in Orders |-> IF rows[o].status = "active" THEN rows[o].route ELSE NoRoute]

\* A step that changes no route and puts no order out lets some leave the board, or none.
LEMMA LeaveStep ==
  ASSUME TypeOK, TypeOK', UNCHANGED routes,
         \A o \in Orders : rows'[o] = rows[o] \/ rows'[o].status # "active"
  PROVE  /\ [Board!BoardNext]_<<ActiveRoutes, onBoard>>
         /\ ActiveOnRoute => ActiveOnRoute'
<1> DEFINE S == {o \in Orders : rows'[o].status # "active"}
<1>1. ActiveRoutes' = ActiveRoutes
  BY DEF ActiveRoutes
<1>2. onBoard' = [o \in Orders |-> IF o \in S THEN NoRoute ELSE onBoard[o]]
  BY DEF onBoard
<1>3. Board!Leave(S)
  BY <1>1, <1>2 DEF Board!Leave, onBoard
<1>4. S \in SUBSET Orders
  OBVIOUS
<1>5. Board!BoardNext
  BY <1>3, <1>4 DEF Board!BoardNext, Board!Leave
<1>6. ActiveOnRoute => ActiveOnRoute'
  BY <1>1 DEF ActiveOnRoute
<1> QED
  BY <1>5, <1>6

\* A route that ends gives back the orders that are out on it.
LEMMA ReleaseStep ==
  ASSUME TypeOK, TypeOK', ActiveOnRoute, NEW w \in Workers, Release(w)
  PROVE  [Board!BoardNext]_<<ActiveRoutes, onBoard>> /\ ActiveOnRoute'
<1> DEFINE r == ops[w].route
<1>1. r \in Routes \cup {NoRoute}
  BY DEF TypeOK, Op
<1>2. CASE r = NoRoute
  <2>1. \A o \in Orders : rows'[o] = rows[o]
    BY <1>2 DEF Release, Released, OnRoute
  <2>2. UNCHANGED routes
    BY <1>2, RouteAssumption DEF Release, TypeOK
  <2> QED
    BY <2>1, <2>2, LeaveStep
<1>3. CASE r \in Routes
  <2>1. ActiveRoutes' = ActiveRoutes \ {r}
    BY <1>3 DEF Release, ActiveRoutes, TypeOK
  <2>2. \A o \in Orders : rows'[o] = Released(o, r)
    BY DEF Release
  <2>3. \A o \in Orders :
          Released(o, r) = IF rows[o].route = r /\ rows[o].status \in {"active", "skipped"}
                           THEN Pending ELSE rows[o]
    BY <1>3, RouteAssumption DEF Released, OnRoute
  <2>4. onBoard' = [o \in Orders |-> IF onBoard[o] = r THEN NoRoute ELSE onBoard[o]]
    BY <1>3, <2>2, <2>3, RouteAssumption DEF onBoard, Pending
  <2>5. Board!Close(r)
    BY <2>1, <2>4 DEF Board!Close, onBoard
  <2>6. ActiveOnRoute'
    BY <2>1, <2>2, <2>3 DEF ActiveOnRoute, Pending
  <2> QED
    BY <1>3, <2>5, <2>6 DEF Board!BoardNext, Board!Close
<1> QED
  BY <1>1, <1>2, <1>3

LEMMA DispatchIsStep ==
  ASSUME NEW q \in Routes, NEW T \in SUBSET Orders, NEW away \in SUBSET Routes,
         q \notin ActiveRoutes, q \notin away,
         ActiveRoutes' = (ActiveRoutes \ away) \cup {q},
         onBoard' = [o \in Orders |-> IF o \in T THEN q
                                     ELSE IF onBoard[o] \in away THEN NoRoute ELSE onBoard[o]]
  PROVE  Board!BoardNext
<1>1. Board!Dispatch(q, T, away)
  BY DEF Board!Dispatch, onBoard
<1> QED
  BY <1>1 DEF Board!BoardNext, Board!Dispatch

\* A route starts with its orders, and the one it replaces gives back its own.
LEMMA DispatchStep ==
  ASSUME TypeOK, TypeOK', ActiveOnRoute, NEW w \in Workers, NEW r \in Routes, Dispatch(w, r)
  PROVE  [Board!BoardNext]_<<ActiveRoutes, onBoard>> /\ ActiveOnRoute'
<1> DEFINE old  == ops[w].route
           S    == ops[w].orders
           gone == {old} \cap (Routes \ {r})
<1>1. r \in Routes \ ActiveRoutes
  BY DEF Dispatch, ActiveRoutes
<1>2. S \in SUBSET Orders /\ gone \in SUBSET Routes /\ gone \subseteq Routes \ {r}
  BY DEF TypeOK, Op
<1>3. ActiveRoutes' = (ActiveRoutes \ gone) \cup {r}
  BY DEF Dispatch, ActiveRoutes, TypeOK
<1>4. \A o \in Orders : rows'[o] = IF o \in S THEN [status |-> "active", route |-> r]
                                   ELSE Released(o, old)
  BY DEF Dispatch
<1>5. \A o \in Orders : rows[o].status = "active" =>
        Released(o, old) = IF rows[o].route \in gone THEN Pending ELSE rows[o]
  BY <1>1, RouteAssumption DEF Released, OnRoute, ActiveOnRoute, ActiveRoutes
<1>6. \A o \in Orders : rows[o].status # "active" => Released(o, old).status # "active"
  BY DEF Released, Pending
<1>7. onBoard' = [o \in Orders |-> IF o \in S THEN r
                                  ELSE IF onBoard[o] \in gone THEN NoRoute ELSE onBoard[o]]
  BY <1>4, <1>5, <1>6, RouteAssumption DEF onBoard, Pending
<1>8. Board!BoardNext
  BY <1>1, <1>2, <1>3, <1>7, DispatchIsStep
<1>9. ActiveOnRoute'
  BY <1>3, <1>4, <1>5, <1>6 DEF ActiveOnRoute, Pending
<1> QED
  BY <1>8, <1>9

\* Each step is a step of the board, or none, and leaves active orders on active routes.
LEMMA BoardStep ==
  ASSUME TypeOK, TypeOK', ActiveOnRoute, [Next]_vars
  PROVE  [Board!BoardNext]_<<ActiveRoutes, onBoard>> /\ ActiveOnRoute'
<1> DEFINE Quiet == /\ UNCHANGED routes
                    /\ \A o \in Orders : rows'[o] = rows[o] \/ rows'[o].status # "active"
<1>1. ASSUME OrderNext PROVE Quiet
  <2>1. ASSUME NEW o \in Orders, CreateOrder(o) PROVE Quiet
    BY <2>1 DEF CreateOrder, Pending, TypeOK
  <2>2. ASSUME NEW w \in Workers, NEW o \in Orders, DeleteOrder(w, o) PROVE Quiet
    BY <2>2 DEF DeleteOrder, NoRow, TypeOK
  <2>3. ASSUME NEW w \in Workers, StatusWrite(w) PROVE Quiet
    <3>1. ops[w].do # "active"
      BY <2>3 DEF StatusWrite, Writes
    <3>2. \A o \in Orders : [rows[o] EXCEPT !.status = ops[w].do].status = ops[w].do
      BY DEF TypeOK, Row
    <3> QED
      BY <2>3, <3>1, <3>2 DEF StatusWrite
  <2> QED
    BY <1>1, <2>1, <2>2, <2>3 DEF OrderNext, SkipRead, PodRead, CompleteRead
<1>2. ASSUME SquareNext PROVE Quiet
  <2>1. ASSUME NEW w \in Workers, IngestWrite(w) PROVE Quiet
    BY <2>1 DEF IngestWrite, Pending
  <2>2. ASSUME NEW w \in Workers, Remove(w) PROVE Quiet
    BY <2>2 DEF Remove, NoRow
  <2> QED
    BY <1>2, <2>1, <2>2 DEF SquareNext, SquareChange, IngestRead, OrderUpdateRead
<1>3. ASSUME NEW w \in Workers, NEW P, NEW held, GenerateRead(w, P, held) PROVE Quiet
  BY <1>3 DEF GenerateRead, Requeued, Pending
<1>4. ASSUME NEW w \in Workers, NEW r \in Routes, FinishRead(w, r) PROVE Quiet
  BY <1>4 DEF FinishRead
<1>5. ASSUME NEW w \in Workers, Promote(w) PROVE Quiet
  BY <1>5 DEF Promote, TypeOK, Row
<1>6. ASSUME NEW r \in Routes, Retire(r)
      PROVE  [Board!BoardNext]_<<ActiveRoutes, onBoard>> /\ ActiveOnRoute'
  <2>1. \A o \in Orders : rows[o].status = "active" => rows[o].route # r
    BY <1>6 DEF Retire, ActiveOnRoute, ActiveRoutes
  <2>2. \A o \in Orders : \/ rows'[o] = rows[o]
                          \/ rows[o].status # "active" /\ rows'[o].status # "active"
    BY <1>6, <2>1 DEF Retire, NoRow, TypeOK, Row
  <2>3. ActiveRoutes' = ActiveRoutes
    BY <1>6 DEF Retire, ActiveRoutes, TypeOK
  <2> QED
    BY <2>2, <2>3 DEF onBoard, ActiveOnRoute
<1>7. CASE UNCHANGED vars
  BY <1>7, LeaveStep DEF vars
<1> QED
  BY <1>1, <1>2, <1>3, <1>4, <1>5, <1>6, <1>7, LeaveStep, ReleaseStep, DispatchStep
  DEF Next, RouteNext

\* An order that is out is out on a route that is under way.
THEOREM OutOnLiveRoute == Spec => []ActiveOnRoute
<1>1. Init => ActiveOnRoute
  BY DEF Init, ActiveOnRoute, NoRow
<1>2. TypeOK /\ TypeOK' /\ ActiveOnRoute /\ [Next]_vars => ActiveOnRoute'
  BY BoardStep
<1> QED
  BY <1>1, <1>2, DeliveryTypes, PTL DEF Spec

\* The delivery service implements the route board.
THEOREM ImplementsBoard == Spec => Promise
<1>1. Init => Board!BoardInit
  BY DEF Init, Board!BoardInit, ActiveRoutes, NoRow
<1>2. TypeOK /\ TypeOK' /\ ActiveOnRoute /\ [Next]_vars
      => [Board!BoardNext]_<<ActiveRoutes, onBoard>>
  BY BoardStep
<1>3. TypeOK /\ TypeOK' /\ ActiveOnRoute /\ [Next]_vars =>
        [Board!BoardNext]_<<ActiveRoutes,
          [o \in Orders |-> IF rows[o].status = "active" THEN rows[o].route ELSE NoRoute]>>
  BY <1>2 DEF onBoard
<1> QED
  BY <1>1, <1>3, DeliveryTypes, OutOnLiveRoute, PTL DEF Spec, Promise, Board!BoardSpec
-----------------------------------------------------------------------------
(* Completed orders. *)

Dangerous == {"skipped", "delivered", "remove", "generate", "dispatch"}

\* Taking up an operation does not touch a settled order unless it is one that could.
LEMMA BeginSettled ==
  ASSUME TypeOK, NEW o \in Orders, Settled(o), UNCHANGED rows,
         NEW w \in Workers, NEW do, NEW S, NEW r, Begin(w, do, S, r),
         o \notin S \/ do \notin Dangerous
  PROVE  Settled(o)'
BY DEF Settled, Begin, TypeOK, Dangerous

\* A worker that ends, or whose operation loses orders, is no danger to a settled order.
LEMMA FewerSettled ==
  ASSUME TypeOK, NEW o \in Orders, Settled(o), rows'[o].status = "completed",
         \A w \in Workers : \/ ops'[w] = ops[w] \/ ops'[w] = Idle
                            \/ ops'[w].do = ops[w].do /\ ops'[w].orders \subseteq ops[w].orders
  PROVE  Settled(o)'
BY DEF Settled, TypeOK, Idle

LEMMA WithoutFewer ==
  ASSUME NEW op \in Op, NEW S
  PROVE  \/ Without(op, S) = op \/ Without(op, S) = Idle
         \/ Without(op, S).do = op.do /\ Without(op, S).orders \subseteq op.orders
BY DEF Without, Op

LEMMA EndFewer ==
  ASSUME TypeOK, NEW o \in Orders, Settled(o), rows'[o].status = "completed",
         NEW w \in Workers, End(w)
  PROVE  Settled(o)'
<1>1. \A v \in Workers : ops'[v] = IF v = w THEN Idle ELSE ops[v]
  BY DEF End, TypeOK
<1> QED
  BY <1>1, FewerSettled

LEMMA ForgetFewer ==
  ASSUME TypeOK, NEW o \in Orders, Settled(o), rows'[o].status = "completed",
         NEW w \in Workers, NEW S, Forget(w, S)
  PROVE  Settled(o)'
<1>1. \A v \in Workers : ops'[v] = IF v = w THEN Idle ELSE Without(ops[v], S)
  BY DEF Forget
<1>2. \A v \in Workers : ops[v] \in Op
  BY DEF TypeOK
<1> QED
  BY <1>1, <1>2, WithoutFewer, FewerSettled

RemovedByRetention(o) ==
  /\ rows'[o] = NoRow
  /\ \E r \in Routes : rows[o].route = r /\ routes[r] \in {"finished", "cancelled"}

LEMMA SettledStep ==
  ASSUME TypeOK, NEW o \in Orders, Settled(o), [Next]_vars
  PROVE  Settled(o)' \/ RemovedByRetention(o)
<1>0. rows[o].status = "completed"
  BY DEF Settled
<1>1. ASSUME OrderNext PROVE Settled(o)'
  <2>1. ASSUME NEW p \in Orders, CreateOrder(p) PROVE Settled(o)'
    BY <1>0, <2>1 DEF CreateOrder, Exists, Settled, TypeOK
  <2>2. ASSUME NEW w \in Workers, NEW p \in Orders, DeleteOrder(w, p) PROVE Settled(o)'
    <3>1. rows'[o].status = "completed"
      BY <1>0, <2>2 DEF DeleteOrder, TypeOK
    <3> QED
      BY <2>2, <3>1, ForgetFewer DEF DeleteOrder
  <2>3. ASSUME NEW w \in Workers, NEW p \in Orders,
               SkipRead(w, p) \/ PodRead(w, p) \/ CompleteRead(w, p)
        PROVE  Settled(o)'
    <3>1. o \notin {p} /\ UNCHANGED rows
      BY <1>0, <2>3 DEF SkipRead, PodRead, CompleteRead
    <3>2. PICK do : Begin(w, do, {p}, NoRoute)
      BY <2>3 DEF SkipRead, PodRead, CompleteRead
    <3> QED
      BY <3>1, <3>2, BeginSettled
  <2>4. ASSUME NEW w \in Workers, StatusWrite(w) PROVE Settled(o)'
    <3>1. o \in ops[w].orders => ops[w].do = "completed"
      BY <2>4 DEF StatusWrite, Writes, Settled
    <3>2. [rows[o] EXCEPT !.status = "completed"].status = "completed"
      BY DEF TypeOK, Row
    <3>3. rows'[o].status = "completed"
      BY <1>0, <2>4, <3>1, <3>2 DEF StatusWrite
    <3> QED
      BY <2>4, <3>3, EndFewer DEF StatusWrite
  <2> QED
    BY <1>1, <2>1, <2>2, <2>3, <2>4 DEF OrderNext
<1>2. ASSUME SquareNext PROVE Settled(o)'
  <2>1. ASSUME NEW p \in SquareOrders, SquareChange(p) PROVE Settled(o)'
    BY <2>1 DEF SquareChange, Settled
  <2>2. ASSUME NEW w \in Workers, NEW p \in SquareOrders, NEW state,
               IngestRead(w, p, state) \/ OrderUpdateRead(w, p)
        PROVE  Settled(o)'
    <3>1. p # o /\ UNCHANGED rows
      BY <1>0, <2>2 DEF IngestRead, OrderUpdateRead, Exists
    <3>2. PICK do : Begin(w, do, {p}, NoRoute)
      BY <2>2 DEF IngestRead, OrderUpdateRead
    <3> QED
      BY <3>1, <3>2, BeginSettled
  <2>3. ASSUME NEW w \in Workers, IngestWrite(w) PROVE Settled(o)'
    <3>1. rows'[o].status = "completed"
      BY <1>0, <2>3 DEF IngestWrite, Exists
    <3> QED
      BY <2>3, <3>1, EndFewer DEF IngestWrite
  <2>4. ASSUME NEW w \in Workers, Remove(w) PROVE Settled(o)'
    <3>1. o \notin ops[w].orders
      BY <2>4 DEF Remove, Settled
    <3>2. rows'[o].status = "completed"
      BY <1>0, <2>4, <3>1 DEF Remove
    <3> QED
      BY <2>4, <3>2, ForgetFewer DEF Remove
  <2> QED
    BY <1>2, <2>1, <2>2, <2>3, <2>4 DEF SquareNext
<1>3. ASSUME NEW w \in Workers, NEW P \in SUBSET Orders, NEW held, GenerateRead(w, P, held)
      PROVE  Settled(o)'
  <2>1. rows'[o] = rows[o]
    BY <1>0, <1>3 DEF GenerateRead, Requeued
  <2>2. o \notin NotHeld(P, held)
    BY <1>0, <1>3, <2>1 DEF GenerateRead, NotHeld
  <2>3. CASE UNCHANGED ops
    BY <2>1, <2>3 DEF Settled
  <2>4. ASSUME NEW old, Begin(w, "generate", NotHeld(P, held), old) PROVE Settled(o)'
    BY <2>1, <2>2, <2>4 DEF Settled, Begin, TypeOK
  <2> QED
    BY <1>3, <2>3, <2>4 DEF GenerateRead
<1>4. ASSUME NEW w \in Workers, NEW r \in Routes, FinishRead(w, r) PROVE Settled(o)'
  <2>1. UNCHANGED rows /\ Begin(w, "finish", {}, r)
    BY <1>4 DEF FinishRead
  <2> QED
    BY <2>1, BeginSettled
<1>5. ASSUME NEW w \in Workers, NEW r \in Routes, Dispatch(w, r) PROVE Settled(o)'
  <2>1. o \notin ops[w].orders
    BY <1>5 DEF Dispatch, Settled
  <2>2. rows'[o].status = "completed"
    BY <1>0, <1>5, <2>1 DEF Dispatch, Released
  <2> QED
    BY <1>5, <2>2, EndFewer DEF Dispatch
<1>6. ASSUME NEW w \in Workers, Promote(w) PROVE Settled(o)'
  <2>1. rows'[o] = rows[o]
    BY <1>0, <1>6 DEF Promote
  <2>2. ops[w].do \in {"generate", "finish"} /\ ops[w] \in Op
    BY <1>6 DEF Promote, TypeOK
  <2>3. \A v \in Workers \ {w} : ops'[v] = ops[v]
    BY <1>6 DEF Promote, TypeOK
  <2>4. /\ ops'[w].orders = ops[w].orders
        /\ ops'[w].do = IF ops[w].do = "generate" THEN "dispatch" ELSE "release"
    <3> DEFINE S == {p \in OnRoute(ops[w].route) : rows[p].status = "delivered"}
               do == IF ops[w].do = "generate" THEN "dispatch" ELSE "release"
    <3>1. ops'[w] = [ops[w] EXCEPT !.do = do, !.locked = S]
      BY <1>6 DEF Promote, TypeOK
    <3> QED
      BY <2>2, <3>1 DEF Op
  <2> QED
    BY <2>1, <2>2, <2>3, <2>4 DEF Settled
<1>7. ASSUME NEW w \in Workers, Release(w) PROVE Settled(o)'
  <2>1. rows'[o].status = "completed"
    BY <1>0, <1>7 DEF Release, Released
  <2> QED
    BY <1>7, <2>1, EndFewer DEF Release
<1>8. ASSUME NEW r \in Routes, Retire(r) PROVE Settled(o)' \/ RemovedByRetention(o)
  <2>1. CASE rows[o].route = r
    BY <1>0, <1>8, <2>1, RouteAssumption DEF Retire, OnRoute, RemovedByRetention
  <2>2. CASE rows[o].route # r
    <3>1. rows'[o] = rows[o]
      BY <1>8, <2>2 DEF Retire, OnRoute
    <3> DEFINE S == {p \in OnRoute(r) : rows[p].status \in {"completed", "delivered", "skipped"}}
    <3>2. \A v \in Workers :
            ops'[v] = [Without(ops[v], S) EXCEPT !.route = IF @ = r THEN NoRoute ELSE @]
      BY <1>8 DEF Retire
    <3>3. S \in SUBSET Orders
      BY DEF OnRoute
    <3>4. \A v \in Workers : Without(ops[v], S) \in Op
      BY <3>3, WithoutType DEF TypeOK
    <3>5. \A v \in Workers : /\ ops'[v].do = Without(ops[v], S).do
                             /\ ops'[v].orders = Without(ops[v], S).orders
      BY <3>2, <3>4 DEF Op
    <3>6. \A v \in Workers : ops[v] \in Op
      BY DEF TypeOK
    <3>7. \A v \in Workers : \/ ops'[v].do = "idle"
                             \/ /\ ops'[v].do = ops[v].do
                                /\ ops'[v].orders \subseteq ops[v].orders
      <4> TAKE v \in Workers
      <4> DEFINE op == Without(ops[v], S)
      <4>1. \/ op = ops[v] \/ op = Idle
            \/ op.do = ops[v].do /\ op.orders \subseteq ops[v].orders
        BY <3>6, WithoutFewer
      <4>2. ops'[v].do = op.do /\ ops'[v].orders = op.orders
        BY <3>5
      <4> HIDE DEF op
      <4> QED
        BY <4>1, <4>2 DEF Idle
    <3> QED
      BY <1>0, <3>1, <3>7 DEF Settled
  <2> QED
    BY <2>1, <2>2
<1>9. CASE UNCHANGED vars
  BY <1>9 DEF vars, Settled
<1> QED
  BY <1>1, <1>2, <1>3, <1>4, <1>5, <1>6, <1>7, <1>8, <1>9 DEF Next, RouteNext

\* A settled order keeps its status until the retention job removes it.
THEOREM DoneIsDone == Spec => SettledStays
<1>1. TypeOK /\ [Next]_vars =>
        [\A o \in Orders : Settled(o) =>
           \/ Settled(o)'
           \/ /\ rows'[o] = NoRow
              /\ \E r \in Routes : rows[o].route = r /\ routes[r] \in {"finished", "cancelled"}]_vars
  BY SettledStep DEF RemovedByRetention
<1> QED
  BY <1>1, DeliveryTypes, PTL DEF Spec, SettledStays
=============================================================================
