------------------------- MODULE LoyaltyLedgerProofs -------------------------
(***************************************************************************)
(* The ledger is type correct, rewards are backed by exactly the units     *)
(* they cost, units are locked to standing rewards only, one reward is in  *)
(* progress at a time and the status of a reward never goes back; and the  *)
(* records agree with each other: a transaction settles what is due before *)
(* it commits and leaves a summary that agrees with the tables, a split    *)
(* carries the units of the row it replaces, and an order is recorded      *)
(* whole.  What is committed is a punch card that neither makes nor loses  *)
(* units.  For all orders, offers, baskets, returns, calendars and numbers *)
(* of rows and rewards.                                                    *)
(***************************************************************************)
EXTENDS LoyaltyLedger, FiniteSetTheorems, WellFoundedInduction, TLAPS

USE DEF aside

-----------------------------------------------------------------------------
(* What SumSeq computes, for sequences of integers of every length *)

\* f lists the sums of the prefixes of v that are at most N long.
Partial(f, v, N) ==
  /\ f \in [0..N -> Int]
  /\ f[0] = 0
  /\ \A n \in 0..(N - 1) : f[n + 1] = f[n] + v[n + 1]

\* Induction over an initial segment of the numbers, by the least number that is
\* missing from T.
LEMMA SegmentInduction ==
  ASSUME NEW N \in Nat, NEW T,
         0 \in T,
         \A n \in 0..(N - 1) : n \in T => n + 1 \in T
  PROVE  0..N \subseteq T
<1> DEFINE Less == OpToRel(<, Nat)
<1> DEFINE Bad  == {n \in 0..N : n \notin T}
<1> SUFFICES ASSUME Bad # {} PROVE FALSE
  OBVIOUS
<1>1. IsWellFoundedOn(Less, Nat)
  BY NatLessThanWellFounded
<1>2. Bad \subseteq Nat
  OBVIOUS
<1> HIDE DEF Less, Bad
<1>3. PICK m \in Bad : \A k \in Bad : ~(<<k, m>> \in Less)
  BY <1>1, <1>2, WFMin
<1>4. m \in 0..N /\ m \notin T /\ m # 0
  BY <1>3 DEF Bad
<1>5. m - 1 \notin Bad
  <2>1. <<m - 1, m>> \in Nat \X Nat /\ m - 1 < m
    BY <1>4
  <2>2. <<m - 1, m>> \in Less
    BY <2>1 DEF Less, OpToRel
  <2> QED
    BY <2>2, <1>3
<1> QED
  BY <1>4, <1>5 DEF Bad

\* Every sequence of integers has its sums of prefixes, and SumSeq is the last.
LEMMA PartialExists ==
  ASSUME NEW v \in Seq(Int)
  PROVE  \E f : Partial(f, v, Len(v))
<1> DEFINE T == {n \in 0..Len(v) : \E f : Partial(f, v, n)}
<1>1. 0 \in T
  <2>1. Partial([n \in 0..0 |-> 0], v, 0)
    BY DEF Partial
  <2> QED
    BY <2>1
<1>2. ASSUME NEW n \in 0..(Len(v) - 1), n \in T
      PROVE  n + 1 \in T
  <2>1. PICK f : Partial(f, v, n)
    BY <1>2
  <2> DEFINE g == [k \in 0..(n + 1) |-> IF k = n + 1 THEN f[n] + v[n + 1] ELSE f[k]]
  <2>2. v[n + 1] \in Int /\ f[n] \in Int
    BY <2>1 DEF Partial
  <2>3. Partial(g, v, n + 1)
    <3>1. g \in [0..(n + 1) -> Int] /\ g[0] = 0
      BY <2>1, <2>2 DEF Partial
    <3>2. ASSUME NEW k \in 0..n PROVE g[k + 1] = g[k] + v[k + 1]
      BY <2>1 DEF Partial
    <3>3. 0..((n + 1) - 1) = 0..n
      OBVIOUS
    <3> HIDE DEF g
    <3> QED
      BY <3>1, <3>2, <3>3 DEF Partial
  <2> HIDE DEF g
  <2> QED
    BY <2>3
<1> HIDE DEF T
<1>3. 0..Len(v) \subseteq T
  BY <1>1, <1>2, Len(v) \in Nat, SegmentInduction
<1>4. Len(v) \in T
  <2>1. Len(v) \in 0..Len(v)
    OBVIOUS
  <2> QED
    BY <2>1, <1>3
<1> QED
  BY <1>4 DEF T

LEMMA SumPartial ==
  ASSUME NEW v \in Seq(Int)
  PROVE  \E f : Partial(f, v, Len(v)) /\ SumSeq(v) = f[Len(v)]
<1> DEFINE Solves(f) == f = [n \in 0..Len(v) |-> IF n = 0 THEN 0 ELSE f[n - 1] + v[n]]
           sum == CHOOSE f : Solves(f)
           T   == {n \in 0..Len(v) : sum[n] \in Int}
<1>1. PICK f : Partial(f, v, Len(v))
  BY PartialExists
<1>2. Solves(f)
  BY <1>1 DEF Partial
<1>3. Solves(sum)
  BY <1>2
<1>4. SumSeq(v) = sum[Len(v)]
  BY DEF SumSeq
<1> HIDE DEF sum
<1>5. sum[0] = 0 /\ \A n \in 0..(Len(v) - 1) : sum[n + 1] = sum[n] + v[n + 1]
  <2>1. sum[0] = 0
    BY <1>3
  <2>2. ASSUME NEW n \in 0..(Len(v) - 1)
        PROVE  sum[n + 1] = sum[n] + v[n + 1]
    <3>1. n + 1 \in 0..Len(v) /\ n + 1 # 0 /\ (n + 1) - 1 = n
      OBVIOUS
    <3> QED
      BY <3>1, <1>3
  <2> QED
    BY <2>1, <2>2
<1>6. 0 \in T
  BY <1>5
<1>7. ASSUME NEW n \in 0..(Len(v) - 1), n \in T
      PROVE  n + 1 \in T
  <2>1. n + 1 \in 1..Len(v) /\ n \in 0..Len(v)
    OBVIOUS
  <2> QED
    BY <2>1, <1>7, <1>5
<1> HIDE DEF T
<1>8. 0..Len(v) \subseteq T
  BY <1>6, <1>7, Len(v) \in Nat, SegmentInduction
<1>9. Partial(sum, v, Len(v))
  BY <1>3, <1>5, <1>8 DEF Partial, T
<1> QED
  BY <1>4, <1>9

\* SUM over integers is an integer.
THEOREM SumType ==
  ASSUME NEW v \in Seq(Int)
  PROVE  SumSeq(v) \in Int
<1>1. PICK f : Partial(f, v, Len(v)) /\ SumSeq(v) = f[Len(v)]
  BY SumPartial
<1>2. Len(v) \in 0..Len(v)
  OBVIOUS
<1> QED
  BY <1>1, <1>2 DEF Partial

\* Two columns of one length, compared row by row.
THEOREM SumMonotone ==
  ASSUME NEW u \in Seq(Int), NEW v \in Seq(Int), Len(u) = Len(v),
         \A n \in 1..Len(v) : u[n] <= v[n]
  PROVE  SumSeq(u) <= SumSeq(v)
<1>1. PICK f : Partial(f, u, Len(u)) /\ SumSeq(u) = f[Len(u)]
  BY SumPartial
<1>2. PICK g : Partial(g, v, Len(v)) /\ SumSeq(v) = g[Len(v)]
  BY SumPartial
<1> DEFINE T == {n \in 0..Len(v) : f[n] <= g[n]}
<1>3. 0 \in T
  BY <1>1, <1>2 DEF Partial
<1>4. ASSUME NEW n \in 0..(Len(v) - 1), n \in T
      PROVE  n + 1 \in T
  <2>1. n + 1 \in 1..Len(v) /\ n \in 0..Len(v)
    OBVIOUS
  <2>2. f[n + 1] = f[n] + u[n + 1] /\ g[n + 1] = g[n] + v[n + 1]
    BY <1>1, <1>2 DEF Partial
  <2>3. f[n] \in Int /\ g[n] \in Int
    BY <2>1, <1>1, <1>2 DEF Partial
  <2>4. u[n + 1] \in Int /\ v[n + 1] \in Int
    BY <2>1
  <2> QED
    BY <2>1, <2>2, <2>3, <2>4, <1>4
<1> HIDE DEF T
<1>5. 0..Len(v) \subseteq T
  BY <1>3, <1>4, Len(v) \in Nat, SegmentInduction
<1>6. Len(v) \in T
  BY <1>5, Len(v) \in 0..Len(v)
<1> QED
  BY <1>1, <1>2, <1>6 DEF T

\* The sum of the rows is the sum of two parts of every row.
THEOREM SumPlus ==
  ASSUME NEW u \in Seq(Int), NEW v \in Seq(Int), NEW w \in Seq(Int),
         Len(u) = Len(w), Len(v) = Len(w),
         \A n \in 1..Len(w) : w[n] = u[n] + v[n]
  PROVE  SumSeq(w) = SumSeq(u) + SumSeq(v)
<1>1. PICK f : Partial(f, u, Len(u)) /\ SumSeq(u) = f[Len(u)]
  BY SumPartial
<1>2. PICK g : Partial(g, v, Len(v)) /\ SumSeq(v) = g[Len(v)]
  BY SumPartial
<1>3. PICK h : Partial(h, w, Len(w)) /\ SumSeq(w) = h[Len(w)]
  BY SumPartial
<1> DEFINE T == {n \in 0..Len(w) : h[n] = f[n] + g[n]}
<1>4. 0 \in T
  BY <1>1, <1>2, <1>3 DEF Partial
<1>5. ASSUME NEW n \in 0..(Len(w) - 1), n \in T
      PROVE  n + 1 \in T
  <2>1. n + 1 \in 1..Len(w) /\ n \in 0..Len(w)
    OBVIOUS
  <2>2. /\ f[n + 1] = f[n] + u[n + 1]
        /\ g[n + 1] = g[n] + v[n + 1]
        /\ h[n + 1] = h[n] + w[n + 1]
    BY <1>1, <1>2, <1>3 DEF Partial
  <2>3. f[n] \in Int /\ g[n] \in Int /\ h[n] \in Int
    BY <2>1, <1>1, <1>2, <1>3 DEF Partial
  <2>4. u[n + 1] \in Int /\ v[n + 1] \in Int /\ w[n + 1] \in Int
    BY <2>1
  <2>5. w[n + 1] = u[n + 1] + v[n + 1] /\ h[n] = f[n] + g[n]
    BY <2>1, <1>5
  <2>6. h[n + 1] = (f[n] + g[n]) + (u[n + 1] + v[n + 1])
    BY <2>2, <2>5
  <2>7. h[n + 1] = f[n + 1] + g[n + 1]
    <3>1. (f[n] + g[n]) + (u[n + 1] + v[n + 1]) = (f[n] + u[n + 1]) + (g[n] + v[n + 1])
      <4> DEFINE a == f[n]
                 b == g[n]
                 c == u[n + 1]
                 d == v[n + 1]
      <4>1. a \in Int /\ b \in Int /\ c \in Int /\ d \in Int
        BY <2>3, <2>4
      <4> HIDE DEF a, b, c, d
      <4>2. (a + b) + (c + d) = (a + c) + (b + d)
        BY <4>1
      <4> QED
        BY <4>2 DEF a, b, c, d
    <3> QED
      BY <2>2, <2>6, <3>1
  <2> QED
    BY <2>1, <2>7
<1> HIDE DEF T
<1>6. 0..Len(w) \subseteq T
  BY <1>4, <1>5, Len(w) \in Nat, SegmentInduction
<1>7. Len(w) \in T
  BY <1>6, Len(w) \in 0..Len(w)
<1> QED
  BY <1>1, <1>2, <1>3, <1>7 DEF T

\* An empty column, and one more row.
THEOREM SumEmpty == SumSeq(<<>>) = 0
<1>1. <<>> \in Seq(Int) /\ Len(<<>>) = 0
  OBVIOUS
<1> QED
  BY <1>1, SumPartial DEF Partial

THEOREM SumAppend ==
  ASSUME NEW v \in Seq(Int), NEW w \in Seq(Int), Len(w) = Len(v) + 1,
         \A n \in 1..Len(v) : w[n] = v[n]
  PROVE  SumSeq(w) = SumSeq(v) + w[Len(w)]
<1>1. PICK f : Partial(f, v, Len(v)) /\ SumSeq(v) = f[Len(v)]
  BY SumPartial
<1>2. PICK g : Partial(g, w, Len(w)) /\ SumSeq(w) = g[Len(w)]
  BY SumPartial
<1> DEFINE T == {n \in 0..Len(v) : f[n] = g[n]}
<1>3. 0 \in T
  BY <1>1, <1>2 DEF Partial
<1>4. ASSUME NEW n \in 0..(Len(v) - 1), n \in T
      PROVE  n + 1 \in T
  <2>1. n + 1 \in 1..Len(v) /\ n \in 0..Len(v)
    OBVIOUS
  <2> QED
    BY <2>1, <1>4, <1>1, <1>2 DEF Partial
<1> HIDE DEF T
<1>5. 0..Len(v) \subseteq T
  BY <1>3, <1>4, Len(v) \in Nat, SegmentInduction
<1>6. f[Len(v)] = g[Len(v)]
  BY <1>5, Len(v) \in 0..Len(v) DEF T
<1>7. Len(v) \in 0..(Len(w) - 1)
  OBVIOUS
<1>8. g[Len(v) + 1] = g[Len(v)] + w[Len(v) + 1]
  BY <1>2, <1>7 DEF Partial
<1> QED
  BY <1>1, <1>2, <1>6, <1>8

-----------------------------------------------------------------------------
(* Sums over a table *)

\* A table with an integer column qty.
IsTable(rows, R) == rows \in Seq(R) /\ \A row \in R : row.qty \in Int

Column(rows, S) == [i \in Ids(rows) |-> IF i \in S THEN rows[i].qty ELSE 0]

LEMMA ColumnType ==
  ASSUME NEW R, NEW rows, IsTable(rows, R), NEW S
  PROVE  /\ Column(rows, S) \in Seq(Int)
         /\ Len(Column(rows, S)) = Len(rows)
         /\ Qty(rows, S) = SumSeq(Column(rows, S))
         /\ Ids(rows) = 1..Len(rows)
<1>1. rows \in Seq(R) /\ Ids(rows) = 1..Len(rows) /\ Len(rows) \in Nat
  BY DEF IsTable, Ids
<1>2. \A i \in 1..Len(rows) : rows[i].qty \in Int
  BY <1>1 DEF IsTable
<1>3. Column(rows, S) = [i \in 1..Len(rows) |-> IF i \in S THEN rows[i].qty ELSE 0]
  BY <1>1 DEF Column
<1>4. Column(rows, S) \in [1..Len(rows) -> Int]
  BY <1>2, <1>3
<1> QED
  BY <1>1, <1>3, <1>4 DEF Qty, Column

LEMMA QtyType ==
  ASSUME NEW R, NEW rows, IsTable(rows, R), NEW S
  PROVE  Qty(rows, S) \in Int
BY ColumnType, SumType

\* The sum depends on the quantities of the selected rows only.
LEMMA QtySame ==
  ASSUME NEW R, NEW a, IsTable(a, R), NEW b, IsTable(b, R), NEW S, NEW T,
         Len(a) = Len(b),
         \A i \in 1..Len(a) : /\ i \in S <=> i \in T
                              /\ i \in S => a[i].qty = b[i].qty
  PROVE  Qty(a, S) = Qty(b, T)
<1>1. Ids(a) = 1..Len(a) /\ Ids(b) = 1..Len(a)
  BY ColumnType
<1>2. Column(a, S) = Column(b, T)
  BY <1>1 DEF Column
<1> QED
  BY <1>2, ColumnType

LEMMA QtyMonotone ==
  ASSUME NEW R, NEW rows, IsTable(rows, R), NEW S, NEW T, T \subseteq S,
         \A i \in Ids(rows) : i \in S \ T => rows[i].qty <= 0
  PROVE  Qty(rows, S) <= Qty(rows, T)
<1>1. \A i \in 1..Len(rows) : Column(rows, S)[i] <= Column(rows, T)[i]
  <2>1. Ids(rows) = 1..Len(rows)
    BY ColumnType
  <2>2. \A i \in Ids(rows) : rows[i].qty \in Int
    BY DEF IsTable, Ids
  <2> QED
    BY <2>1, <2>2 DEF Column
<1> QED
  BY <1>1, ColumnType, SumMonotone

LEMMA QtyAppend ==
  ASSUME NEW R, NEW rows, IsTable(rows, R), NEW row \in R, NEW S
  PROVE  /\ IsTable(Append(rows, row), R)
         /\ Qty(Append(rows, row), S) =
              Qty(rows, S) + (IF Len(rows) + 1 \in S THEN row.qty ELSE 0)
<1> DEFINE longer == Append(rows, row)
           v == Column(rows, S)
           w == Column(longer, S)
<1>1. IsTable(longer, R) /\ Len(longer) = Len(rows) + 1
  BY DEF IsTable
<1>2. /\ v \in Seq(Int) /\ Len(v) = Len(rows) /\ Qty(rows, S) = SumSeq(v)
      /\ w \in Seq(Int) /\ Len(w) = Len(rows) + 1 /\ Qty(longer, S) = SumSeq(w)
      /\ Ids(rows) = 1..Len(rows) /\ Ids(longer) = 1..(Len(rows) + 1)
  BY <1>1, ColumnType
<1>3. \A i \in 1..Len(rows) : longer[i] = rows[i]
  BY DEF IsTable
<1>4. longer[Len(rows) + 1] = row
  BY DEF IsTable
<1>5. \A i \in 1..Len(v) : w[i] = v[i]
  BY <1>2, <1>3 DEF Column
<1>6. w[Len(w)] = IF Len(rows) + 1 \in S THEN row.qty ELSE 0
  BY <1>2, <1>4 DEF Column
<1> HIDE DEF v, w, longer
<1>7. SumSeq(w) = SumSeq(v) + w[Len(w)]
  BY <1>2, <1>5, SumAppend
<1> QED
  BY <1>1, <1>2, <1>6, <1>7 DEF longer

-----------------------------------------------------------------------------
(* Types *)

LEMMA FunctionIsSeq ==
  ASSUME NEW S, NEW n \in Nat, NEW f \in [1..n -> S]
  PROVE  f \in Seq(S) /\ Len(f) = n /\ Ids(f) = 1..n
BY DEF Ids

LEMMA PointwiseSeq ==
  ASSUME NEW S, NEW n \in Nat, NEW f, f = [i \in 1..n |-> f[i]],
         \A i \in 1..n : f[i] \in S
  PROVE  f \in Seq(S) /\ Len(f) = n /\ Ids(f) = 1..n
<1>1. f \in [1..n -> S]
  OBVIOUS
<1> QED
  BY <1>1, FunctionIsSeq

\* Updates of one column.
LEMMA RowUpdate ==
  ASSUME NEW row \in Row, NEW r \in Nat
  PROVE  /\ [row EXCEPT !.reward = r] \in Row
         /\ [row EXCEPT !.reward = r].qty = row.qty
         /\ [row EXCEPT !.reward = r].reward = r
BY DEF Row

LEMMA RewardUpdate ==
  ASSUME NEW reward \in Reward, NEW st \in Statuses
  PROVE  /\ [reward EXCEPT !.status = st] \in Reward
         /\ [reward EXCEPT !.status = st].status = st
BY DEF Reward

LEMMA RowTable == \A ev \in Seq(Row) : IsTable(ev, Row)
BY DEF IsTable, Row

LEMMA RowFields ==
  ASSUME NEW ev \in Seq(Row), NEW i \in Ids(ev)
  PROVE  /\ ev[i] \in Row /\ ev[i].order \in Orders
         /\ ev[i].wend \in Int /\ ev[i].reward \in Nat
<1>1. ev[i] \in Row
  BY DEF Ids
<1> QED
  BY <1>1 DEF Row

LEMMA EventsQty ==
  ASSUME NEW ev \in Seq(Row), NEW S
  PROVE  Qty(ev, S) \in Int
BY RowTable, QtyType

LEMMA AggregateType ==
  ASSUME NEW o \in Orders
  PROVE  Aggregate(Basket[o]) \in SUBSET Todo
<1> DEFINE Line == [item : Items, qty : Nat, free : BOOLEAN]
<1>1. Basket \in [Orders -> Seq(Line)]
  BY BasketAssumption
<1>2. \A line \in Line : line.qty \in Int
  OBVIOUS
<1> HIDE DEF Line
<1>5. IsTable(Basket[o], Line)
  BY <1>1, <1>2 DEF IsTable
<1>3. \A S : Qty(Basket[o], S) \in Int
  BY <1>5, QtyType
<1>4. ASSUME NEW v \in Items, NEW S
      PROVE  [item |-> v, qty |-> Qty(Basket[o], S), ref |-> NoRef] \in Todo
  BY <1>3 DEF Todo
<1> QED
  BY <1>4 DEF Aggregate

LEMMA UnlockType ==
  ASSUME NEW ev \in Seq(Row), NEW r
  PROVE  /\ Unlock(ev, r) \in Seq(Row)
         /\ Len(Unlock(ev, r)) = Len(ev)
         /\ \A i \in 1..Len(ev) :
              /\ Unlock(ev, r)[i].qty = ev[i].qty
              /\ Unlock(ev, r)[i].reward = IF ev[i].reward = r THEN 0 ELSE ev[i].reward
<1>1. \A i \in 1..Len(ev) : ev[i] \in Row
  OBVIOUS
<1>2. \A i \in 1..Len(ev) :
        Unlock(ev, r)[i] = IF ev[i].reward = r THEN [ev[i] EXCEPT !.reward = 0] ELSE ev[i]
  BY DEF Unlock, Ids
<1>3. ASSUME NEW i \in 1..Len(ev)
      PROVE  /\ Unlock(ev, r)[i] \in Row
             /\ Unlock(ev, r)[i].qty = ev[i].qty
             /\ Unlock(ev, r)[i].reward = IF ev[i].reward = r THEN 0 ELSE ev[i].reward
  <2>1. CASE ev[i].reward = r
    <3>1. Unlock(ev, r)[i] = [ev[i] EXCEPT !.reward = 0]
      BY <1>2, <2>1
    <3>2. ev[i] \in Row /\ 0 \in Nat
      BY <1>1
    <3> QED
      BY <2>1, <3>1, <3>2, RowUpdate
  <2>2. CASE ev[i].reward # r
    BY <1>1, <1>2, <2>2
  <2> QED
    BY <2>1, <2>2
<1>4. Unlock(ev, r) = [i \in 1..Len(ev) |-> Unlock(ev, r)[i]]
  BY DEF Unlock, Ids
<1> QED
  BY <1>3, <1>4, Len(ev) \in Nat, PointwiseSeq

LEMMA SetStatusType ==
  ASSUME NEW rw \in Seq(Reward), NEW r, NEW st \in Statuses
  PROVE  /\ SetStatus(rw, r, st) \in Seq(Reward)
         /\ Ids(SetStatus(rw, r, st)) = Ids(rw)
         /\ \A q \in Ids(rw) : SetStatus(rw, r, st)[q].status =
                               IF q = r THEN st ELSE rw[q].status
<1>1. Ids(rw) = 1..Len(rw) /\ \A q \in 1..Len(rw) : rw[q] \in Reward
  BY DEF Ids
<1>2. \A q \in 1..Len(rw) :
        SetStatus(rw, r, st)[q] = IF q = r THEN [rw[q] EXCEPT !.status = st] ELSE rw[q]
  BY DEF SetStatus
<1>3. ASSUME NEW q \in 1..Len(rw)
      PROVE  /\ SetStatus(rw, r, st)[q] \in Reward
             /\ SetStatus(rw, r, st)[q].status = IF q = r THEN st ELSE rw[q].status
  <2>1. CASE q = r
    <3>1. SetStatus(rw, r, st)[q] = [rw[q] EXCEPT !.status = st]
      BY <1>2, <2>1
    <3>2. rw[q] \in Reward
      BY <1>1
    <3> QED
      BY <2>1, <3>1, <3>2, RewardUpdate
  <2>2. CASE q # r
    BY <1>1, <1>2, <2>2
  <2> QED
    BY <2>1, <2>2
<1>4. SetStatus(rw, r, st) = [q \in 1..Len(rw) |-> SetStatus(rw, r, st)[q]]
  BY DEF SetStatus
<1> QED
  BY <1>1, <1>3, <1>4, Len(rw) \in Nat, PointwiseSeq

\* new is rw with reward in the place of r.
Replaced(new, rw, r, reward) ==
  /\ new \in Seq(Reward) /\ Len(new) = Len(rw) /\ Ids(new) = 1..Len(rw)
  /\ \A q \in 1..Len(rw) : new[q] = IF q = r THEN reward ELSE rw[q]

LEMMA ReplaceType ==
  ASSUME NEW rw \in Seq(Reward), NEW r, NEW reward \in Reward
  PROVE  Replaced([rw EXCEPT ![r] = reward], rw, r, reward)
<1> DEFINE new == [rw EXCEPT ![r] = reward]
<1>1. new = [q \in 1..Len(rw) |-> new[q]]
  OBVIOUS
<1>2. \A q \in 1..Len(rw) : new[q] = IF q = r THEN reward ELSE rw[q]
  OBVIOUS
<1>3. \A q \in 1..Len(rw) : new[q] \in Reward
  BY <1>2
<1> HIDE DEF new
<1>4. new \in Seq(Reward) /\ Len(new) = Len(rw) /\ Ids(new) = 1..Len(rw)
  BY <1>1, <1>3, Len(rw) \in Nat, PointwiseSeq
<1> QED
  BY <1>2, <1>4 DEF new, Replaced

LEMMA LeastNumber ==
  ASSUME NEW S, S \subseteq Nat, S # {}
  PROVE  \E m \in S : \A k \in S : m <= k
<1> DEFINE Less == OpToRel(<, Nat)
<1>1. IsWellFoundedOn(Less, Nat)
  BY NatLessThanWellFounded
<1>2. \A k, m \in Nat : k < m => <<k, m>> \in Less
  BY DEF OpToRel
<1> HIDE DEF Less
<1>3. PICK m \in S : \A k \in S : ~(<<k, m>> \in Less)
  BY <1>1, WFMin
<1>4. \A k \in S : ~(k < m)
  BY <1>2, <1>3
<1> QED
  BY <1>4

LEMMA SummaryType ==
  ASSUME NEW ev \in Seq(Row), NEW rw \in Seq(Reward), day \in 0..MaxDay
  PROVE  SummaryOf(ev, rw) \in Summary
<1> DEFINE earned   == InStatus(rw, "earned")
           redeemed == InStatus(rw, "redeemed")
<1>1. Ids(rw) = 1..Len(rw) /\ Len(rw) \in Nat
  BY DEF Ids
<1>2. IsFiniteSet(1..Len(rw))
  BY <1>1, FS_Interval
<1>3. earned \subseteq 1..Len(rw) /\ redeemed \subseteq 1..Len(rw)
  BY <1>1 DEF InStatus
<1>4. Cardinality(earned \cup redeemed) \in Nat /\ Cardinality(redeemed) \in Nat
  BY <1>2, <1>3, FS_Subset, FS_CardinalityType
<1>5. ASSUME earned # {}
      PROVE  Min(earned) \in Nat
  BY <1>3, <1>5, LeastNumber DEF Min
<1>6. Unlocked(ev) \in Int /\ \A S : Qty(ev, S) \in Int
  BY EventsQty DEF Unlocked
<1> QED
  BY <1>4, <1>5, <1>6 DEF SummaryOf, Summary

-----------------------------------------------------------------------------
(* The units locked to a reward *)

Locked(ev, q) == Qty(ev, LockedBy(ev, q))

LEMMA LockedSame ==
  ASSUME NEW a \in Seq(Row), NEW b \in Seq(Row), NEW q, Len(a) = Len(b),
         \A i \in 1..Len(a) : /\ a[i].reward = q <=> b[i].reward = q
                              /\ a[i].reward = q => a[i].qty = b[i].qty
  PROVE  Locked(a, q) = Locked(b, q)
<1>1. IsTable(a, Row) /\ IsTable(b, Row)
  BY RowTable
<1>2. \A i \in 1..Len(a) :
        /\ i \in LockedBy(a, q) <=> i \in LockedBy(b, q)
        /\ i \in LockedBy(a, q) => a[i].qty = b[i].qty
  BY DEF LockedBy, Ids
<1> QED
  BY <1>1, <1>2, QtySame DEF Locked

LEMMA LockedAppend ==
  ASSUME NEW ev \in Seq(Row), NEW row \in Row, NEW q
  PROVE  /\ Append(ev, row) \in Seq(Row)
         /\ Len(Append(ev, row)) = Len(ev) + 1
         /\ Append(ev, row)[Len(ev) + 1] = row
         /\ \A i \in 1..Len(ev) : Append(ev, row)[i] = ev[i]
         /\ Locked(Append(ev, row), q) =
              Locked(ev, q) + (IF row.reward = q THEN row.qty ELSE 0)
<1> DEFINE longer == Append(ev, row)
           S == LockedBy(longer, q)
<1>1. /\ longer \in Seq(Row)
      /\ Len(longer) = Len(ev) + 1
      /\ longer[Len(ev) + 1] = row
      /\ \A i \in 1..Len(ev) : longer[i] = ev[i]
  OBVIOUS
<1> HIDE DEF longer
<1>2. Len(ev) + 1 \in S <=> row.reward = q
  BY <1>1 DEF LockedBy, Ids
<1>3. \A i \in 1..Len(ev) : i \in S <=> i \in LockedBy(ev, q)
  BY <1>1 DEF LockedBy, Ids
<1>4. IsTable(ev, Row)
  BY RowTable
<1> HIDE DEF S
<1>5. Qty(ev, S) = Qty(ev, LockedBy(ev, q))
  BY <1>3, <1>4, QtySame
<1>6. Qty(longer, S) = Qty(ev, S) + (IF Len(ev) + 1 \in S THEN row.qty ELSE 0)
  BY <1>4, QtyAppend DEF longer
<1>7. Locked(longer, q) = Locked(ev, q) + (IF row.reward = q THEN row.qty ELSE 0)
  BY <1>2, <1>5, <1>6 DEF Locked, S
<1> QED
  BY <1>1, <1>7 DEF longer

LEMMA LockFacts ==
  ASSUME events \in Seq(Row), NEW L, NEW r \in Nat
  PROVE  /\ Lock(L, r) \in Seq(Row)
         /\ Len(Lock(L, r)) = Len(events)
         /\ \A i \in 1..Len(events) :
              /\ Lock(L, r)[i].qty = events[i].qty
              /\ Lock(L, r)[i].reward = IF i \in L THEN r ELSE events[i].reward
<1>1. \A i \in 1..Len(events) : events[i] \in Row
  OBVIOUS
<1>2. \A i \in 1..Len(events) :
        Lock(L, r)[i] = IF i \in L THEN [events[i] EXCEPT !.reward = r] ELSE events[i]
  BY DEF Lock, Ids
<1>3. ASSUME NEW i \in 1..Len(events)
      PROVE  /\ Lock(L, r)[i] \in Row
             /\ Lock(L, r)[i].qty = events[i].qty
             /\ Lock(L, r)[i].reward = IF i \in L THEN r ELSE events[i].reward
  <2>1. CASE i \in L
    <3>1. Lock(L, r)[i] = [events[i] EXCEPT !.reward = r]
      BY <1>2, <2>1
    <3>2. events[i] \in Row
      BY <1>1
    <3> QED
      BY <2>1, <3>1, <3>2, RowUpdate
  <2>2. CASE i \notin L
    BY <1>1, <1>2, <2>2
  <2> QED
    BY <2>1, <2>2
<1>4. Lock(L, r) = [i \in 1..Len(events) |-> Lock(L, r)[i]]
  BY DEF Lock, Ids
<1> QED
  BY <1>3, <1>4, Len(events) \in Nat, PointwiseSeq

LEMMA ChildType ==
  ASSUME NEW row \in Row, NEW n \in Int, NEW r \in Nat, NEW c \in Nat
  PROVE  Child(row, c, n, r) \in Row
BY DEF Row, Child

LEMMA ChildFields ==
  ASSUME NEW row \in Row, NEW n, NEW r, NEW c
  PROVE  Child(row, c, n, r).qty = n /\ Child(row, c, n, r).reward = r
BY DEF Row, Child

\* A split adds n units to reward r and none to any other reward.
LEMMA SplitFacts ==
  ASSUME NEW ev \in Seq(Row), NEW c \in 1..Len(ev), NEW n \in Int, NEW r \in Nat, r # 0
  PROVE  /\ Split(ev, c, n, r) \in Seq(Row)
         /\ Len(Split(ev, c, n, r)) >= Len(ev)
         /\ \A i \in 1..Len(ev) : Split(ev, c, n, r)[i] = ev[i]
         /\ \A i \in Ids(Split(ev, c, n, r)) :
              i > Len(ev) => Split(ev, c, n, r)[i].reward \in {0, r}
         /\ \A q \in Nat \ {0} :
              Locked(Split(ev, c, n, r), q) = Locked(ev, q) + (IF q = r THEN n ELSE 0)
<1> DEFINE rest  == ev[c].qty - n
           one   == Child(ev[c], c, n, r)
           two   == Child(ev[c], c, rest, 0)
           ev1   == Append(ev, one)
           ev2   == Append(ev1, two)
<1>1. ev[c] \in Row /\ c \in Nat /\ ev[c].qty \in Int
  <2>1. ev[c] \in Row /\ c \in Nat
    OBVIOUS
  <2>2. \A row \in Row : row.qty \in Int
    BY DEF Row
  <2> QED
    BY <2>1, <2>2
<1>2. rest \in Int
  BY <1>1
<1>3. one \in Row /\ one.qty = n /\ one.reward = r
  <2>1. one \in Row
    BY <1>1, ChildType
  <2>2. one.qty = n /\ one.reward = r
    BY <1>1, ChildFields
  <2> QED
    BY <2>1, <2>2
<1>4. two \in Row /\ two.reward = 0
  <2> HIDE DEF rest
  <2>1. two \in Row
    BY <1>1, <1>2, 0 \in Nat, ChildType
  <2>2. two.reward = 0
    BY <1>1, ChildFields
  <2> QED
    BY <2>1, <2>2
<1>5. Split(ev, c, n, r) = IF ev[c].qty > n THEN ev2 ELSE ev1
  BY DEF Split
<1> HIDE DEF one, two, rest
<1>6. /\ ev1 \in Seq(Row) /\ Len(ev1) = Len(ev) + 1
      /\ ev1[Len(ev) + 1] = one /\ \A i \in 1..Len(ev) : ev1[i] = ev[i]
  BY <1>3, LockedAppend
<1>7. \A q \in Nat \ {0} : Locked(ev1, q) = Locked(ev, q) + (IF q = r THEN n ELSE 0)
  BY <1>3, LockedAppend
<1> HIDE DEF ev1
<1>8. /\ ev2 \in Seq(Row) /\ Len(ev2) = Len(ev) + 2
      /\ ev2[Len(ev) + 2] = two /\ \A i \in 1..(Len(ev) + 1) : ev2[i] = ev1[i]
  BY <1>4, <1>6, LockedAppend
<1>9. \A q \in Nat \ {0} : Locked(ev2, q) = Locked(ev1, q)
  <2> TAKE q \in Nat \ {0}
  <2>1. Locked(ev2, q) = Locked(ev1, q) + (IF two.reward = q THEN two.qty ELSE 0)
    BY <1>4, <1>6, LockedAppend
  <2>2. Locked(ev1, q) \in Int
    BY <1>6, EventsQty DEF Locked
  <2> QED
    BY <2>1, <2>2, <1>4
<1> HIDE DEF ev2
<1>10. CASE ev[c].qty > n
  <2>1. Split(ev, c, n, r) = ev2
    BY <1>5, <1>10
  <2>2. \A i \in 1..Len(ev) : ev2[i] = ev[i]
    BY <1>6, <1>8
  <2>3. \A i \in Ids(ev2) : i > Len(ev) => ev2[i].reward \in {0, r}
    <3> SUFFICES ASSUME NEW i \in 1..(Len(ev) + 2), i > Len(ev)
                 PROVE  ev2[i].reward \in {0, r}
      BY <1>8 DEF Ids
    <3>1. i = Len(ev) + 1 \/ i = Len(ev) + 2
      OBVIOUS
    <3> QED
      BY <3>1, <1>3, <1>4, <1>6, <1>8
  <2> QED
    BY <2>1, <2>2, <2>3, <1>7, <1>8, <1>9
<1>11. CASE ~(ev[c].qty > n)
  <2>1. Split(ev, c, n, r) = ev1
    BY <1>5, <1>11
  <2>2. \A i \in Ids(ev1) : i > Len(ev) => ev1[i].reward \in {0, r}
    BY <1>3, <1>6 DEF Ids
  <2> QED
    BY <2>1, <2>2, <1>6, <1>7
<1> QED
  BY <1>10, <1>11

LEMMA ConsumeType ==
  ASSUME events \in Seq(Row), NEW r \in Nat, r # 0, NEW L \in SUBSET Candidates,
         NEW c \in (IF L = Candidates THEN {0} ELSE Earliest(Candidates \ L))
  PROVE  Consume(L, c, r) \in Seq(Row)
<1> DEFINE need   == Required - Qty(events, L)
           locked == Lock(L, r)
<1>1. locked \in Seq(Row) /\ Len(locked) = Len(events)
  BY LockFacts
<1>2. need \in Int
  BY EventsQty, RequiredAssumption
<1>3. Consume(L, c, r) = IF need > 0 /\ c # 0 THEN Split(locked, c, need, r) ELSE locked
  BY DEF Consume
<1> HIDE DEF need, locked
<1>4. c # 0 => c \in 1..Len(locked)
  BY <1>1 DEF Earliest, Candidates, Open, Ids
<1>5. c # 0 => Split(locked, c, need, r) \in Seq(Row)
  BY <1>1, <1>2, <1>4, SplitFacts
<1> QED
  BY <1>1, <1>3, <1>5

\* ev is events after exactly Required units were locked to r, and no other
\* reward gained or lost one.
PaidBy(ev, r) ==
  /\ ev \in Seq(Row)
  /\ Len(ev) >= Len(events)
  /\ \A i \in 1..Len(events) : ev[i].reward \in {events[i].reward, r}
  /\ \A i \in Ids(ev) : i > Len(events) => ev[i].reward \in {0, r}
  /\ Locked(ev, r) = Required
  /\ \A q \in Nat \ {0, r} : Locked(ev, q) = Locked(events, q)

LEMMA ConsumeFacts ==
  ASSUME events \in Seq(Row), NEW r \in Nat, r # 0,
         \A i \in Ids(events) : events[i].reward # r,
         Unlocked(events) >= Required,
         NEW L \in SUBSET Candidates,
         NEW c \in (IF L = Candidates THEN {0} ELSE Earliest(Candidates \ L)),
         Consumable(L, c), NEW ev, ev = Consume(L, c, r)
  PROVE  PaidBy(ev, r)
<1> USE DEF PaidBy
<1> DEFINE have   == Qty(events, L)
           need   == Required - have
           locked == Lock(L, r)
<1>1. /\ Ids(events) = 1..Len(events) /\ Len(events) \in Nat
      /\ \A i \in 1..Len(events) : events[i] \in Row
  BY DEF Ids
<1>2. Candidates \subseteq 1..Len(events) /\ \A i \in Candidates : events[i].reward = 0
  BY <1>1 DEF Candidates, Open
<1>3. have \in Int /\ Required \in Nat /\ have <= Required
  BY EventsQty, RequiredAssumption DEF Consumable
<1>4. /\ locked \in Seq(Row)
      /\ Len(locked) = Len(events)
      /\ \A i \in 1..Len(events) :
           /\ locked[i].qty = events[i].qty
           /\ locked[i].reward = IF i \in L THEN r ELSE events[i].reward
  BY LockFacts
<1>5. ev = IF need > 0 /\ c # 0 THEN Split(locked, c, need, r) ELSE locked
  BY DEF Consume
<1> HIDE DEF locked
<1>6. Locked(locked, r) = have
  <2>1. IsTable(locked, Row) /\ IsTable(events, Row)
    BY <1>4, RowTable
  <2>2. \A i \in 1..Len(locked) :
          /\ i \in LockedBy(locked, r) <=> i \in L
          /\ i \in LockedBy(locked, r) => locked[i].qty = events[i].qty
    BY <1>1, <1>4 DEF LockedBy, Ids
  <2>3. Qty(locked, LockedBy(locked, r)) = Qty(events, L)
    BY <1>4, <2>1, <2>2, QtySame
  <2> QED
    BY <2>3 DEF Locked
<1>7. \A q \in Nat \ {0, r} : Locked(locked, q) = Locked(events, q)
  <2> TAKE q \in Nat \ {0, r}
  <2>1. \A i \in 1..Len(locked) : /\ locked[i].reward = q <=> events[i].reward = q
                                  /\ locked[i].reward = q => locked[i].qty = events[i].qty
    BY <1>2, <1>4
  <2> QED
    BY <1>4, <2>1, LockedSame
<1>8. CASE need > 0 /\ c # 0
  <2>1. c \in 1..Len(locked)
    BY <1>2, <1>4, <1>8 DEF Earliest
  <2>2. need \in Int
    BY <1>3
  <2>3. ev = Split(locked, c, need, r)
    BY <1>5, <1>8
  <2> HIDE DEF need
  <2>4. /\ ev \in Seq(Row)
        /\ Len(ev) >= Len(locked)
        /\ \A i \in 1..Len(locked) : ev[i] = locked[i]
        /\ \A i \in Ids(ev) : i > Len(locked) => ev[i].reward \in {0, r}
        /\ \A q \in Nat \ {0} : Locked(ev, q) = Locked(locked, q) + (IF q = r THEN need ELSE 0)
    BY <1>4, <2>1, <2>2, <2>3, SplitFacts
  <2>5. Locked(ev, r) = Required
    <3>1. Locked(ev, r) = have + need
      BY <1>6, <2>4
    <3> QED
      BY <1>3, <3>1 DEF need
  <2>6. \A q \in Nat \ {0, r} : Locked(ev, q) = Locked(events, q)
    <3> TAKE q \in Nat \ {0, r}
    <3>1. Locked(ev, q) = Locked(locked, q) + 0 /\ Locked(locked, q) = Locked(events, q)
      BY <1>7, <2>4
    <3>2. Locked(events, q) \in Int
      BY EventsQty DEF Locked
    <3> QED
      BY <3>1, <3>2
  <2>7. \A i \in 1..Len(events) : ev[i].reward \in {events[i].reward, r}
    BY <1>4, <2>4
  <2> QED
    BY <1>4, <2>4, <2>5, <2>6, <2>7
<1>9. CASE ~(need > 0 /\ c # 0)
  <2>1. ev = locked
    BY <1>5, <1>9
  <2>2. have >= Required
    <3>1. CASE need > 0
      <4>1. L = Candidates
        <5>1. c = 0
          BY <1>9, <3>1
        <5> QED
          BY <5>1, <1>2 DEF Earliest
      <4>2. IsTable(events, Row) /\ Candidates \subseteq Open(events)
        BY RowTable DEF Candidates
      <4>3. \A i \in Ids(events) : i \in Open(events) \ Candidates => events[i].qty <= 0
        <5>1. \A i \in Ids(events) : events[i].qty \in Int
          BY <1>1 DEF Row
        <5> QED
          BY <5>1 DEF Candidates
      <4>4. Qty(events, Open(events)) <= Qty(events, Candidates)
        BY <4>2, <4>3, QtyMonotone
      <4>5. Qty(events, Open(events)) \in Int
        BY EventsQty
      <4> QED
        BY <1>3, <4>1, <4>4, <4>5 DEF Unlocked
    <3>2. CASE ~(need > 0)
      BY <1>3, <3>2
    <3> QED
      BY <3>1, <3>2
  <2>3. Locked(ev, r) = Required
    BY <1>3, <1>6, <2>1, <2>2
  <2>4. \A i \in 1..Len(events) : ev[i].reward \in {events[i].reward, r}
    BY <1>4, <2>1
  <2> QED
    BY <1>4, <1>7, <2>1, <2>3, <2>4 DEF Ids
<1> QED
  BY <1>8, <1>9

-----------------------------------------------------------------------------
(* Type correctness *)

\* TypeOK, one variable a conjunct.
Typed ==
  /\ day \in 0..MaxDay
  /\ events \in Seq(Row)
  /\ rewards \in Seq(Reward)
  /\ progress \in Int
  /\ summary \in Summary
  /\ processed \in [Orders -> Results]
  /\ saved \in Tables
  /\ tx \in Tx \cup {Idle}
  /\ scan \in SUBSET Nat
  /\ checked \in SUBSET Orders
  /\ visits \in SUBSET Visit
  /\ race \in Races

LEMMA TypedIsTypeOK == TypeOK <=> Typed
BY DEF TypeOK, Typed, Snapshot, Tables

LEMMA TypedInit == Init => Typed
<1> SUFFICES ASSUME Init PROVE Typed
  OBVIOUS
<1>1. NoSummary \in Summary
  BY TimeAssumption DEF NoSummary, Summary
<1>2. <<>> \in Seq(Row) /\ <<>> \in Seq(Reward)
  OBVIOUS
<1>3. [o \in Orders |-> "none"] \in [Orders -> Results]
  BY DEF Results
<1>4. NoSnapshot \in Tables
  BY <1>1, <1>2, <1>3 DEF NoSnapshot, Tables
<1>5. 0 \in 0..MaxDay
  BY TimeAssumption
<1> QED
  BY <1>1, <1>2, <1>3, <1>4, <1>5 DEF Init, Typed, Races

LEMMA RaceType ==
  ASSUME Typed, Starts \/ Ends(TRUE) \/ Ends(tx.wrote) \/ UNCHANGED race
  PROVE  race' \in Races
BY DEF Typed, Starts, Ends, Races

LEMMA BeginType ==
  ASSUME Typed, NEW kind \in {"order", "manual", "return", "expire"},
         NEW phase \in {"record", "progress", "cross"}, NEW o \in Orders,
         NEW at \in Int, NEW todo \in SUBSET Todo, Begin(kind, phase, o, at, todo)
  PROVE  tx' \in Tx \cup {Idle} /\ saved' \in Tables /\ race' \in Races
<1>1. tx' \in Tx
  BY DEF Begin, Tx
<1>2. saved' \in Tables
  BY DEF Begin, Snapshot, Tables, Typed
<1> QED
  BY <1>1, <1>2, RaceType DEF Begin

LEMMA HandledType ==
  ASSUME tx \in Tx, NEW t, NEW phase \in {"record", "progress", "cross"}
  PROVE  Handled(t, phase) \in Tx
BY DEF Handled, Tx

LEMMA NewRowType ==
  ASSUME tx \in Tx, NEW t \in Todo, NEW q \in Int, NEW wend \in Int
  PROVE  NewRow(t, q, wend) \in Row /\ NewRow(t, q, wend).reward = 0
<1>1. NewRow(t, q, wend) \in Row
  BY DEF NewRow, Row, Tx, Todo
<1>2. NewRow(t, q, wend).reward = 0
  BY DEF NewRow
<1> QED
  BY <1>1, <1>2

LEMMA OpenTx ==
  ASSUME Typed, tx # Idle
  PROVE  tx \in Tx
BY DEF Typed

LEMMA ProcessedType ==
  ASSUME Typed, NEW o, NEW result \in Results
  PROVE  [processed EXCEPT ![o] = result] \in [Orders -> Results]
BY DEF Typed

LEMMA NoSnapshotType == NoSnapshot \in Tables
<1>1. NoSummary \in Summary
  BY TimeAssumption DEF NoSummary, Summary
<1>2. <<>> \in Seq(Row) /\ <<>> \in Seq(Reward)
  OBVIOUS
<1>3. [o \in Orders |-> "none"] \in [Orders -> Results]
  BY DEF Results
<1> QED
  BY <1>1, <1>2, <1>3 DEF NoSnapshot, Tables

LEMMA ReturnWindowType ==
  ASSUME Typed, tx \in Tx, NEW t
  PROVE  ReturnWindow(t) \subseteq Int
<1>1. tx.at + Window \in Int
  BY TimeAssumption DEF Tx
<1>2. \A i \in Ids(events) : events[i].wend \in Int
  BY RowFields DEF Typed
<1> QED
  BY <1>1, <1>2 DEF ReturnWindow

\* What is committed, whether a transaction is open or not.
LEMMA CommittedType ==
  ASSUME Typed
  PROVE  /\ Committed.events \in Seq(Row) /\ Committed.rewards \in Seq(Reward)
         /\ tx = Idle => Committed.events = events /\ Committed.rewards = rewards
         /\ tx # Idle => Committed = saved
BY DEF Typed, Committed, Snapshot, Tables

LEMMA AfterType ==
  ASSUME NEW ev \in Seq(Row), NEW rw \in Seq(Reward), NEW r, NEW to \in {"redeemed", "revoked"}
  PROVE  EventsAfter(ev, r, to) \in Seq(Row) /\ SetStatus(rw, r, to) \in Seq(Reward)
BY UnlockType, SetStatusType DEF EventsAfter, Statuses

LEMMA VisitType ==
  ASSUME Typed, NEW r \in Ids(Committed.rewards), NEW to \in {"redeemed", "revoked"},
         BeginVisit(r, to)
  PROVE  visits' \in SUBSET Visit /\ race' \in Races
<1> DEFINE ev == EventsAfter(Committed.events, r, to)
           rw == SetStatus(Committed.rewards, r, to)
<1>1. ev \in Seq(Row) /\ rw \in Seq(Reward)
  BY CommittedType, AfterType
<1> HIDE DEF ev, rw
<1>2. SummaryOf(ev, rw) \in Summary
  BY <1>1, SummaryType DEF Typed
<1>3. r \in Nat
  BY CommittedType DEF Ids
<1>4. visits' = visits \cup {[reward |-> r, to |-> to, summary |-> SummaryOf(ev, rw)]}
  BY DEF BeginVisit, ev, rw
<1> QED
  BY <1>2, <1>3, <1>4, RaceType DEF Typed, Visit, BeginVisit

LEMMA EndVisitType ==
  ASSUME Typed, NEW s \in visits, EndVisit(s)
  PROVE  /\ events' \in Seq(Row) /\ rewards' \in Seq(Reward) /\ summary' \in Summary
         /\ saved' \in Tables /\ visits' \in SUBSET Visit /\ race' \in Races
<1>1. s \in Visit
  BY DEF Typed
<1>2. s.to \in {"redeemed", "revoked"} /\ s.summary \in Summary
  BY <1>1 DEF Visit
<1>3. saved.events \in Seq(Row) /\ saved.rewards \in Seq(Reward)
  BY DEF Typed, Tables
<1>4. events' \in Seq(Row) /\ rewards' \in Seq(Reward)
  BY <1>2, AfterType DEF Typed, EndVisit
<1>5. summary' \in Summary
  BY <1>2 DEF Typed, EndVisit
<1>6. saved' \in Tables
  BY <1>2, <1>3, AfterType DEF Typed, EndVisit, Tables
<1> QED
  BY <1>4, <1>5, <1>6, RaceType DEF Typed, EndVisit

LEMMA TypedStep == Typed /\ [Next]_vars => Typed'
<1> SUFFICES ASSUME Typed, [Next]_vars PROVE Typed'
  OBVIOUS
<1> USE DEF Typed
<1>1. ASSUME NEW o \in Orders, NEW known \in BOOLEAN, SkipOrder(o, known)
      PROVE  Typed'
  <2>1. processed' \in [Orders -> Results]
    BY <1>1, ProcessedType DEF SkipOrder, Results
  <2> QED
    BY <1>1, <2>1 DEF SkipOrder
<1>2. ASSUME NEW o \in Orders, NEW at \in (day - Lag)..day, BeginOrder(o, at)
      PROVE  Typed'
  <2>1. at \in Int
    BY TimeAssumption
  <2>2. tx' \in Tx \cup {Idle} /\ saved' \in Tables /\ race' \in Races
    BY <1>2, <2>1, AggregateType, BeginType DEF BeginOrder
  <2>3. processed' \in [Orders -> Results]
    BY <1>2, ProcessedType DEF BeginOrder, Results
  <2> QED
    BY <1>2, <2>2, <2>3 DEF BeginOrder
<1>3. ASSUME NEW o \in Orders, BeginReturns(o)
      PROVE  Typed'
  <2>1. day \in Int
    BY TimeAssumption
  <2>2. Returns[o] \in SUBSET Todo
    BY ReturnsAssumption DEF Todo
  <2>3. tx' \in Tx \cup {Idle} /\ saved' \in Tables /\ race' \in Races
    BY <1>3, <2>1, <2>2, BeginType DEF BeginReturns
  <2> QED
    BY <1>3, <2>3 DEF BeginReturns, tables
<1>4. ASSUME NEW m \in ManualEntries, BeginManual(m)
      PROVE  Typed'
  <2>1. m \in [order : Orders, item : Items, qty : Nat \ {0}] /\ day \in Int
    BY ManualAssumption, TimeAssumption
  <2>2. {[item |-> m.item, qty |-> m.qty, ref |-> NoRef]} \in SUBSET Todo /\ m.order \in Orders
    BY <2>1 DEF Todo
  <2>3. tx' \in Tx \cup {Idle} /\ saved' \in Tables /\ race' \in Races
    BY <1>4, <2>1, <2>2, BeginType DEF BeginManual
  <2> QED
    BY <1>4, <2>3 DEF BeginManual, tables
<1>5. ASSUME tx # Idle, NEW t \in tx.todo, RecordPurchase(t)
      PROVE  Typed'
  <2>1. tx \in Tx /\ t \in Todo
    BY <1>5, OpenTx DEF Tx
  <2>2. tx' \in Tx
    BY <1>5, <2>1, HandledType DEF RecordPurchase
  <2>3. tx.at + Window \in Int /\ t.qty \in Int
    BY <2>1, TimeAssumption DEF Tx, Todo
  <2>4. NewRow(t, t.qty, tx.at + Window) \in Row
    BY <2>1, <2>3, NewRowType
  <2>5. events' \in Seq(Row)
    <3>1. events' \in {events, Append(events, NewRow(t, t.qty, tx.at + Window))}
      BY <1>5 DEF RecordPurchase
    <3> QED
      BY <2>4, <3>1
  <2> QED
    BY <1>5, <2>2, <2>5 DEF RecordPurchase
<1>6. ASSUME tx # Idle, NEW t \in tx.todo, RecordReturn(t)
      PROVE  Typed'
  <2>1. tx \in Tx /\ t \in Todo
    BY <1>6, OpenTx DEF Tx
  <2>2. tx' \in Tx
    BY <1>6, <2>1, HandledType DEF RecordReturn
  <2>3. \A wend \in ReturnWindow(t) : NewRow(t, -t.qty, wend) \in Row
    <3>1. t.qty \in Int /\ -t.qty \in Int
      BY <2>1 DEF Todo
    <3>2. ReturnWindow(t) \subseteq Int
      BY <2>1, ReturnWindowType
    <3> QED
      BY <2>1, <3>1, <3>2, NewRowType
  <2>4. events' \in Seq(Row) /\ rewards' \in Seq(Reward)
    <3>1. CASE t.item \in Qualifying /\ ~Recorded(t)
      <4>1. PICK wend \in ReturnWindow(t),
                 r \in (IF InStatus(rewards, "earned") = {} THEN {0} ELSE InStatus(rewards, "earned")) :
              LET ev   == Append(events, NewRow(t, -t.qty, wend))
                  void == r # 0 /\ Qty(ev, LockedBy(ev, r)) < Required
              IN  /\ events' = IF void THEN Unlock(ev, r) ELSE ev
                  /\ rewards' = IF void THEN SetStatus(rewards, r, "revoked") ELSE rewards
        BY <1>6, <3>1 DEF RecordReturn
      <4>2. Append(events, NewRow(t, -t.qty, wend)) \in Seq(Row)
        BY <2>3
      <4>3. Unlock(Append(events, NewRow(t, -t.qty, wend)), r) \in Seq(Row)
        BY <4>2, UnlockType
      <4>4. SetStatus(rewards, r, "revoked") \in Seq(Reward)
        BY SetStatusType DEF Statuses
      <4> QED
        BY <4>1, <4>2, <4>3, <4>4
    <3>2. CASE ~(t.item \in Qualifying /\ ~Recorded(t))
      BY <1>6, <3>2 DEF RecordReturn
    <3> QED
      BY <3>1, <3>2
  <2> QED
    BY <1>6, <2>2, <2>4 DEF RecordReturn
<1>7. ASSUME UpdateProgress PROVE Typed'
  <2>1. tx \in Tx
    BY <1>7, OpenTx DEF UpdateProgress
  <2>2. Unlocked(events) \in Int
    BY EventsQty DEF Unlocked
  <2>3. rewards' \in Seq(Reward)
    <3>1. NewReward \in Reward
      BY DEF NewReward, Reward, Statuses
    <3> QED
      BY <1>7, <3>1 DEF UpdateProgress
  <2>4. progress' \in Int
    BY <1>7, <2>2 DEF UpdateProgress
  <2>5. tx' \in Tx
    <3> DEFINE current == InStatus(rewards, "in_progress")
               create  == current = {} /\ Unlocked(events) > 0
    <3>1. PICK r \in (IF create THEN {Len(rewards) + 1} ELSE IF current = {} THEN {0} ELSE current) :
            tx' = [tx EXCEPT !.phase = "cross", !.reward = r]
      BY <1>7 DEF UpdateProgress
    <3>2. r \in Nat
      BY DEF InStatus, Ids
    <3> QED
      BY <2>1, <3>1, <3>2 DEF Tx
  <2> QED
    BY <1>7, <2>3, <2>4, <2>5 DEF UpdateProgress
<1>8. ASSUME EarnReward PROVE Typed'
  <2>1. tx \in Tx /\ tx.reward \in Nat /\ tx.reward # 0
    BY <1>8, OpenTx DEF EarnReward, CrossingDue, Tx
  <2>2. events' \in Seq(Row)
    BY <1>8, <2>1, ConsumeType DEF EarnReward
  <2>3. Unlocked(events') \in Int
    BY <2>2, EventsQty DEF Unlocked
  <2>4. rewards' \in Seq(Reward)
    <3> DEFINE paid   == [status |-> "earned", earnedAt |-> day]
               earned == [rewards EXCEPT ![tx.reward] = paid]
    <3>1. paid \in Reward /\ NewReward \in Reward
      BY TimeAssumption DEF Reward, Statuses, NewReward
    <3> HIDE DEF paid
    <3>2. earned \in Seq(Reward)
      BY <3>1, ReplaceType DEF Replaced
    <3>3. rewards' = earned \/ rewards' = Append(earned, NewReward)
      BY <1>8 DEF EarnReward, paid
    <3> HIDE DEF earned
    <3> QED
      BY <3>1, <3>2, <3>3
  <2>5. progress' \in Int
    BY <1>8, <2>3 DEF EarnReward
  <2>6. tx' \in Tx
    <3>1. tx' = tx \/ tx' = [tx EXCEPT !.reward = Len(rewards) + 1]
      BY <1>8 DEF EarnReward
    <3>2. Len(rewards) + 1 \in Nat
      OBVIOUS
    <3> QED
      BY <2>1, <3>1, <3>2 DEF Tx
  <2> QED
    BY <1>8, <2>2, <2>4, <2>5, <2>6 DEF EarnReward
<1>9. ASSUME ReadSummary \/ WriteSummary PROVE Typed'
  <2>1. tx \in Tx
    BY <1>9, OpenTx DEF ReadSummary, WriteSummary
  <2>2. \/ tx' = [tx EXCEPT !.phase = "upsert", !.reward = 0]
        \/ tx' = [tx EXCEPT !.phase = "record", !.wrote = TRUE]
    BY <1>9 DEF ReadSummary, WriteSummary
  <2>4. tx' \in Tx
    <3>1. CASE tx' = [tx EXCEPT !.phase = "upsert", !.reward = 0]
      BY <2>1, <3>1 DEF Tx
    <3>2. CASE tx' = [tx EXCEPT !.phase = "record", !.wrote = TRUE]
      BY <2>1, <3>2, Zenon DEF Tx
    <3> QED
      BY <2>2, <3>1, <3>2
  <2>3. summary' \in Summary
    BY <1>9, SummaryType DEF ReadSummary, WriteSummary, tables
  <2> QED
    BY <1>9, <2>4, <2>3 DEF ReadSummary, WriteSummary, tables
<1>10. ASSUME Commit PROVE Typed'
  <2>1. processed' \in [Orders -> Results]
    BY <1>10, ProcessedType DEF Commit, Results
  <2>2. race' \in Races
    BY <1>10, RaceType DEF Commit
  <2> QED
    BY <1>10, <2>1, <2>2, NoSnapshotType DEF Commit
<1>11. ASSUME Rollback PROVE Typed'
  BY <1>11, NoSnapshotType DEF Rollback, Tables
<1>12. ASSUME NEW r \in Ids(Committed.rewards), BeginRedeem(r) \/ BeginRevoke(r)
       PROVE  Typed'
  <2>1. PICK to \in {"redeemed", "revoked"} : BeginVisit(r, to)
    BY <1>12 DEF BeginRedeem, BeginRevoke
  <2>2. visits' \in SUBSET Visit /\ race' \in Races
    BY <2>1, VisitType
  <2> QED
    BY <2>1, <2>2 DEF BeginVisit, tables
<1>13. ASSUME NEW s \in visits, Redeem(s) \/ RedeemFails(s) \/ ExpireApply(s)
       PROVE  Typed'
  <2>1. CASE EndVisit(s) /\ (scan' = scan \/ scan' = scan \ {s.reward})
    BY <2>1, EndVisitType DEF EndVisit
  <2>2. CASE RedeemFails(s)
    BY <2>2 DEF RedeemFails, tables
  <2> QED
    BY <1>13, <2>1, <2>2 DEF Redeem, ExpireApply
<1>14. ASSUME BeginExpire PROVE Typed'
  <2>1. PICK i \in Ids(events) : TRUE
    BY <1>14 DEF BeginExpire
  <2>2. events[i].order \in Orders
    BY <2>1, RowFields
  <2>3. (CHOOSE o \in Orders : TRUE) \in Orders
    BY <2>2
  <2>4. day \in Int
    BY TimeAssumption
  <2>5. tx' \in Tx \cup {Idle} /\ saved' \in Tables /\ race' \in Races
    BY <1>14, <2>3, <2>4, {} \in SUBSET Todo, BeginType DEF BeginExpire
  <2> QED
    BY <1>14, <2>5 DEF BeginExpire, tables
<1>15. ASSUME ExpireScan PROVE Typed'
  <2>1. ExpiredRewards \in SUBSET Nat
    BY CommittedType DEF ExpiredRewards, InStatus, Ids
  <2> QED
    BY <1>15, <2>1 DEF ExpireScan, tables
<1>16. ASSUME ExpireAbort PROVE Typed'
  BY <1>16 DEF ExpireAbort, tables
<1>17. ASSUME Tick PROVE Typed'
  <2>1. day' \in 0..MaxDay
    BY <1>17, TimeAssumption DEF Tick
  <2> QED
    BY <1>17, <2>1 DEF Tick, tables
<1>18. ASSUME UNCHANGED vars PROVE Typed'
  BY <1>18 DEF vars, tables
<1>19. ASSUME NEW o \in Orders, CheckOrder(o) PROVE Typed'
  BY <1>19 DEF CheckOrder, tables
<1> QED
  BY <1>1, <1>2, <1>3, <1>4, <1>5, <1>6, <1>7, <1>8, <1>9, <1>10, <1>11, <1>12,
     <1>13, <1>14, <1>15, <1>16, <1>17, <1>18, <1>19 DEF Next

\* Every variable of the ledger keeps its type.
THEOREM TypeCorrect == Spec => []TypeOK
<1>1. Spec => []Typed
  BY TypedInit, TypedStep, PTL DEF Spec
<1> QED
  BY <1>1, TypedIsTypeOK, PTL

-----------------------------------------------------------------------------
(* Rows and rewards *)

Standing == {"earned", "redeemed"}

\* The inductive part of what the properties say of the two tables, for the
\* current tables and for the ones a rollback restores.
LocksStanding(ev, rw) ==
  \A i \in Ids(ev) : ev[i].reward # 0 =>
    ev[i].reward \in Ids(rw) /\ rw[ev[i].reward].status \in Standing
OneOpen(rw) == \A q, r \in InStatus(rw, "in_progress") : q = r
Backed(ev, rw) ==
  \A r \in Ids(rw) : rw[r].status \in Standing => Locked(ev, r) = Required
Sound(ev, rw) == LocksStanding(ev, rw) /\ OneOpen(rw) /\ Backed(ev, rw)

LEMMA IdsAreNumbers ==
  ASSUME NEW rw \in Seq(Reward)
  PROVE  Ids(rw) = 1..Len(rw) /\ Len(rw) \in Nat /\ Ids(rw) \subseteq Nat \ {0}
BY DEF Ids

\* A new row that is not locked.
LEMMA SoundAppend ==
  ASSUME NEW ev \in Seq(Row), NEW rw \in Seq(Reward), Sound(ev, rw),
         NEW row \in Row, row.reward = 0
  PROVE  Sound(Append(ev, row), rw)
<1> DEFINE longer == Append(ev, row)
<1>1. /\ longer \in Seq(Row) /\ Len(longer) = Len(ev) + 1
      /\ longer[Len(ev) + 1] = row
      /\ \A i \in 1..Len(ev) : longer[i] = ev[i]
  BY LockedAppend
<1>2. \A q \in Nat \ {0} : Locked(longer, q) = Locked(ev, q)
  <2> TAKE q \in Nat \ {0}
  <2>1. Locked(longer, q) = Locked(ev, q) + 0
    BY LockedAppend
  <2>2. Locked(ev, q) \in Int
    BY EventsQty DEF Locked
  <2> QED
    BY <2>1, <2>2
<1> HIDE DEF longer
<1>3. LocksStanding(longer, rw)
  BY <1>1 DEF Sound, LocksStanding, Ids
<1>4. Backed(longer, rw)
  BY <1>2, IdsAreNumbers DEF Sound, Backed
<1> QED
  BY <1>3, <1>4 DEF Sound, longer

\* A reward is revoked and its rows are unlocked.
LEMMA SoundRevoke ==
  ASSUME NEW ev \in Seq(Row), NEW rw \in Seq(Reward), Sound(ev, rw), NEW r \in Ids(rw)
  PROVE  Sound(Unlock(ev, r), SetStatus(rw, r, "revoked"))
<1> DEFINE new == SetStatus(rw, r, "revoked")
           open == Unlock(ev, r)
<1>1. /\ new \in Seq(Reward) /\ Ids(new) = Ids(rw)
      /\ \A q \in Ids(rw) : new[q].status = IF q = r THEN "revoked" ELSE rw[q].status
  BY SetStatusType DEF Statuses
<1>2. /\ open \in Seq(Row) /\ Len(open) = Len(ev)
      /\ \A i \in 1..Len(ev) :
           /\ open[i].qty = ev[i].qty
           /\ open[i].reward = IF ev[i].reward = r THEN 0 ELSE ev[i].reward
  BY UnlockType
<1> HIDE DEF new, open
<1>3. LocksStanding(open, new)
  BY <1>1, <1>2 DEF Sound, LocksStanding, Ids
<1>4. OneOpen(new)
  BY <1>1 DEF Sound, OneOpen, InStatus
<1>5. ASSUME NEW q \in Ids(new), new[q].status \in Standing
      PROVE  Locked(open, q) = Required
  <2>1. q \in Ids(rw) /\ q # r /\ rw[q].status \in Standing /\ q # 0
    BY <1>1, <1>5, IdsAreNumbers DEF Standing
  <2>2. \A i \in 1..Len(open) : /\ open[i].reward = q <=> ev[i].reward = q
                                /\ open[i].reward = q => open[i].qty = ev[i].qty
    BY <1>2, <2>1
  <2>3. Locked(open, q) = Locked(ev, q)
    BY <1>2, <2>2, LockedSame
  <2> QED
    BY <2>1, <2>3 DEF Sound, Backed
<1> QED
  BY <1>3, <1>4, <1>5 DEF Sound, Backed, new, open

LEMMA SoundRedeem ==
  ASSUME NEW ev \in Seq(Row), NEW rw \in Seq(Reward), Sound(ev, rw),
         NEW r \in InStatus(rw, "earned")
  PROVE  Sound(ev, SetStatus(rw, r, "redeemed"))
<1> DEFINE new == SetStatus(rw, r, "redeemed")
<1>1. /\ Ids(new) = Ids(rw)
      /\ \A q \in Ids(rw) : new[q].status = IF q = r THEN "redeemed" ELSE rw[q].status
  BY SetStatusType DEF Statuses
<1>2. r \in Ids(rw) /\ rw[r].status = "earned"
  BY DEF InStatus
<1> HIDE DEF new
<1>3. LocksStanding(ev, new)
  BY <1>1 DEF Sound, LocksStanding, Standing
<1>4. OneOpen(new)
  BY <1>1 DEF Sound, OneOpen, InStatus
<1>5. Backed(ev, new)
  BY <1>1, <1>2 DEF Sound, Backed, Standing
<1> QED
  BY <1>3, <1>4, <1>5 DEF Sound, new

LEMMA SoundOpen ==
  ASSUME NEW ev \in Seq(Row), NEW rw \in Seq(Reward), Sound(ev, rw),
         InStatus(rw, "in_progress") = {}
  PROVE  Sound(ev, Append(rw, NewReward))
<1> DEFINE new == Append(rw, NewReward)
<1>1. NewReward \in Reward /\ NewReward.status = "in_progress"
  BY DEF NewReward, Reward, Statuses
<1>2. /\ Ids(rw) = 1..Len(rw) /\ Ids(new) = 1..(Len(rw) + 1) /\ Len(rw) \in Nat
      /\ \A q \in 1..Len(rw) : new[q] = rw[q]
      /\ new[Len(rw) + 1] = NewReward
  BY <1>1 DEF Ids
<1> HIDE DEF new
<1>3. LocksStanding(ev, new)
  BY <1>2 DEF Sound, LocksStanding
<1>4. OneOpen(new)
  BY <1>2 DEF OneOpen, InStatus
<1>5. Backed(ev, new)
  BY <1>1, <1>2 DEF Sound, Backed, Standing
<1> QED
  BY <1>3, <1>4, <1>5 DEF Sound, new

\* A reward that is earned is paid for by the rows that were selected.
LEMMA EarnPaid ==
  ASSUME Typed, Sound(events, rewards), tx.reward \in Ids(rewards), EarnReward
  PROVE  /\ PaidBy(events', tx.reward) /\ tx.reward \in Nat /\ tx.reward # 0
         /\ rewards[tx.reward].status = "in_progress"
         /\ \A i \in Ids(events) : events[i].reward # tx.reward
<1> DEFINE r == tx.reward
<1>1. /\ r \in Nat /\ r # 0
      /\ rewards[r].status = "in_progress" /\ Unlocked(events) >= Required
  BY IdsAreNumbers DEF Typed, EarnReward, CrossingDue
<1>2. \A i \in Ids(events) : events[i].reward # r
  BY <1>1 DEF Sound, LocksStanding, Standing
<1>3. PICK L \in SUBSET Candidates :
        \E c \in (IF L = Candidates THEN {0} ELSE Earliest(Candidates \ L)) :
          Consumable(L, c) /\ events' = Consume(L, c, r)
  BY DEF EarnReward
<1>4. PICK c \in (IF L = Candidates THEN {0} ELSE Earliest(Candidates \ L)) :
        Consumable(L, c) /\ events' = Consume(L, c, r)
  BY <1>3
<1> HIDE DEF r
<1>5. events \in Seq(Row)
  BY DEF Typed
<1>6. PICK ev : ev = Consume(L, c, r) /\ events' = ev
  BY <1>4
<1>7. Consumable(L, c)
  BY <1>4
<1>8. PaidBy(ev, r)
  BY <1>1, <1>2, <1>5, <1>6, <1>7, ConsumeFacts
<1> QED
  BY <1>1, <1>2, <1>6, <1>8 DEF r

\* The reward in progress is earned with the rows that were selected.
LEMMA SoundEarn ==
  ASSUME Typed, Sound(events, rewards), tx.reward \in Ids(rewards), EarnReward
  PROVE  Sound(events', rewards')
<1> DEFINE r      == tx.reward
           paid   == [status |-> "earned", earnedAt |-> day]
           earned == [rewards EXCEPT ![r] = paid]
<1>1. /\ Ids(rewards) = 1..Len(rewards) /\ Len(rewards) \in Nat
      /\ r \in 1..Len(rewards) /\ r \in Nat /\ r # 0
      /\ rewards[r].status = "in_progress"
  BY IdsAreNumbers DEF Typed, EarnReward, CrossingDue
<1>2. paid \in Reward /\ paid.status = "earned"
  BY TimeAssumption DEF Typed, Reward, Statuses
<1> HIDE DEF paid
<1>3. /\ earned \in Seq(Reward) /\ Ids(earned) = 1..Len(rewards)
      /\ \A q \in 1..Len(rewards) : earned[q] = IF q = r THEN paid ELSE rewards[q]
  BY <1>2, ReplaceType DEF Typed, Replaced
<1>6. /\ events' \in Seq(Row)
      /\ Len(events') >= Len(events)
      /\ \A i \in 1..Len(events) : events'[i].reward \in {events[i].reward, r}
      /\ \A i \in Ids(events') : i > Len(events) => events'[i].reward \in {0, r}
      /\ Locked(events', r) = Required
      /\ \A q \in Nat \ {0, r} : Locked(events', q) = Locked(events, q)
  BY EarnPaid DEF PaidBy
<1> HIDE DEF earned
<1>7. LocksStanding(events', earned)
  <2> SUFFICES ASSUME NEW i \in Ids(events'), events'[i].reward # 0
               PROVE  /\ events'[i].reward \in Ids(earned)
                      /\ earned[events'[i].reward].status \in Standing
    BY DEF LocksStanding
  <2>1. CASE events'[i].reward = r
    BY <1>1, <1>2, <1>3, <2>1 DEF Standing
  <2>2. CASE events'[i].reward # r
    <3>1. Ids(events') = 1..Len(events') /\ Ids(events) = 1..Len(events) /\ Len(events) \in Nat
      BY <1>6 DEF Ids, Typed
    <3>2. i \in Ids(events) /\ events'[i].reward = events[i].reward
      BY <1>6, <2>2, <3>1
    <3>3. events[i].reward \in Ids(rewards) /\ rewards[events[i].reward].status \in Standing
      BY <3>2 DEF Sound, LocksStanding
    <3> QED
      BY <1>1, <1>3, <2>2, <3>2, <3>3
  <2> QED
    BY <2>1, <2>2
<1>8. InStatus(earned, "in_progress") = {}
  BY <1>1, <1>2, <1>3 DEF Sound, OneOpen, InStatus
<1>9. Backed(events', earned)
  <2> SUFFICES ASSUME NEW q \in 1..Len(rewards), earned[q].status \in Standing
               PROVE  Locked(events', q) = Required
    BY <1>3 DEF Backed
  <2>1. CASE q = r
    BY <1>6, <2>1
  <2>2. CASE q # r
    BY <1>1, <1>3, <1>6, <2>2 DEF Sound, Backed
  <2> QED
    BY <2>1, <2>2
<1>10. Sound(events', earned)
  BY <1>7, <1>8, <1>9 DEF Sound, OneOpen
<1>11. Sound(events', Append(earned, NewReward))
  BY <1>3, <1>6, <1>8, <1>10, SoundOpen
<1>12. rewards' = earned \/ rewards' = Append(earned, NewReward)
  BY DEF EarnReward, earned, paid
<1> QED
  BY <1>10, <1>11, <1>12

\* A redemption or a revocation ends: the tables stay sound.
LEMMA SoundVisit ==
  ASSUME NEW ev \in Seq(Row), NEW rw \in Seq(Reward), Sound(ev, rw), NEW r \in Ids(rw),
         NEW to \in {"redeemed", "revoked"}, to = "redeemed" => rw[r].status = "earned"
  PROVE  Sound(EventsAfter(ev, r, to), SetStatus(rw, r, to))
BY SoundRevoke, SoundRedeem DEF EventsAfter, InStatus

\* What is to happen to rewards: those selected by expiry are no longer in progress,
\* and nobody else touches the ones that open redemptions hold.
Clear(expired, during, rw) ==
  /\ \A r \in expired : r \in Ids(rw) /\ rw[r].status # "in_progress"
  /\ \A s \in during : s.reward \in Ids(rw)
  /\ \A s \in during : s.to = "redeemed" => rw[s.reward].status = "earned"
  /\ \A s \in during : s.to = "revoked" => s.reward \in expired
Expirable(rw) == Clear(scan, visits, rw)

\* One visitor for a reward: its row is locked.
Apart == \A s, u \in visits : s.reward = u.reward => s = u

\* What a transaction may have done to the rewards that are committed, old: it has
\* earned the one in progress and created others.
Behind(old, new) ==
  /\ \A r \in Ids(old) : r \in Ids(new)
  /\ \A r \in Ids(old) : old[r].status # "in_progress" => new[r].status = old[r].status
  /\ \A r \in Ids(new) : new[r].status \in {"redeemed", "revoked"} => r \in Ids(old)
  /\ \A r \in Ids(old) : new[r].status \in {"redeemed", "revoked"} => old[r].status = new[r].status

\* What holds in every reachable state, inside and outside transactions.
LedgerInv ==
  /\ Typed
  /\ Apart
  /\ Sound(events, rewards)
  /\ tx # Idle => /\ Sound(saved.events, saved.rewards)
                  /\ tx.reward = 0 \/ tx.reward \in Ids(rewards)
                  /\ Expirable(saved.rewards)
                  /\ Behind(saved.rewards, rewards)
  /\ Expirable(rewards)

LEMMA LedgerInit == Init => LedgerInv
<1> SUFFICES ASSUME Init PROVE LedgerInv
  OBVIOUS
<1>1. Ids(<<>>) = {}
  BY DEF Ids
<1>2. Sound(<<>>, <<>>)
  BY <1>1 DEF Sound, LocksStanding, OneOpen, Backed, InStatus
<1> QED
  BY <1>2, TypedInit DEF Init, LedgerInv, Expirable, Clear, Apart

\* A transaction starts with the tables as they are committed.
LEMMA LedgerBegin ==
  ASSUME LedgerInv, Typed', NEW kind, NEW phase, NEW o, NEW at, NEW todo,
         Begin(kind, phase, o, at, todo), UNCHANGED <<events, rewards, scan, visits>>
  PROVE  LedgerInv'
<1>1. tx'.reward = 0
  BY DEF Begin
<1>2. saved'.events = events /\ saved'.rewards = rewards
  BY DEF Begin, Snapshot
<1>3. Behind(rewards, rewards)
  BY DEF Behind
<1> QED
  BY <1>1, <1>2, <1>3 DEF LedgerInv, Expirable, Clear, Apart

\* A reward is paid for by exactly the units it cost, and a return locks none: the
\* check of processRefund never finds a reward to revoke (see RefundRevokes).
LEMMA ReturnAppends ==
  ASSUME Typed, Sound(events, rewards), tx # Idle, NEW t \in tx.todo, RecordReturn(t)
  PROVE  /\ rewards' = rewards
         /\ ~(t.item \in Qualifying /\ ~Recorded(t)) => events' = events
         /\ t.item \in Qualifying /\ ~Recorded(t) =>
              \E wend \in Int : /\ NewRow(t, -t.qty, wend) \in Row
                              /\ NewRow(t, -t.qty, wend).reward = 0
                              /\ events' = Append(events, NewRow(t, -t.qty, wend))
<1>1. tx \in Tx /\ t \in Todo
  BY OpenTx DEF Tx
<1>2. CASE t.item \in Qualifying /\ ~Recorded(t)
  <2>1. PICK wend \in ReturnWindow(t) :
          \E r \in (IF InStatus(rewards, "earned") = {} THEN {0} ELSE InStatus(rewards, "earned")) :
            LET ev   == Append(events, NewRow(t, -t.qty, wend))
                void == r # 0 /\ Qty(ev, LockedBy(ev, r)) < Required
            IN  /\ events' = IF void THEN Unlock(ev, r) ELSE ev
                /\ rewards' = IF void THEN SetStatus(rewards, r, "revoked") ELSE rewards
    BY <1>2 DEF RecordReturn
  <2> DEFINE ev == Append(events, NewRow(t, -t.qty, wend))
  <2>2. PICK r \in (IF InStatus(rewards, "earned") = {} THEN {0} ELSE InStatus(rewards, "earned")) :
          \/ events' = ev /\ rewards' = rewards
          \/ r # 0 /\ Locked(ev, r) < Required
    BY <2>1 DEF Locked
  <2>3. wend \in Int /\ NewRow(t, -t.qty, wend) \in Row /\ NewRow(t, -t.qty, wend).reward = 0
    <3>1. -t.qty \in Int
      BY <1>1 DEF Todo
    <3>2. wend \in Int
      BY <1>1, ReturnWindowType
    <3> QED
      BY <1>1, <3>1, <3>2, NewRowType
  <2>4. ev \in Seq(Row) /\ Sound(ev, rewards) /\ rewards \in Seq(Reward)
    BY <2>3, SoundAppend DEF Typed
  <2>5. events' = ev /\ rewards' = rewards
    <3>1. ASSUME r # 0, Locked(ev, r) < Required PROVE FALSE
      <4>1. r \in Ids(rewards) /\ rewards[r].status = "earned"
        BY <2>2, <3>1 DEF InStatus
      <4>2. Locked(ev, r) = Required
        BY <2>4, <4>1 DEF Sound, Backed, Standing
      <4> QED
        BY <3>1, <4>2, RequiredAssumption
    <3> QED
      BY <2>2, <3>1
  <2> QED
    BY <1>2, <2>3, <2>5
<1>3. CASE ~(t.item \in Qualifying /\ ~Recorded(t))
  BY <1>3 DEF RecordReturn
<1> QED
  BY <1>2, <1>3

\* s commits.
Ending(s) ==
  /\ EndVisit(s)
  /\ visits' = visits \ {s}
  /\ scan' = IF s.to = "revoked" THEN scan \ {s.reward} ELSE scan

\* What it does to the tables that are committed while a transaction is open.
LEMMA SavedEnd ==
  ASSUME Typed, NEW s \in visits, Ending(s), tx # Idle
  PROVE  /\ saved'.events = EventsAfter(saved.events, s.reward, s.to)
         /\ saved'.rewards = SetStatus(saved.rewards, s.reward, s.to)
         /\ saved'.summary = s.summary
         /\ saved'.processed = saved.processed
<1>1. saved \in Tables
  BY DEF Typed
<1>2. saved' = [saved EXCEPT !.events = EventsAfter(@, s.reward, s.to),
                             !.rewards = SetStatus(@, s.reward, s.to),
                             !.summary = s.summary]
  BY DEF Ending, EndVisit
<1> QED
  BY <1>1, <1>2 DEF Tables

LEMMA LedgerStep == LedgerInv /\ [Next]_vars => LedgerInv'
<1> SUFFICES ASSUME LedgerInv, [Next]_vars PROVE LedgerInv'
  OBVIOUS
<1>0. Typed /\ Typed'
  BY TypedStep DEF LedgerInv
<1>1. ASSUME NEW o \in Orders, NEW known \in BOOLEAN, SkipOrder(o, known)
      PROVE  LedgerInv'
  BY <1>0, <1>1 DEF SkipOrder, LedgerInv, Expirable, Clear, Apart
<1>2. ASSUME NEW o \in Orders, NEW at \in (day - Lag)..day, BeginOrder(o, at)
      PROVE  LedgerInv'
  BY <1>0, <1>2, LedgerBegin DEF BeginOrder
<1>3. ASSUME NEW o \in Orders, BeginReturns(o)
      PROVE  LedgerInv'
  BY <1>0, <1>3, LedgerBegin DEF BeginReturns, tables
<1>4. ASSUME NEW m \in ManualEntries, BeginManual(m)
      PROVE  LedgerInv'
  BY <1>0, <1>4, LedgerBegin DEF BeginManual, tables
<1>5. ASSUME tx # Idle, NEW t \in tx.todo, RecordPurchase(t)
      PROVE  LedgerInv'
  <2>1. tx \in Tx /\ t \in Todo
    BY <1>0, <1>5, OpenTx DEF Tx
  <2>2. tx.at + Window \in Int /\ t.qty \in Int
    BY <2>1, TimeAssumption DEF Tx, Todo
  <2>3. NewRow(t, t.qty, tx.at + Window) \in Row /\ NewRow(t, t.qty, tx.at + Window).reward = 0
    BY <2>1, <2>2, NewRowType
  <2>4. Sound(Append(events, NewRow(t, t.qty, tx.at + Window)), rewards)
    BY <1>0, <2>3, SoundAppend DEF Typed, LedgerInv
  <2>5. events' = Append(events, NewRow(t, t.qty, tx.at + Window)) \/ events' = events
    BY <1>5 DEF RecordPurchase
  <2>6. Sound(events', rewards')
    BY <1>5, <2>4, <2>5 DEF RecordPurchase, LedgerInv
  <2>7. tx'.reward = tx.reward
    BY <1>5, <2>1 DEF RecordPurchase, Handled, Tx
  <2> QED
    BY <1>0, <1>5, <2>6, <2>7 DEF RecordPurchase, LedgerInv, Expirable, Clear, Apart
<1>6. ASSUME tx # Idle, NEW t \in tx.todo, RecordReturn(t)
      PROVE  LedgerInv'
  <2>1. tx \in Tx /\ t \in Todo
    BY <1>0, <1>6, OpenTx DEF Tx
  <2>2. tx'.reward = tx.reward
    BY <1>6, <2>1 DEF RecordReturn, Handled, Tx
  <2>3. rewards' = rewards /\ Sound(events', rewards)
    <3>1. events \in Seq(Row) /\ rewards \in Seq(Reward) /\ Sound(events, rewards)
      BY <1>0 DEF Typed, LedgerInv
    <3> QED
      BY <1>0, <1>6, <3>1, ReturnAppends, SoundAppend
  <2> QED
    BY <1>0, <1>6, <2>2, <2>3 DEF RecordReturn, LedgerInv, Expirable, Clear, Apart
<1>7. ASSUME UpdateProgress PROVE LedgerInv'
  <2> DEFINE current == InStatus(rewards, "in_progress")
             create  == current = {} /\ Unlocked(events) > 0
  <2>1. PICK r \in (IF create THEN {Len(rewards) + 1} ELSE IF current = {} THEN {0} ELSE current) :
          tx' = [tx EXCEPT !.phase = "cross", !.reward = r]
    BY <1>7 DEF UpdateProgress
  <2>2. tx \in Tx /\ tx'.reward = r
    BY <1>0, <1>7, <2>1, OpenTx DEF UpdateProgress, Tx
  <2>3. rewards' = (IF create THEN Append(rewards, NewReward) ELSE rewards)
    BY <1>7 DEF UpdateProgress
  <2>4. UNCHANGED <<events, saved, scan, visits>> /\ tx # Idle
    BY <1>7 DEF UpdateProgress
  <2>5. CASE create
    <3>1. current = {}
      BY <2>5
    <3>2. Sound(events, rewards')
      BY <1>0, <2>3, <2>5, SoundOpen DEF Typed, LedgerInv
    <3>3. /\ Ids(rewards) = 1..Len(rewards) /\ Len(rewards) \in Nat
          /\ Ids(rewards') = 1..(Len(rewards) + 1)
          /\ \A q \in 1..Len(rewards) : rewards'[q] = rewards[q]
      BY <1>0, <2>3, <2>5 DEF Typed, Ids
    <3>4. r \in Ids(rewards')
      BY <2>5, <3>3
    <3>5. rewards'[Len(rewards) + 1].status = "in_progress"
      BY <1>0, <2>3, <2>5 DEF Typed, NewReward
    <3>6. Behind(saved.rewards, rewards)'
      BY <2>4, <3>3, <3>5 DEF LedgerInv, Behind
    <3>7. Expirable(saved.rewards)' /\ Expirable(rewards)'
      BY <2>4, <3>3 DEF LedgerInv, Expirable, Clear
    <3> QED
      BY <1>0, <2>2, <2>4, <3>2, <3>4, <3>6, <3>7 DEF LedgerInv, Apart
  <2>6. CASE ~create
    <3>1. r = 0 \/ r \in Ids(rewards)
      BY <2>6 DEF InStatus
    <3>2. rewards' = rewards
      BY <2>3, <2>6
    <3> QED
      BY <1>0, <2>2, <2>4, <3>1, <3>2 DEF LedgerInv, Expirable, Clear, Apart
  <2> QED
    BY <2>5, <2>6
<1>8. ASSUME EarnReward PROVE LedgerInv'
  <2>1. tx # Idle /\ tx.reward \in Ids(rewards) /\ rewards[tx.reward].status = "in_progress"
    BY <1>8 DEF EarnReward, CrossingDue, LedgerInv
  <2>2. Sound(events', rewards')
    BY <1>0, <1>8, <2>1, SoundEarn DEF LedgerInv
  <2> DEFINE earned == [rewards EXCEPT ![tx.reward] = [status |-> "earned", earnedAt |-> day]]
  <2>3. /\ UNCHANGED <<saved, scan, visits>>
        /\ \/ rewards' = earned /\ tx' = tx
           \/ /\ rewards' = Append(earned, NewReward)
              /\ tx' = [tx EXCEPT !.reward = Len(rewards) + 1]
    BY <1>8 DEF EarnReward
  <2>4. /\ Ids(rewards) = 1..Len(rewards) /\ Len(rewards) \in Nat
        /\ earned \in Seq(Reward) /\ Len(earned) = Len(rewards)
        /\ \A q \in 1..Len(rewards) : q # tx.reward => earned[q] = rewards[q]
    <3> DEFINE paid == [status |-> "earned", earnedAt |-> day]
    <3>1. paid \in Reward
      BY <1>0, TimeAssumption DEF Typed, Reward, Statuses
    <3> HIDE DEF paid
    <3>2. Replaced([rewards EXCEPT ![tx.reward] = paid], rewards, tx.reward, paid)
      BY <1>0, <3>1, ReplaceType DEF Typed
    <3>3. Replaced(earned, rewards, tx.reward, paid)
      BY <3>2 DEF paid
    <3> HIDE DEF earned
    <3> QED
      BY <1>0, <3>3 DEF Typed, Ids, Replaced
  <2> HIDE DEF earned
  <2>5. /\ \A q \in scan : q \in 1..Len(rewards) /\ q # tx.reward /\ rewards[q].status # "in_progress"
        /\ \A u \in visits : u.reward \in 1..Len(rewards) /\ u.reward # tx.reward
        /\ \A q \in Ids(saved.rewards) : q = tx.reward => saved.rewards[q].status = "in_progress"
    <3>1. Clear(scan, visits, rewards)
      BY DEF LedgerInv, Expirable
    <3>2. ASSUME NEW u \in visits PROVE u.reward \in Ids(rewards) /\ u.reward # tx.reward
      <4>1. u.to \in {"redeemed", "revoked"}
        BY <1>0 DEF Typed, Visit
      <4>2. CASE u.to = "redeemed"
        BY <2>1, <3>1, <4>2 DEF Clear
      <4>3. CASE u.to = "revoked"
        BY <2>1, <3>1, <4>3 DEF Clear
      <4> QED
        BY <4>1, <4>2, <4>3
    <3>3. \A q \in scan : q \in Ids(rewards) /\ rewards[q].status # "in_progress"
      BY <3>1 DEF Clear
    <3>4. \A q \in Ids(saved.rewards) : q = tx.reward => saved.rewards[q].status = "in_progress"
      BY <2>1 DEF LedgerInv, Behind
    <3> QED
      BY <2>1, <2>4, <3>2, <3>3, <3>4
  <2>8. earned[tx.reward].status = "earned"
    BY <1>0, <2>1 DEF Typed, Ids, earned
  <2>9. ASSUME NEW new, \A q \in 1..Len(rewards) : q \in Ids(new) /\ new[q] = earned[q],
               \A q \in Ids(new) : q \in 1..Len(rewards) \/ new[q].status = "in_progress"
        PROVE  Behind(saved.rewards, new) /\ Clear(scan, visits, new)
    <3>1. \A q \in Ids(saved.rewards) : q \in 1..Len(rewards)
      BY <2>1, <2>4 DEF LedgerInv, Behind
    <3>2. Behind(saved.rewards, rewards)
      BY <2>1 DEF LedgerInv
    <3>3. \A q \in 1..Len(rewards) : new[q].status =
            IF q = tx.reward THEN "earned" ELSE rewards[q].status
      BY <2>4, <2>8, <2>9
    <3>4. Behind(saved.rewards, new)
      BY <2>1, <2>4, <2>5, <2>9, <3>1, <3>2, <3>3 DEF Behind
    <3>5. Clear(scan, visits, rewards)
      BY DEF LedgerInv, Expirable
    <3>6. Clear(scan, visits, new)
      BY <2>5, <2>9, <3>3, <3>5 DEF Clear
    <3> QED
      BY <3>4, <3>6
  <2>6. CASE rewards' = earned /\ tx' = tx
    <3>1. Ids(rewards') = Ids(rewards) /\ Ids(rewards') = 1..Len(rewards)
      BY <2>4, <2>6 DEF Ids
    <3>2. Behind(saved.rewards, rewards') /\ Clear(scan, visits, rewards')
      BY <2>6, <2>9, <3>1
    <3> QED
      BY <1>0, <2>1, <2>2, <2>3, <2>6, <3>1, <3>2 DEF LedgerInv, Expirable, Apart
  <2>7. CASE rewards' = Append(earned, NewReward) /\ tx' = [tx EXCEPT !.reward = Len(rewards) + 1]
    <3>1. /\ Ids(rewards') = 1..(Len(rewards) + 1)
          /\ \A q \in 1..Len(rewards) : rewards'[q] = earned[q]
      BY <2>4, <2>7 DEF Ids
    <3>2. tx \in Tx
      BY <1>0, <2>1, OpenTx
    <3>3. tx'.reward \in Ids(rewards')
      BY <2>4, <2>7, <3>1, <3>2 DEF Tx
    <3>5. rewards'[Len(rewards) + 1].status = "in_progress"
      BY <2>4, <2>7 DEF NewReward
    <3>4. Behind(saved.rewards, rewards') /\ Clear(scan, visits, rewards')
      BY <2>4, <2>9, <3>1, <3>5
    <3> QED
      BY <1>0, <2>1, <2>2, <2>3, <2>7, <3>3, <3>4 DEF LedgerInv, Expirable, Apart
  <2> QED
    BY <2>3, <2>6, <2>7
<1>9. ASSUME ReadSummary \/ WriteSummary PROVE LedgerInv'
  <2>1. tx \in Tx /\ tx # Idle
    BY <1>0, <1>9, OpenTx DEF ReadSummary, WriteSummary
  <2>2. tx'.reward \in {0, tx.reward}
    BY <1>9, <2>1 DEF ReadSummary, WriteSummary, Tx
  <2>3. UNCHANGED <<events, rewards, saved, scan, visits>>
    BY <1>9 DEF ReadSummary, WriteSummary, tables
  <2> QED
    BY <1>0, <2>1, <2>2, <2>3 DEF LedgerInv, Expirable, Clear, Apart
<1>10. ASSUME Commit PROVE LedgerInv'
  BY <1>0, <1>10 DEF Commit, LedgerInv, Expirable, Clear, Apart
<1>11. ASSUME Rollback PROVE LedgerInv'
  BY <1>0, <1>11 DEF Rollback, LedgerInv, Expirable, Clear, Apart
<1>12. ASSUME NEW r \in Ids(Committed.rewards), BeginRedeem(r) \/ BeginRevoke(r)
       PROVE  LedgerInv'
  <2>1. PICK to \in {"redeemed", "revoked"} :
          /\ BeginVisit(r, to)
          /\ to = "redeemed" => Committed.rewards[r].status = "earned"
          /\ to = "revoked" => r \in scan
    BY <1>12 DEF BeginRedeem, BeginRevoke, InStatus
  <2>2. PICK sm : visits' = visits \cup {[reward |-> r, to |-> to, summary |-> sm]}
    BY <2>1 DEF BeginVisit
  <2>3. UNCHANGED <<events, rewards, tx, saved, scan>> /\ r \notin Held
    BY <2>1 DEF BeginVisit, tables
  <2>4. PICK v : v = [reward |-> r, to |-> to, summary |-> sm]
    OBVIOUS
  <2>6. v.reward = r /\ v.to = to /\ visits' = visits \cup {v}
    BY <2>2, <2>4
  <2>5. Apart'
    BY <2>3, <2>6 DEF LedgerInv, Apart, Held
  <2>7. ASSUME NEW rw, Expirable(rw), r \in Ids(rw), to = "redeemed" => rw[r].status = "earned"
        PROVE  Expirable(rw)'
    <3>1. \A q \in scan' : q \in Ids(rw) /\ rw[q].status # "in_progress"
      BY <2>3, <2>7 DEF Expirable, Clear
    <3>2. \A s \in visits' : s.reward \in Ids(rw)
      BY <2>6, <2>7 DEF Expirable, Clear
    <3>3. \A s \in visits' : s.to = "redeemed" => rw[s.reward].status = "earned"
      BY <2>6, <2>7 DEF Expirable, Clear
    <3>4. \A s \in visits' : s.to = "revoked" => s.reward \in scan'
      BY <2>1, <2>3, <2>6, <2>7 DEF Expirable, Clear
    <3> QED
      BY <3>1, <3>2, <3>3, <3>4 DEF Expirable, Clear
  <2>8. CASE tx = Idle
    <3>1. Committed.rewards = rewards
      BY <1>0, <2>8, CommittedType
    <3>2. Expirable(rewards)'
      BY <2>1, <2>3, <2>7, <3>1 DEF LedgerInv
    <3> QED
      BY <1>0, <2>3, <2>5, <2>8, <3>2 DEF LedgerInv
  <2>9. CASE tx # Idle
    <3>1. Committed.rewards = saved.rewards
      BY <1>0, <2>9, CommittedType
    <3>2. /\ r \in Ids(rewards) /\ Expirable(saved.rewards) /\ Expirable(rewards)
          /\ saved.rewards[r].status = "earned" => rewards[r].status = "earned"
      BY <2>9, <3>1 DEF LedgerInv, Behind
    <3>3. Expirable(saved.rewards)'
      BY <2>1, <2>3, <2>7, <3>1, <3>2
    <3>4. Expirable(rewards)'
      BY <2>1, <2>3, <2>7, <3>1, <3>2
    <3> QED
      BY <1>0, <2>3, <2>5, <2>9, <3>3, <3>4 DEF LedgerInv
  <2> QED
    BY <2>8, <2>9
<1>13. ASSUME NEW s \in visits, Redeem(s) \/ ExpireApply(s)
       PROVE  LedgerInv'
  <2>1. Ending(s)
    BY <1>13 DEF Redeem, ExpireApply, EndVisit, Ending
  <2>2. s.to \in {"redeemed", "revoked"}
    BY <1>0 DEF Typed, Visit
  <2>3. \A u \in visits' : u \in visits /\ u.reward # s.reward
    BY <2>1 DEF Ending, LedgerInv, Apart
  <2>5. UNCHANGED tx /\ scan' = (IF s.to = "revoked" THEN scan \ {s.reward} ELSE scan)
    BY <2>1 DEF Ending, EndVisit
  <2>6. ASSUME NEW ev \in Seq(Row), NEW rw \in Seq(Reward), Sound(ev, rw), Expirable(rw)
        PROVE  /\ Sound(EventsAfter(ev, s.reward, s.to), SetStatus(rw, s.reward, s.to))
               /\ Clear(scan', visits', SetStatus(rw, s.reward, s.to))
    <3>1. Clear(scan, visits, rw)
      BY <2>6 DEF Expirable
    <3>2. PICK r, to, new : r = s.reward /\ to = s.to /\ new = SetStatus(rw, r, to)
      OBVIOUS
    <3>3. r \in Ids(rw) /\ (to = "redeemed" => rw[r].status = "earned")
      BY <3>1, <3>2 DEF Clear
    <3>4. Sound(EventsAfter(ev, r, to), new)
      BY <2>2, <2>6, <3>2, <3>3, SoundVisit
    <3>5. /\ Ids(new) = Ids(rw)
          /\ \A q \in Ids(rw) : new[q].status = IF q = r THEN to ELSE rw[q].status
      BY <2>2, <2>6, <3>2, SetStatusType DEF Statuses
    <3>6. ASSUME NEW q \in scan' PROVE q \in Ids(new) /\ new[q].status # "in_progress"
      <4>1. q \in scan /\ q \in Ids(rw) /\ rw[q].status # "in_progress"
        BY <2>5, <3>1 DEF Clear
      <4> QED
        BY <2>2, <3>2, <3>5, <4>1
    <3>7. ASSUME NEW u \in visits'
          PROVE  u \in visits /\ u.reward # r /\ u.reward \in Ids(new) /\ new[u.reward].status = rw[u.reward].status
      <4>1. u \in visits /\ u.reward # r
        BY <2>3, <3>2
      <4>2. u.reward \in Ids(rw)
        BY <3>1, <4>1 DEF Clear
      <4> QED
        BY <3>5, <4>1, <4>2
    <3>8. ASSUME NEW u \in visits', u.to = "redeemed" PROVE new[u.reward].status = "earned"
      BY <3>1, <3>7, <3>8 DEF Clear
    <3>9. ASSUME NEW u \in visits', u.to = "revoked" PROVE u.reward \in scan'
      <4>1. u \in visits /\ u.reward # r /\ u.reward \in scan
        BY <3>1, <3>7, <3>9 DEF Clear
      <4> QED
        BY <2>5, <3>2, <4>1
    <3>10. Clear(scan', visits', new)
      BY <3>6, <3>7, <3>8, <3>9 DEF Clear
    <3> QED
      BY <3>2, <3>4, <3>10
  <2>7. Sound(events', rewards') /\ Clear(scan', visits', rewards')
    <3>1. Sound(events, rewards) /\ Expirable(rewards) /\ events \in Seq(Row) /\ rewards \in Seq(Reward)
      BY <1>0 DEF LedgerInv, Typed
    <3>2. events' = EventsAfter(events, s.reward, s.to) /\ rewards' = SetStatus(rewards, s.reward, s.to)
      BY <2>1 DEF Ending, EndVisit
    <3> QED
      BY <2>6, <3>1, <3>2
  <2>8. Apart'
    BY <2>1 DEF LedgerInv, Apart, Ending
  <2>9. CASE tx = Idle
    BY <1>0, <2>5, <2>7, <2>8, <2>9 DEF LedgerInv, Expirable
  <2>10. CASE tx # Idle
    <3>1. saved.events \in Seq(Row) /\ saved.rewards \in Seq(Reward) /\ rewards \in Seq(Reward)
      BY <1>0 DEF Typed, Tables
    <3>2. /\ Sound(saved.events, saved.rewards) /\ Expirable(saved.rewards)
          /\ Behind(saved.rewards, rewards) /\ (tx.reward = 0 \/ tx.reward \in Ids(rewards))
      BY <2>10 DEF LedgerInv
    <3>3. /\ saved'.events = EventsAfter(saved.events, s.reward, s.to)
          /\ saved'.rewards = SetStatus(saved.rewards, s.reward, s.to)
          /\ rewards' = SetStatus(rewards, s.reward, s.to)
      BY <1>0, <2>1, <2>10, SavedEnd DEF Ending, EndVisit
    <3>4. Sound(saved.events, saved.rewards)' /\ Expirable(saved.rewards)'
      <4>1. Sound(saved'.events, saved'.rewards)
        BY <2>6, <3>1, <3>2, <3>3
      <4>2. Clear(scan', visits', saved'.rewards)
        BY <2>6, <3>1, <3>2, <3>3
      <4> QED
        BY <4>1, <4>2 DEF Expirable
    <3>5. s.reward \in Ids(saved.rewards)
      BY <3>2 DEF Expirable, Clear
    <3>6. Behind(saved.rewards, rewards)' /\ Ids(rewards') = Ids(rewards)
      <4>1. /\ Ids(rewards') = Ids(rewards)
            /\ \A q \in Ids(rewards) : rewards'[q].status = IF q = s.reward THEN s.to ELSE rewards[q].status
        BY <2>2, <3>1, <3>3, SetStatusType DEF Statuses
      <4>2. /\ Ids(saved'.rewards) = Ids(saved.rewards)
            /\ \A q \in Ids(saved.rewards) : saved'.rewards[q].status =
                 IF q = s.reward THEN s.to ELSE saved.rewards[q].status
        BY <2>2, <3>1, <3>3, SetStatusType DEF Statuses
      <4> QED
        BY <3>2, <3>5, <4>1, <4>2 DEF Behind
    <3> QED
      BY <1>0, <2>5, <2>7, <2>8, <3>2, <3>4, <3>6 DEF LedgerInv, Expirable
  <2> QED
    BY <2>9, <2>10
<1>20. ASSUME NEW s \in visits, RedeemFails(s) PROVE LedgerInv'
  BY <1>0, <1>20 DEF RedeemFails, tables, LedgerInv, Expirable, Clear, Apart
<1>19. ASSUME NEW o \in Orders, CheckOrder(o) PROVE LedgerInv'
  BY <1>0, <1>19 DEF CheckOrder, tables, LedgerInv, Expirable, Clear, Apart
<1>14. ASSUME BeginExpire PROVE LedgerInv'
  BY <1>0, <1>14, LedgerBegin DEF BeginExpire, tables
<1>15. ASSUME ExpireScan PROVE LedgerInv'
  <2>1. \A r \in scan' : /\ r \in Ids(Committed.rewards)
                         /\ Committed.rewards[r].status = "earned"
    BY <1>15 DEF ExpireScan, ExpiredRewards, InStatus
  <2>2. UNCHANGED <<events, rewards, tx, saved, visits>> /\ scan = {}
    BY <1>15 DEF ExpireScan, tables
  <2>3. ASSUME NEW rw, Expirable(rw),
               \A r \in scan' : r \in Ids(rw) /\ rw[r].status # "in_progress"
        PROVE  Expirable(rw)'
    BY <2>2, <2>3 DEF Expirable, Clear
  <2>4. CASE tx = Idle
    <3>1. \A r \in scan' : r \in Ids(rewards) /\ rewards[r].status # "in_progress"
      BY <1>0, <2>1, <2>4, CommittedType
    <3>2. Expirable(rewards)'
      BY <2>2, <2>3, <3>1 DEF LedgerInv
    <3> QED
      BY <1>0, <2>2, <2>4, <3>2 DEF LedgerInv, Apart
  <2>5. CASE tx # Idle
    <3>1. \A r \in scan' : r \in Ids(saved.rewards) /\ saved.rewards[r].status = "earned"
      BY <1>0, <2>1, <2>5, CommittedType
    <3>2. \A r \in scan' : r \in Ids(rewards) /\ rewards[r].status # "in_progress"
      BY <2>5, <3>1 DEF LedgerInv, Behind
    <3>3. Expirable(rewards)'
      BY <2>2, <2>3, <3>2 DEF LedgerInv
    <3>4. Expirable(saved.rewards)'
      BY <2>2, <2>3, <2>5, <3>1 DEF LedgerInv
    <3> QED
      BY <1>0, <2>2, <2>5, <3>3, <3>4 DEF LedgerInv, Apart
  <2> QED
    BY <2>4, <2>5
<1>16. ASSUME ExpireAbort PROVE LedgerInv'
  BY <1>0, <1>16 DEF ExpireAbort, tables, LedgerInv, Expirable, Clear, Apart
<1>17. ASSUME Tick PROVE LedgerInv'
  BY <1>0, <1>17 DEF Tick, tables, LedgerInv, Expirable, Clear, Apart
<1>18. ASSUME UNCHANGED vars PROVE LedgerInv'
  BY <1>0, <1>18 DEF vars, tables, LedgerInv, Expirable, Clear, Apart
<1> QED
  BY <1>1, <1>2, <1>3, <1>4, <1>5, <1>6, <1>7, <1>8, <1>9, <1>10, <1>11, <1>12,
     <1>13, <1>14, <1>15, <1>16, <1>17, <1>18, <1>19, <1>20 DEF Next

LEMMA LedgerAlways == Spec => []LedgerInv
BY LedgerInit, LedgerStep, PTL DEF Spec

\* A reward that a customer holds or has used was paid for with exactly Required
\* units: reward-split-service.js neither over- nor under-charges, and refunds,
\* expiry and rollbacks leave what was charged alone.
THEOREM RewardsBacked == Spec => []EarnedBacked
<1>1. LedgerInv => EarnedBacked
  BY DEF LedgerInv, Sound, Backed, EarnedBacked, InStatus, Standing, Locked
<1> QED
  BY <1>1, LedgerAlways, PTL

\* loyalty_purchase_events.reward_id names a reward that is earned or redeemed.
THEOREM LocksStand == Spec => []LocksHeldByLive
<1>1. LedgerInv => LocksHeldByLive
  BY DEF LedgerInv, Sound, LocksStanding, LocksHeldByLive, Standing
<1> QED
  BY <1>1, LedgerAlways, PTL

\* loyalty_rewards_one_in_progress_idx is never violated: updateRewardProgress and
\* processThresholdCrossing look before they insert.
THEOREM OneRewardInProgress == Spec => []OneInProgress
<1>1. LedgerInv => OneInProgress
  BY DEF LedgerInv, Sound, OneOpen, OneInProgress
<1> QED
  BY <1>1, LedgerAlways, PTL

\* No statement outside a rollback moves the status of a reward back, and none revokes
\* one that was redeemed, but for the expiry of a reward that was selected before.
THEOREM StatusNeverGoesBack == Spec => StatusMachine
<1> DEFINE Late(r) == rewards[r].status = "redeemed" /\ rewards'[r].status = "revoked" /\ r \in scan
           Forward == \A r \in Ids(rewards) :
             /\ r \in Ids(rewards')
             /\ \/ rewards'[r].status = rewards[r].status
                \/ rewards'[r].status \in Moves(rewards[r].status)
                \/ Late(r)
           Step == Rollback \/ Forward
<1>1. LedgerInv /\ [Next]_vars => [Step]_vars
  <2> SUFFICES ASSUME LedgerInv, Next PROVE Step
    OBVIOUS
  <2>0. Typed /\ rewards \in Seq(Reward) /\ Sound(events, rewards)
    BY DEF LedgerInv, Typed
  <2>1. \A r \in Ids(rewards) : rewards[r].status \in Statuses
    <3>1. \A r \in Ids(rewards) : rewards[r] \in Reward
      BY <2>0 DEF Ids
    <3> QED
      BY <3>1 DEF Reward
  <2>2. ASSUME rewards' = rewards PROVE Forward
    BY <2>2
  <2>3. ASSUME NEW o \in Orders, NEW known \in BOOLEAN, SkipOrder(o, known) PROVE Step
    BY <2>2, <2>3 DEF SkipOrder
  <2>4. ASSUME NEW o \in Orders, NEW at \in (day - Lag)..day, BeginOrder(o, at) PROVE Step
    BY <2>2, <2>4 DEF BeginOrder
  <2>5. ASSUME NEW o \in Orders, BeginReturns(o) \/ CheckOrder(o) PROVE Step
    BY <2>2, <2>5 DEF BeginReturns, CheckOrder, tables
  <2>6. ASSUME NEW m \in ManualEntries, BeginManual(m) PROVE Step
    BY <2>2, <2>6 DEF BeginManual, tables
  <2>7. ASSUME NEW t \in tx.todo, RecordPurchase(t) PROVE Step
    BY <2>2, <2>7 DEF RecordPurchase
  <2>8. ASSUME tx # Idle, NEW t \in tx.todo, RecordReturn(t) PROVE Step
    BY <2>0, <2>2, <2>8, ReturnAppends
  <2>9. ASSUME UpdateProgress PROVE Step
    <3>1. rewards' = rewards \/ rewards' = Append(rewards, NewReward)
      BY <2>9 DEF UpdateProgress
    <3>2. ASSUME rewards' = Append(rewards, NewReward) PROVE Forward
      BY <2>0, <3>2 DEF Ids
    <3> QED
      BY <2>2, <3>1, <3>2
  <2>10. ASSUME EarnReward PROVE Step
    <3> DEFINE paid   == [status |-> "earned", earnedAt |-> day]
               earned == [rewards EXCEPT ![tx.reward] = paid]
    <3>1. rewards[tx.reward].status = "in_progress"
      BY <2>10 DEF EarnReward, CrossingDue
    <3>2. paid \in Reward /\ paid.status = "earned"
      BY <2>0, TimeAssumption DEF Typed, Reward, Statuses
    <3>3. rewards' = earned \/ rewards' = Append(earned, NewReward)
      BY <2>10 DEF EarnReward
    <3> HIDE DEF paid
    <3>4. /\ earned \in Seq(Reward) /\ Len(earned) = Len(rewards)
          /\ \A q \in 1..Len(rewards) : earned[q] = IF q = tx.reward THEN paid ELSE rewards[q]
      <4>1. Replaced(earned, rewards, tx.reward, paid)
        BY <2>0, <3>2, ReplaceType
      <4> HIDE DEF earned
      <4> QED
        BY <4>1 DEF Replaced
    <3> HIDE DEF earned
    <3>5. \A q \in 1..Len(rewards) : rewards'[q] = earned[q] /\ q \in Ids(rewards')
      BY <3>3, <3>4 DEF Ids
    <3>6. \A q \in 1..Len(rewards) : \/ earned[q].status = rewards[q].status
                                     \/ earned[q].status \in Moves(rewards[q].status)
      BY <2>0, <3>1, <3>2, <3>4 DEF Moves
    <3> QED
      BY <2>0, <3>5, <3>6 DEF Ids
  <2>11. ASSUME ReadSummary \/ WriteSummary PROVE Step
    BY <2>2, <2>11 DEF ReadSummary, WriteSummary, tables
  <2>12. ASSUME Commit PROVE Step
    BY <2>2, <2>12 DEF Commit
  <2>13. ASSUME NEW s \in visits, Redeem(s) \/ ExpireApply(s) PROVE Step
    <3>1. rewards' = SetStatus(rewards, s.reward, s.to) /\ s.to \in {"redeemed", "revoked"}
      BY <2>13 DEF Redeem, ExpireApply, EndVisit
    <3>2. /\ Ids(rewards') = Ids(rewards)
          /\ \A q \in Ids(rewards) : rewards'[q].status = IF q = s.reward THEN s.to ELSE rewards[q].status
      BY <2>0, <3>1, SetStatusType DEF Statuses
    <3>3. Clear(scan, visits, rewards)
      BY DEF LedgerInv, Expirable
    <3>4. s.to = "redeemed" => rewards[s.reward].status = "earned"
      BY <3>3 DEF Clear
    <3>5. s.to = "revoked" => s.reward \in scan /\ rewards[s.reward].status # "in_progress"
      BY <3>3 DEF Clear
    <3>6. s.reward \in Ids(rewards) => rewards[s.reward].status \in Statuses
      BY <2>1
    <3> QED
      BY <3>1, <3>2, <3>4, <3>5, <3>6 DEF Moves, Statuses
  <2>14. ASSUME NEW r \in Ids(Committed.rewards), BeginRedeem(r) \/ BeginRevoke(r) PROVE Step
    BY <2>2, <2>14 DEF BeginRedeem, BeginRevoke, BeginVisit, tables
  <2>16. ASSUME NEW s \in visits, RedeemFails(s) PROVE Step
    BY <2>2, <2>16 DEF RedeemFails, tables
  <2>15. ASSUME BeginExpire \/ ExpireScan \/ ExpireAbort \/ Tick PROVE Step
    BY <2>2, <2>15 DEF BeginExpire, ExpireScan, ExpireAbort, Tick, tables
  <2> QED
    BY <2>3, <2>4, <2>5, <2>6, <2>7, <2>8, <2>9, <2>10, <2>11, <2>12, <2>13, <2>14, <2>15,
       <2>16 DEF Next
<1>2. []LedgerInv /\ [][Next]_vars => [][Step]_vars
  BY <1>1, PTL
<1> QED
  BY <1>2, LedgerAlways, PTL DEF Spec, StatusMachine

-----------------------------------------------------------------------------
(* Rows that are locked, unlocked and split *)

LEMMA AppendFacts ==
  ASSUME NEW ev \in Seq(Row), NEW row \in Row
  PROVE  /\ Append(ev, row) \in Seq(Row)
         /\ Len(ev) \in Nat /\ Ids(ev) = 1..Len(ev)
         /\ Ids(Append(ev, row)) = 1..(Len(ev) + 1) /\ Len(Append(ev, row)) = Len(ev) + 1
         /\ Append(ev, row)[Len(ev) + 1] = row
         /\ \A i \in 1..Len(ev) : Append(ev, row)[i] = ev[i]
BY DEF Ids

LEMMA QtyNone ==
  ASSUME NEW ev \in Seq(Row)
  PROVE  Qty(ev, {}) = 0
<1> DEFINE col == Column(ev, {})
<1>1. col \in Seq(Int) /\ Len(col) = Len(ev) /\ Qty(ev, {}) = SumSeq(col) /\ SumSeq(col) \in Int
  BY RowTable, ColumnType, SumType
<1>2. \A n \in 1..Len(col) : col[n] = 0
  BY <1>1 DEF Column, Ids
<1> HIDE DEF col
<1>3. SumSeq(col) = SumSeq(col) + SumSeq(col)
  <2>1. \A n \in 1..Len(col) : col[n] = col[n] + col[n]
    BY <1>2
  <2> QED
    BY <1>1, <2>1, SumPlus
<1> QED
  BY <1>1, <1>3

\* Every field of a row but the reward it is locked to.
SameRecord(a, b) ==
  /\ a.order = b.order /\ a.item = b.item /\ a.ref = b.ref /\ a.qty = b.qty
  /\ a.wend = b.wend /\ a.parent = b.parent

LEMMA RelockedRow ==
  ASSUME NEW row \in Row, NEW r
  PROVE  SameRecord(row, [row EXCEPT !.reward = r])
BY DEF SameRecord, Row

\* Rows are locked and unlocked in place.
SameRecords(a, b) ==
  b \in Seq(Row) /\ Len(b) = Len(a) /\ \A i \in 1..Len(a) : SameRecord(a[i], b[i])

LEMMA UnlockSame ==
  ASSUME NEW ev \in Seq(Row), NEW r
  PROVE  SameRecords(ev, Unlock(ev, r))
<1>1. \A i \in 1..Len(ev) :
        Unlock(ev, r)[i] = IF ev[i].reward = r THEN [ev[i] EXCEPT !.reward = 0] ELSE ev[i]
  BY DEF Unlock, Ids
<1>2. \A i \in 1..Len(ev) : ev[i] \in Row
  OBVIOUS
<1>3. ASSUME NEW i \in 1..Len(ev) PROVE SameRecord(ev[i], Unlock(ev, r)[i])
  <2>1. CASE ev[i].reward = r
    <3>1. SameRecord(ev[i], [ev[i] EXCEPT !.reward = 0])
      BY <1>2, RelockedRow
    <3>2. Unlock(ev, r)[i] = [ev[i] EXCEPT !.reward = 0]
      BY <1>1, <2>1
    <3> QED
      BY <3>1, <3>2
  <2>2. CASE ev[i].reward # r
    BY <1>1, <2>2 DEF SameRecord
  <2> QED
    BY <2>1, <2>2
<1> QED
  BY <1>3, UnlockType DEF SameRecords

LEMMA LockSame ==
  ASSUME events \in Seq(Row), NEW L, NEW r \in Nat
  PROVE  SameRecords(events, Lock(L, r))
<1>1. \A i \in 1..Len(events) :
        Lock(L, r)[i] = IF i \in L THEN [events[i] EXCEPT !.reward = r] ELSE events[i]
  BY DEF Lock, Ids
<1>2. \A i \in 1..Len(events) : events[i] \in Row
  OBVIOUS
<1>3. ASSUME NEW i \in 1..Len(events) PROVE SameRecord(events[i], Lock(L, r)[i])
  <2>1. CASE i \in L
    <3>1. SameRecord(events[i], [events[i] EXCEPT !.reward = r])
      BY <1>2, RelockedRow
    <3>2. Lock(L, r)[i] = [events[i] EXCEPT !.reward = r]
      BY <1>1, <2>1
    <3> QED
      BY <3>1, <3>2
  <2>2. CASE i \notin L
    BY <1>1, <2>2 DEF SameRecord
  <2> QED
    BY <2>1, <2>2
<1> QED
  BY <1>3, LockFacts DEF SameRecords

\* A reward consumes whole rows, and of the row that crosses the threshold a part of
\* it: more than nothing and less than all.
PartlyLocked(L, c, r) ==
  \/ Consume(L, c, r) = Lock(L, r)
  \/ /\ c \in Candidates \ L
     /\ Lock(L, r)[c] = events[c]
     /\ \E n \in Int : /\ 0 < n /\ n < events[c].qty
                       /\ Consume(L, c, r) =
                            Append(Append(Lock(L, r), Child(events[c], c, n, r)),
                                   Child(events[c], c, events[c].qty - n, 0))

LEMMA ConsumeShape ==
  ASSUME events \in Seq(Row), NEW r \in Nat, NEW L \in SUBSET Candidates,
         NEW c \in (IF L = Candidates THEN {0} ELSE Earliest(Candidates \ L)), Consumable(L, c)
  PROVE  PartlyLocked(L, c, r)
<1> DEFINE need == Required - Qty(events, L)
<1>1. need \in Int
  BY EventsQty, RequiredAssumption
<1>2. CASE ~(need > 0 /\ c # 0)
  BY <1>2 DEF Consume, PartlyLocked
<1>3. CASE need > 0 /\ c # 0
  <2>1. c \in Candidates \ L /\ c \in 1..Len(events)
    BY <1>3 DEF Earliest, Candidates, Open, Ids
  <2>2. Lock(L, r)[c] = events[c] /\ events[c].qty \in Int
    <3>1. events[c] \in Row
      BY <2>1
    <3>2. c \in Ids(events) /\ c \notin L
      BY <2>1 DEF Ids
    <3>3. Lock(L, r)[c] = events[c]
      BY <3>2 DEF Lock
    <3>4. events[c].qty \in Int
      BY <3>1 DEF Row
    <3> QED
      BY <3>3, <3>4
  <2>3. need < events[c].qty
    BY <1>1, <1>3, <2>2, EventsQty, RequiredAssumption DEF Consumable
  <2>4. Consume(L, c, r) = Split(Lock(L, r), c, need, r)
    BY <1>3 DEF Consume
  <2> HIDE DEF need
  <2>5. Split(Lock(L, r), c, need, r) =
          Append(Append(Lock(L, r), Child(events[c], c, need, r)),
                 Child(events[c], c, events[c].qty - need, 0))
    BY <2>2, <2>3 DEF Split
  <2> QED
    BY <1>1, <1>3, <2>1, <2>2, <2>3, <2>4, <2>5 DEF PartlyLocked
<1> QED
  BY <1>2, <1>3

-----------------------------------------------------------------------------
(* A transaction settles *)

\* The rows locked to q have left the window on day d.
Past(ev, q, d) == \A i \in LockedBy(ev, q) : ~(ev[i].wend >= d)

LEMMA PastUnlock ==
  ASSUME NEW ev \in Seq(Row), NEW r, NEW q, q # 0, NEW d, Past(ev, q, d)
  PROVE  Past(Unlock(ev, r), q, d)
<1>1. SameRecords(ev, Unlock(ev, r)) /\ Ids(Unlock(ev, r)) = 1..Len(ev) /\ Ids(ev) = 1..Len(ev)
  BY UnlockSame, UnlockType DEF Ids
<1>2. \A i \in 1..Len(ev) : Unlock(ev, r)[i].reward = q => ev[i].reward = q
  BY UnlockType
<1> QED
  BY <1>1, <1>2 DEF Past, LockedBy, SameRecords, SameRecord

LEMMA PastAppend ==
  ASSUME NEW ev \in Seq(Row), NEW row \in Row, row.reward = 0, NEW q, q # 0, NEW d, Past(ev, q, d)
  PROVE  Past(Append(ev, row), q, d)
BY AppendFacts DEF Past, LockedBy

LEMMA PastTomorrow ==
  ASSUME NEW ev \in Seq(Row), NEW q, NEW d \in Int, Past(ev, q, d)
  PROVE  Past(ev, q, d + 1)
<1>1. \A i \in Ids(ev) : ev[i].wend \in Int
  BY RowFields
<1> QED
  BY <1>1 DEF Past, LockedBy

\* What is unlocked when it has left the window does not count.
LEMMA PastUnlocked ==
  ASSUME NEW ev \in Seq(Row), NEW r \in Nat, r # 0, Past(ev, r, day)
  PROVE  Unlocked(Unlock(ev, r)) = Unlocked(ev)
<1> DEFINE new == Unlock(ev, r)
<1>1. SameRecords(ev, new) /\ Ids(new) = 1..Len(ev) /\ Ids(ev) = 1..Len(ev) /\ new \in Seq(Row)
  BY UnlockSame, UnlockType DEF Ids
<1>2. \A i \in 1..Len(ev) : new[i].reward = IF ev[i].reward = r THEN 0 ELSE ev[i].reward
  BY UnlockType
<1> HIDE DEF new
<1>3. \A i : Superseded(new, i) <=> Superseded(ev, i)
  BY <1>1 DEF Superseded, SameRecords, SameRecord
<1>4. ASSUME NEW i \in 1..Len(ev) PROVE i \in Open(new) <=> i \in Open(ev)
  <2>1. new[i].wend = ev[i].wend
    BY <1>1 DEF SameRecords, SameRecord
  <2>2. ev[i].reward = r => ~(ev[i].wend >= day)
    BY <1>1 DEF Past, LockedBy
  <2> QED
    BY <1>1, <1>2, <1>3, <2>1, <2>2 DEF Open, InWindow
<1>5. \A i \in 1..Len(ev) : new[i].qty = ev[i].qty
  BY <1>1 DEF SameRecords, SameRecord
<1>6. Len(new) = Len(ev) /\ IsTable(new, Row) /\ IsTable(ev, Row)
  BY <1>1, RowTable DEF SameRecords
<1>7. Qty(new, Open(new)) = Qty(ev, Open(ev))
  BY <1>4, <1>5, <1>6, QtySame
<1> QED
  BY <1>7 DEF Unlocked, new

\* What a transaction earns it locks to a reward that was in progress.
LEMMA PastEarn ==
  ASSUME Typed, Sound(events, rewards), EarnReward, tx.reward \in Ids(rewards),
         NEW q, q # 0, q # tx.reward, Past(events, q, day)
  PROVE  Past(events', q, day)
<1>1. rewards \in Seq(Reward) /\ events \in Seq(Row) /\ tx.reward \in Nat
  BY IdsAreNumbers DEF Typed
<1>0. PICK L \in SUBSET Candidates :
        \E c \in (IF L = Candidates THEN {0} ELSE Earliest(Candidates \ L)) :
          Consumable(L, c) /\ events' = Consume(L, c, tx.reward)
  BY DEF EarnReward
<1>2. PICK c \in (IF L = Candidates THEN {0} ELSE Earliest(Candidates \ L)) :
        Consumable(L, c) /\ events' = Consume(L, c, tx.reward)
  BY <1>0
<1>3. PartlyLocked(L, c, tx.reward)
  BY <1>1, <1>2, ConsumeShape
<1> DEFINE locked == Lock(L, tx.reward)
<1>4. /\ locked \in Seq(Row) /\ Len(locked) = Len(events)
      /\ \A i \in 1..Len(events) : locked[i].reward = IF i \in L THEN tx.reward ELSE events[i].reward
  BY <1>1, LockFacts
<1>5. SameRecords(events, locked)
  BY <1>1, LockSame
<1> HIDE DEF locked
<1>6. Past(locked, q, day)
  BY <1>1, <1>4, <1>5 DEF Past, LockedBy, Ids, SameRecords, SameRecord
<1>7. CASE events' = locked
  BY <1>6, <1>7
<1>8. CASE /\ c \in Candidates \ L
           /\ \E n \in Int : events' = Append(Append(locked, Child(events[c], c, n, tx.reward)),
                                              Child(events[c], c, events[c].qty - n, 0))
  <2>1. PICK n \in Int : events' = Append(Append(locked, Child(events[c], c, n, tx.reward)),
                                          Child(events[c], c, events[c].qty - n, 0))
    BY <1>8
  <2>2. events[c] \in Row /\ c \in Nat
    BY <1>1, <1>8 DEF Candidates, Open, Ids
  <2>3. PICK x, y : /\ x = Child(events[c], c, n, tx.reward)
                    /\ y = Child(events[c], c, events[c].qty - n, 0)
    OBVIOUS
  <2>4. x \in Row /\ x.reward = tx.reward
    <3>1. x \in Row
      BY <1>1, <2>2, <2>3, ChildType
    <3>2. x.reward = tx.reward
      BY <2>2, <2>3, ChildFields
    <3> QED
      BY <3>1, <3>2
  <2>5. y \in Row /\ y.reward = 0
    <3>1. events[c].qty - n \in Int
      BY <2>2 DEF Row
    <3>2. y \in Row
      BY <2>2, <2>3, <3>1, 0 \in Nat, ChildType
    <3>3. y.reward = 0
      BY <2>2, <2>3, ChildFields
    <3> QED
      BY <3>2, <3>3
  <2>6. Append(locked, x) \in Seq(Row) /\ Past(Append(locked, x), q, day)
    BY <1>4, <1>6, <2>4, AppendFacts DEF Past, LockedBy
  <2> QED
    BY <2>1, <2>3, <2>5, <2>6, PastAppend
<1> QED
  BY <1>2, <1>3, <1>7, <1>8 DEF PartlyLocked, locked

\* Once a transaction has recounted, the units left over are too few for a reward, and the
\* loop over the crossings goes on as long as one is due.  The rewards that are revoked
\* next to it give back only units that no longer count: expiry selects rewards whose rows
\* have left the window, and what is locked to a reward that stands is locked for good.
SettleInv ==
  /\ \A r \in scan : Past(events, r, day)
  /\ tx # Idle =>
       /\ \A r \in scan : Past(saved.events, r, day)
       /\ \A r \in Ids(saved.rewards) :
            saved.rewards[r].status = "earned" /\ Past(saved.events, r, day) => Past(events, r, day)
       /\ tx.phase = "cross" => CrossingDue \/ Unlocked(events) < Required
       /\ tx.phase = "upsert" => Unlocked(events) < Required
       /\ tx.phase = "record" /\ tx.wrote => Unlocked(events) < Required

LEMMA UnlockedSameDay ==
  ASSUME UNCHANGED day
  PROVE  Unlocked(events)' = Unlocked(events')
BY DEF Unlocked, Open, InWindow, Superseded, Qty, Ids

LEMMA UnlockedType ==
  ASSUME Typed
  PROVE  Unlocked(events) \in Int
BY EventsQty DEF Typed, Unlocked

LEMMA SettleBegin ==
  ASSUME SettleInv, NEW kind, NEW phase \in {"record", "progress"}, NEW o, NEW at, NEW todo,
         Begin(kind, phase, o, at, todo), UNCHANGED <<day, events, rewards, scan>>
  PROVE  SettleInv'
<1>1. tx'.phase = phase /\ tx'.wrote = FALSE /\ saved'.events = events /\ saved'.rewards = rewards
  BY DEF Begin, Snapshot
<1> QED
  BY <1>1 DEF SettleInv

\* A step that leaves the tables and the transaction alone.
LEMMA SettleQuiet ==
  ASSUME SettleInv, UNCHANGED <<day, events, rewards, tx, saved>>, scan' \subseteq scan
  PROVE  SettleInv'
<1>1. Unlocked(events)' = Unlocked(events) /\ (CrossingDue <=> CrossingDue')
  BY UnlockedSameDay DEF CrossingDue
<1> QED
  BY <1>1 DEF SettleInv

LEMMA SettleProgress ==
  ASSUME Typed, SettleInv, UpdateProgress
  PROVE  SettleInv'
<1> DEFINE current == InStatus(rewards, "in_progress")
           create  == current = {} /\ Unlocked(events) > 0
<1>1. PICK r \in (IF create THEN {Len(rewards) + 1} ELSE IF current = {} THEN {0} ELSE current) :
        tx' = [tx EXCEPT !.phase = "cross", !.reward = r]
  BY DEF UpdateProgress
<1>2. rewards' = (IF create THEN Append(rewards, NewReward) ELSE rewards)
  BY DEF UpdateProgress
<1>3. tx'.reward = r /\ tx'.phase = "cross" /\ tx # Idle /\ UNCHANGED <<day, events, saved, scan>>
  BY <1>1, OpenTx DEF UpdateProgress, Tx
<1>4. Unlocked(events)' = Unlocked(events) /\ Unlocked(events) \in Int
  BY UnlockedSameDay, UnlockedType DEF UpdateProgress
<1>5. Required \in Int /\ Required > 0
  BY RequiredAssumption
<1>6. CrossingDue' \/ Unlocked(events)' < Required
  <2>1. CASE create
    <3>1. r = Len(rewards) + 1 /\ r # 0
      BY <2>1, <1>1 DEF Typed
    <3>2. rewards'[r].status = "in_progress"
      BY <1>2, <2>1, <3>1 DEF NewReward, Typed
    <3> QED
      BY <1>3, <1>4, <1>5, <3>1, <3>2 DEF CrossingDue
  <2>2. CASE ~create /\ current = {}
    BY <1>4, <1>5, <2>2
  <2>3. CASE current # {}
    <3>1. r \in Ids(rewards) /\ rewards'[r].status = "in_progress"
      BY <1>1, <1>2, <2>3 DEF InStatus
    <3>2. r # 0
      BY <3>1, IdsAreNumbers DEF Typed
    <3> QED
      BY <1>3, <1>4, <1>5, <3>1, <3>2 DEF CrossingDue
  <2> QED
    BY <2>1, <2>2, <2>3
<1> QED
  BY <1>3, <1>6 DEF SettleInv

LEMMA SettleEarn ==
  ASSUME Typed, Typed', LedgerInv, SettleInv, EarnReward
  PROVE  SettleInv'
<1> DEFINE earned == [rewards EXCEPT ![tx.reward] = [status |-> "earned", earnedAt |-> day]]
<1>1. /\ tx \in Tx /\ tx # Idle /\ tx.phase = "cross" /\ UNCHANGED <<day, saved, scan>>
      /\ Unlocked(events)' = Unlocked(events') /\ Unlocked(events)' \in Int
      /\ Required \in Int
  <2>1. Unlocked(events') \in Int
    BY EventsQty DEF Typed, Unlocked
  <2> QED
    BY <2>1, OpenTx, UnlockedSameDay, RequiredAssumption DEF EarnReward
<1>2. tx.reward \in Ids(rewards) /\ rewards[tx.reward].status = "in_progress"
  BY DEF EarnReward, CrossingDue, LedgerInv
<1>3. tx'.phase = "cross" /\ tx' # Idle
  BY <1>1 DEF EarnReward, Tx, Idle
<1>4. \A q \in scan : Past(events', q, day) /\ Past(saved.events, q, day)
  <2> TAKE q \in scan
  <2>1. q \in Ids(rewards) /\ q # tx.reward
    BY <1>2 DEF LedgerInv, Expirable, Clear
  <2>2. q # 0
    BY <2>1, IdsAreNumbers DEF Typed
  <2> QED
    BY <1>1, <1>2, <2>1, <2>2, PastEarn DEF SettleInv, LedgerInv
<1>5. ASSUME NEW q \in Ids(saved.rewards), saved.rewards[q].status = "earned", Past(saved.events, q, day)
      PROVE  Past(events', q, day)
  <2>1. q # tx.reward /\ q \in Ids(rewards)
    BY <1>1, <1>2, <1>5 DEF LedgerInv, Behind
  <2>2. q # 0
    BY <2>1, IdsAreNumbers DEF Typed
  <2>3. Past(events, q, day)
    BY <1>1, <1>5 DEF SettleInv
  <2> QED
    BY <1>2, <2>1, <2>2, <2>3, PastEarn DEF LedgerInv
<1>6. CrossingDue' \/ Unlocked(events)' < Required
  <2>1. CASE ~(Unlocked(events') >= Required)
    BY <1>1, <2>1
  <2>2. CASE Unlocked(events') >= Required
    <3>1. rewards' = Append(earned, NewReward) /\ tx' = [tx EXCEPT !.reward = Len(rewards) + 1]
      BY <2>2 DEF EarnReward
    <3>2. earned \in Seq(Reward) /\ Len(earned) = Len(rewards)
      <4> DEFINE paid == [status |-> "earned", earnedAt |-> day]
      <4>1. paid \in Reward
        BY TimeAssumption DEF Typed, Reward, Statuses
      <4> HIDE DEF paid
      <4>2. Replaced([rewards EXCEPT ![tx.reward] = paid], rewards, tx.reward, paid)
        BY <4>1, ReplaceType DEF Typed
      <4> QED
        BY <4>2 DEF Replaced, paid
    <3> HIDE DEF earned
    <3>3. tx'.reward = Len(rewards) + 1 /\ Len(rewards) \in Nat
      BY <1>1, <3>1 DEF Tx, Typed
    <3>4. rewards'[tx'.reward].status = "in_progress"
      BY <3>1, <3>2, <3>3 DEF NewReward
    <3> QED
      BY <1>1, <2>2, <3>3, <3>4 DEF CrossingDue
  <2> QED
    BY <2>1, <2>2
<1> QED
  BY <1>1, <1>3, <1>4, <1>5, <1>6 DEF SettleInv

\* A redemption or a revocation commits, next to a transaction or by itself.
LEMMA SettleEnd ==
  ASSUME Typed, Typed', LedgerInv, SettleInv, NEW s \in visits, Ending(s)
  PROVE  SettleInv'
<1> DEFINE after(ev) == EventsAfter(ev, s.reward, s.to)
<1>1. /\ events' = after(events) /\ rewards' = SetStatus(rewards, s.reward, s.to)
      /\ UNCHANGED <<day, tx>> /\ (tx # Idle => ~tx.wrote) /\ scan' \subseteq scan
  BY DEF Ending, EndVisit
<1>2. s.to \in {"redeemed", "revoked"}
  BY DEF Typed, Visit
<1>3. \A q \in scan : q \in Nat \ {0}
  BY IdsAreNumbers DEF LedgerInv, Expirable, Clear, Typed
<1>4. ASSUME NEW ev \in Seq(Row), NEW q, q # 0, Past(ev, q, day)
      PROVE  Past(after(ev), q, day)
  BY <1>4, PastUnlock DEF EventsAfter
<1>5. events \in Seq(Row) /\ rewards \in Seq(Reward)
  BY DEF Typed
<1>6. \A q \in scan' : Past(events', q, day')
  BY <1>1, <1>3, <1>4, <1>5 DEF SettleInv
<1>7. CASE tx = Idle
  BY <1>1, <1>6, <1>7 DEF SettleInv
<1>8. CASE tx # Idle
  <2>1. saved.events \in Seq(Row) /\ saved.rewards \in Seq(Reward)
    BY DEF Typed, Tables
  <2>2. saved'.events = after(saved.events) /\ saved'.rewards = SetStatus(saved.rewards, s.reward, s.to)
    BY <1>8, SavedEnd
  <2>3. \A q \in scan' : Past(saved'.events, q, day')
    BY <1>1, <1>3, <1>4, <1>8, <2>1, <2>2 DEF SettleInv
  <2>4. /\ Ids(saved'.rewards) = Ids(saved.rewards)
        /\ \A q \in Ids(saved.rewards) :
             saved'.rewards[q].status = IF q = s.reward THEN s.to ELSE saved.rewards[q].status
    BY <1>2, <2>1, <2>2, SetStatusType DEF Statuses
  <2>5. ASSUME NEW q \in Ids(saved'.rewards), saved'.rewards[q].status = "earned",
               Past(saved'.events, q, day)
        PROVE  Past(events', q, day)
    <3>1. q # s.reward /\ saved.rewards[q].status = "earned" /\ q \in Ids(saved.rewards) /\ q # 0
      <4>1. q \in Ids(saved.rewards) /\ q # s.reward /\ saved.rewards[q].status = "earned"
        BY <1>2, <2>4, <2>5
      <4> QED
        BY <2>1, <4>1, IdsAreNumbers
    <3>2. Past(saved.events, q, day)
      <4>1. CASE s.to = "revoked"
        <5>1. saved'.events = Unlock(saved.events, s.reward)
          BY <2>2, <4>1 DEF EventsAfter
        <5>2. SameRecords(saved.events, saved'.events)
          BY <2>1, <5>1, UnlockSame
        <5>3. \A i \in 1..Len(saved.events) : saved.events[i].reward = q => saved'.events[i].reward = q
          BY <2>1, <3>1, <5>1, UnlockType
        <5> QED
          BY <2>1, <2>5, <5>2, <5>3 DEF Past, LockedBy, Ids, SameRecords, SameRecord
      <4>2. CASE s.to = "redeemed"
        BY <2>2, <2>5, <4>2 DEF EventsAfter
      <4> QED
        BY <1>2, <4>1, <4>2
    <3>3. Past(events, q, day)
      BY <1>8, <3>1, <3>2 DEF SettleInv
    <3> QED
      BY <1>1, <1>4, <1>5, <3>1, <3>3
  <2>6. Unlocked(events)' = Unlocked(events)
    <3>1. Unlocked(events)' = Unlocked(after(events))
      BY <1>1, UnlockedSameDay
    <3>2. CASE s.to = "revoked"
      <4>1. s.reward \in scan
        BY <3>2 DEF LedgerInv, Expirable, Clear
      <4>2. Past(events, s.reward, day) /\ s.reward \in Nat /\ s.reward # 0
        BY <1>3, <4>1 DEF SettleInv
      <4> QED
        BY <1>5, <3>1, <3>2, <4>2, PastUnlocked DEF EventsAfter
    <3>3. CASE s.to = "redeemed"
      BY <3>1, <3>3 DEF EventsAfter
    <3> QED
      BY <1>2, <3>2, <3>3
  <2>7. CrossingDue => CrossingDue'
    <3> SUFFICES ASSUME CrossingDue PROVE CrossingDue'
      OBVIOUS
    <3>1. tx.reward \in Ids(rewards) /\ rewards[tx.reward].status = "in_progress"
      BY <1>8 DEF CrossingDue, LedgerInv
    <3>2. s.reward # tx.reward
      <4>1. CASE s.to = "redeemed"
        BY <3>1, <4>1 DEF LedgerInv, Expirable, Clear
      <4>2. CASE s.to = "revoked"
        BY <3>1, <4>2 DEF LedgerInv, Expirable, Clear
      <4> QED
        BY <1>2, <4>1, <4>2
    <3>3. rewards'[tx.reward].status = rewards[tx.reward].status
      BY <1>1, <1>2, <1>5, <3>1, <3>2, SetStatusType DEF Statuses
    <3> QED
      BY <1>1, <2>6, <3>1, <3>3 DEF CrossingDue
  <2> QED
    BY <1>1, <1>6, <1>8, <2>3, <2>5, <2>6, <2>7 DEF SettleInv
<1> QED
  BY <1>7, <1>8

LEMMA SettleStep == LedgerInv /\ SettleInv /\ [Next]_vars => SettleInv'
<1> SUFFICES ASSUME LedgerInv, SettleInv, [Next]_vars PROVE SettleInv'
  OBVIOUS
<1>0. Typed /\ Typed'
  BY TypedStep DEF LedgerInv
<1>1. ASSUME NEW t \in tx.todo, tx # Idle, RecordPurchase(t) \/ RecordReturn(t) PROVE SettleInv'
  <2>1. UNCHANGED <<day, saved, scan>>
    BY <1>1 DEF RecordPurchase, RecordReturn
  <2>2. tx \in Tx /\ tx.phase = "record" /\ t \in Todo
    BY <1>0, <1>1, OpenTx DEF RecordPurchase, RecordReturn, Tx
  <2>3. CASE tx' = Handled(t, "record") /\ UNCHANGED events
    <3>1. tx'.phase = "record" /\ tx'.wrote = tx.wrote
      BY <2>2, <2>3 DEF Handled, Tx
    <3>2. Unlocked(events)' = Unlocked(events)
      BY <2>1, <2>3, UnlockedSameDay
    <3> QED
      BY <1>1, <2>1, <2>2, <2>3, <3>1, <3>2 DEF SettleInv
  <2>4. CASE tx' = Handled(t, "progress") /\ \E row \in Row : row.reward = 0 /\ events' = Append(events, row)
    <3>1. PICK row \in Row : row.reward = 0 /\ events' = Append(events, row)
      BY <2>4
    <3>2. tx'.phase = "progress"
      BY <2>2, <2>4 DEF Handled, Tx
    <3>3. \A q : q # 0 /\ Past(events, q, day) => Past(events', q, day)
      BY <1>0, <3>1, PastAppend DEF Typed
    <3>4. \A q \in scan : q # 0
      BY <1>0, IdsAreNumbers DEF LedgerInv, Expirable, Clear, Typed
    <3>5. \A q \in Ids(saved.rewards) : q # 0
      BY <1>0, IdsAreNumbers DEF Typed, Tables
    <3> QED
      BY <1>1, <2>1, <3>2, <3>3, <3>4, <3>5 DEF SettleInv
  <2>5. CASE RecordPurchase(t)
    <3>1. tx.at + Window \in Int /\ t.qty \in Int
      BY <2>2, TimeAssumption DEF Tx, Todo
    <3>2. NewRow(t, t.qty, tx.at + Window) \in Row /\ NewRow(t, t.qty, tx.at + Window).reward = 0
      BY <2>2, <3>1, NewRowType
    <3> QED
      BY <2>3, <2>4, <2>5, <3>2 DEF RecordPurchase
  <2>6. CASE RecordReturn(t)
    <3>1. CASE t.item \in Qualifying /\ ~Recorded(t)
      <4>1. tx' = Handled(t, "progress")
        BY <2>6, <3>1 DEF RecordReturn
      <4> QED
        BY <1>0, <1>1, <2>4, <2>6, <3>1, <4>1, ReturnAppends DEF LedgerInv
    <3>2. CASE ~(t.item \in Qualifying /\ ~Recorded(t))
      BY <2>3, <2>6, <3>2 DEF RecordReturn
    <3> QED
      BY <3>1, <3>2
  <2> QED
    BY <1>1, <2>5, <2>6
<1>2. CASE ReadSummary
  <2>1. tx \in Tx /\ tx # Idle /\ tx'.phase = "upsert" /\ UNCHANGED <<day, events, saved, scan>>
    BY <1>0, <1>2, OpenTx DEF ReadSummary, Tx
  <2>2. Unlocked(events) < Required
    BY <1>2 DEF ReadSummary, SettleInv
  <2> QED
    BY <2>1, <2>2, UnlockedSameDay DEF SettleInv
<1>3. CASE WriteSummary
  <2>1. tx \in Tx /\ tx # Idle /\ tx'.phase = "record" /\ UNCHANGED <<day, events, saved, scan>>
    BY <1>0, <1>3, OpenTx DEF WriteSummary, Tx, tables
  <2>2. Unlocked(events) < Required
    BY <1>3 DEF WriteSummary, SettleInv
  <2> QED
    BY <2>1, <2>2, UnlockedSameDay DEF SettleInv
<1>4. CASE Commit \/ Rollback
  BY <1>4 DEF Commit, Rollback, SettleInv
<1>5. CASE ExpireAbort \/ UNCHANGED vars
  BY <1>5, SettleQuiet DEF ExpireAbort, tables, vars
<1>6. ASSUME NEW o \in Orders, NEW at, BeginOrder(o, at) PROVE SettleInv'
  BY <1>6, SettleBegin DEF BeginOrder
<1>7. ASSUME NEW o \in Orders, BeginReturns(o) PROVE SettleInv'
  BY <1>7, SettleBegin DEF BeginReturns, tables
<1>8. ASSUME NEW m \in ManualEntries, BeginManual(m) PROVE SettleInv'
  BY <1>8, SettleBegin DEF BeginManual, tables
<1>9. CASE BeginExpire
  BY <1>9, SettleBegin DEF BeginExpire, tables
<1>10. ASSUME NEW o \in Orders, NEW known \in BOOLEAN, SkipOrder(o, known) PROVE SettleInv'
  BY <1>10, SettleQuiet DEF SkipOrder
<1>11. ASSUME NEW o \in Orders, CheckOrder(o) PROVE SettleInv'
  BY <1>11, SettleQuiet DEF CheckOrder, tables
<1>12. ASSUME NEW r \in Ids(Committed.rewards), BeginRedeem(r) \/ BeginRevoke(r) PROVE SettleInv'
  BY <1>12, SettleQuiet DEF BeginRedeem, BeginRevoke, BeginVisit, tables
<1>13. ASSUME NEW s \in visits, Redeem(s) \/ ExpireApply(s) PROVE SettleInv'
  <2>1. Ending(s)
    BY <1>13 DEF Redeem, ExpireApply, EndVisit, Ending
  <2> QED
    BY <1>0, <2>1, SettleEnd
<1>14. ASSUME NEW s \in visits, RedeemFails(s) PROVE SettleInv'
  BY <1>14, SettleQuiet DEF RedeemFails, tables
<1>15. CASE ExpireScan
  <2>1. \A r \in scan' : /\ r \in Ids(Committed.rewards)
                         /\ Committed.rewards[r].status = "earned"
                         /\ Past(Committed.events, r, day)
    BY <1>15 DEF ExpireScan, ExpiredRewards, InStatus, InWindow, Past
  <2>2. UNCHANGED <<day, events, rewards, tx, saved>>
    BY <1>15 DEF ExpireScan, tables
  <2>3. CASE tx = Idle
    <3>1. Committed.events = events
      BY <1>0, <2>3, CommittedType
    <3> QED
      BY <2>1, <2>2, <2>3, <3>1 DEF SettleInv
  <2>4. CASE tx # Idle
    <3>1. Committed.events = saved.events /\ Committed.rewards = saved.rewards
      BY <1>0, <2>4, CommittedType
    <3>2. \A r \in scan' : Past(saved.events, r, day) /\ Past(events, r, day)
      BY <2>1, <2>4, <3>1 DEF SettleInv
    <3>3. Unlocked(events)' = Unlocked(events) /\ (CrossingDue <=> CrossingDue')
      BY <2>2, UnlockedSameDay DEF CrossingDue
    <3> QED
      BY <2>2, <2>4, <3>2, <3>3 DEF SettleInv
  <2> QED
    BY <2>3, <2>4
<1>16. CASE Tick
  <2>1. events \in Seq(Row) /\ day \in Int /\ UNCHANGED <<events, scan>> /\ day' = day + 1 /\ tx' = Idle
    BY <1>0, <1>16, TimeAssumption DEF Typed, Tick, tables
  <2> QED
    BY <2>1, PastTomorrow DEF SettleInv
<1> QED
  BY <1>0, <1>1, <1>2, <1>3, <1>4, <1>5, <1>6, <1>7, <1>8, <1>9, <1>10, <1>11, <1>12,
     <1>13, <1>14, <1>15, <1>16, SettleProgress, SettleEarn DEF Next

\* A transaction that has recounted leaves fewer units over than a reward costs: no
\* reward that is due waits for the next purchase, whatever redemptions and expiries
\* commit while it runs.
THEOREM NothingLeftDue == Spec => CommitSettles
<1>1. Init => SettleInv
  BY DEF Init, SettleInv
<1>2. LedgerInv /\ SettleInv /\ [Next]_vars => [Commit /\ tx.wrote => Unlocked(events') < Required]_vars
  <2> SUFFICES ASSUME SettleInv, Commit, tx.wrote
               PROVE  Unlocked(events') < Required
    OBVIOUS
  <2>1. tx # Idle /\ tx.phase = "record" /\ UNCHANGED events
    BY DEF Commit
  <2> QED
    BY <2>1 DEF SettleInv
<1>3. Spec => []SettleInv
  BY <1>1, SettleStep, LedgerAlways, PTL DEF Spec
<1> QED
  BY <1>2, <1>3, LedgerAlways, PTL DEF Spec, CommitSettles

-----------------------------------------------------------------------------
(* The summary agrees with the ledger *)

\* s says what the two tables say, its current units as of day d and only if it was
\* written on that day.
UnlockedOn(ev, d) ==
  Qty(ev, {i \in Ids(ev) : ev[i].wend >= d /\ ev[i].reward = 0 /\ ~Superseded(ev, i)})
Agrees(s, ev, rw, d) ==
  LET earned   == InStatus(rw, "earned")
      redeemed == InStatus(rw, "redeemed")
  IN  /\ s.updatedAt = d => s.current = UnlockedOn(ev, d)
      /\ s.updatedAt <= d
      /\ s.lifetime = Qty(ev, {i \in Ids(ev) : ev[i].qty > 0 /\ ~Superseded(ev, i)})
      /\ s.earnedId = IF earned = {} THEN 0 ELSE Min(earned)
      /\ s.rewarded = Cardinality(earned \cup redeemed)
      /\ s.redeemed = Cardinality(redeemed)

\* What the open redemption or revocation s has computed.
Foresees(s) ==
  Agrees(s.summary, EventsAfter(events, s.reward, s.to), SetStatus(rewards, s.reward, s.to), day)

\* The committed summary agrees when no overlap has left its mark.  While nothing
\* overlaps one transaction is open at most, and what it has computed agrees with
\* the tables as it leaves them.
FreshInv ==
  /\ race = "none" => Agrees(Committed.summary, Committed.events, Committed.rewards, day)
  /\ race # "now" =>
       /\ tx # Idle => visits = {}
       /\ \A s, u \in visits : s = u
       /\ \A s \in visits : Foresees(s)
       /\ (/\ tx # Idle
           /\ \/ tx.phase = "upsert"
              \/ tx.phase = "record" /\ (tx.wrote \/ race = "none"))
            => Agrees(summary, events, rewards, day)

LEMMA SummaryAgrees ==
  ASSUME day \in Int, NEW ev, NEW rw
  PROVE  Agrees(SummaryOf(ev, rw), ev, rw, day)
BY DEF Agrees, SummaryOf, Unlocked, UnlockedOn, Open, InWindow

\* Nothing but the current units depends on the day.
LEMMA AgreesTomorrow ==
  ASSUME NEW d \in Int, NEW s, s.updatedAt \in Int, NEW ev, NEW rw, Agrees(s, ev, rw, d)
  PROVE  Agrees(s, ev, rw, d + 1)
<1>1. s.updatedAt <= d /\ s.updatedAt # d + 1 /\ s.updatedAt <= d + 1
  BY DEF Agrees
<1> QED
  BY <1>1 DEF Agrees

LEMMA CommittedIs ==
  /\ tx = Idle => /\ Committed.events = events /\ Committed.rewards = rewards
                  /\ Committed.summary = summary
  /\ tx # Idle => Committed = saved
BY DEF Committed, Snapshot

\* A step that leaves the tables and the transaction alone.
LEMMA FreshQuiet ==
  ASSUME FreshInv, UNCHANGED <<day, events, rewards, summary, tx, saved, race>>,
         visits' \subseteq visits
  PROVE  FreshInv'
<1>1. /\ Committed'.events = Committed.events /\ Committed'.rewards = Committed.rewards
      /\ Committed'.summary = Committed.summary
  BY DEF Committed, Snapshot
<1>2. \A s \in visits : Foresees(s) <=> Foresees(s)'
  BY DEF Foresees
<1> QED
  BY <1>1, <1>2 DEF FreshInv

LEMMA FreshBegin ==
  ASSUME FreshInv, tx = Idle, NEW kind, NEW phase \in {"record", "progress"}, NEW o, NEW at, NEW todo,
         Begin(kind, phase, o, at, todo), UNCHANGED <<day, events, rewards, summary, visits>>
  PROVE  FreshInv'
<1>1. /\ tx' # Idle /\ tx'.phase = phase /\ tx'.wrote = FALSE
      /\ saved'.events = events /\ saved'.rewards = rewards /\ saved'.summary = summary
  BY DEF Begin, Snapshot, Idle
<1>2. /\ Committed'.events = events /\ Committed'.rewards = rewards /\ Committed'.summary = summary
  BY <1>1 DEF Committed
<1>3. race' = IF visits # {} THEN "now" ELSE IF race = "now" THEN "past" ELSE race
  BY DEF Begin, Starts
<1>4. race' = "none" => race = "none"
  BY <1>3
<1>5. race = "none" => Agrees(summary, events, rewards, day)
  BY CommittedIs DEF FreshInv
<1>6. race' # "now" => visits = {}
  BY <1>3
<1> QED
  BY <1>1, <1>2, <1>4, <1>5, <1>6 DEF FreshInv

LEMMA FreshInit == Init => FreshInv
<1> SUFFICES ASSUME Init PROVE Agrees(summary, events, rewards, day)
  BY CommittedIs DEF Init, FreshInv
<1>1. events = <<>> /\ rewards = <<>> /\ summary = NoSummary /\ day = 0
  BY DEF Init
<1>2. \A S : Qty(events, S) = 0
  <2> TAKE S
  <2>1. [i \in Ids(<<>>) |-> IF i \in S THEN <<>>[i].qty ELSE 0] = <<>>
    BY DEF Ids
  <2> QED
    BY <1>1, <2>1, SumEmpty DEF Qty
<1>3. InStatus(rewards, "earned") = {} /\ InStatus(rewards, "redeemed") = {}
  BY <1>1 DEF InStatus, Ids
<1>4. /\ Cardinality(InStatus(rewards, "earned") \cup InStatus(rewards, "redeemed")) = 0
      /\ Cardinality(InStatus(rewards, "redeemed")) = 0
  <2>1. InStatus(rewards, "earned") \cup InStatus(rewards, "redeemed") = {}
    BY <1>3
  <2> QED
    BY <1>3, <2>1, FS_EmptySet
<1>5. UnlockedOn(events, day) = 0
  BY <1>2 DEF UnlockedOn
<1>6. /\ summary.updatedAt = 0 /\ summary.current = 0 /\ summary.lifetime = 0
      /\ summary.earnedId = 0 /\ summary.rewarded = 0 /\ summary.redeemed = 0
  BY <1>1 DEF NoSummary
<1> QED
  BY <1>1, <1>2, <1>3, <1>4, <1>5, <1>6 DEF Agrees

LEMMA FreshStep == LedgerInv /\ FreshInv /\ [Next]_vars => FreshInv'
<1> SUFFICES ASSUME LedgerInv, FreshInv, [Next]_vars PROVE FreshInv'
  OBVIOUS
<1>0. Typed /\ Typed' /\ day \in Int
  BY TypedStep, TimeAssumption DEF LedgerInv, Typed
<1>2. ASSUME NEW t \in tx.todo, tx # Idle, RecordPurchase(t) \/ RecordReturn(t) PROVE FreshInv'
  <2>1. UNCHANGED <<day, summary, saved, visits, race>>
    BY <1>2 DEF RecordPurchase, RecordReturn
  <2>2. tx \in Tx /\ tx.phase = "record"
    BY <1>0, <1>2, OpenTx DEF RecordPurchase, RecordReturn
  <2>3. \A phase : /\ Handled(t, phase).phase = phase /\ Handled(t, phase) # Idle
                   /\ Handled(t, phase).wrote = tx.wrote
    BY <2>2 DEF Handled, Tx, Idle
  <2>4. tx' # Idle /\ Committed' = Committed
    BY <1>2, <2>1, <2>3 DEF RecordPurchase, RecordReturn, Committed
  <2>5. race # "now" => visits = {}
    BY <1>2 DEF FreshInv
  <2>6. CASE tx' = Handled(t, "progress")
    BY <2>1, <2>3, <2>4, <2>5, <2>6 DEF FreshInv
  <2>7. CASE tx' = Handled(t, "record") /\ UNCHANGED <<events, rewards>>
    BY <1>2, <2>1, <2>2, <2>3, <2>4, <2>5, <2>7 DEF FreshInv
  <2> QED
    BY <1>2, <2>6, <2>7 DEF RecordPurchase, RecordReturn
<1>3. CASE UpdateProgress \/ EarnReward
  <2>1. /\ tx \in Tx /\ tx # Idle /\ tx'.phase = "cross" /\ tx' # Idle
        /\ UNCHANGED <<day, saved, visits, race>>
    BY <1>0, <1>3, OpenTx DEF UpdateProgress, EarnReward, Tx, Idle
  <2>2. Committed' = Committed /\ (race # "now" => visits = {})
    BY <2>1 DEF Committed, FreshInv
  <2> QED
    BY <2>1, <2>2 DEF FreshInv
<1>4. CASE ReadSummary
  <2>1. /\ tx \in Tx /\ tx # Idle /\ tx' # Idle
        /\ UNCHANGED <<day, events, rewards, saved, visits, race>>
        /\ summary' = SummaryOf(events, rewards)
    BY <1>0, <1>4, OpenTx DEF ReadSummary, Tx, Idle
  <2>2. Committed' = Committed /\ (race # "now" => visits = {})
    BY <2>1 DEF Committed, FreshInv
  <2>3. Agrees(summary', events', rewards', day')
    BY <1>0, <2>1, SummaryAgrees
  <2> QED
    BY <2>1, <2>2, <2>3 DEF FreshInv
<1>15. CASE WriteSummary
  <2>1. /\ tx \in Tx /\ tx # Idle /\ tx.phase = "upsert" /\ tx' # Idle
        /\ UNCHANGED <<day, events, rewards, summary, saved, visits, race>>
    BY <1>0, <1>15, OpenTx DEF WriteSummary, Tx, Idle, tables
  <2>2. Committed' = Committed /\ (race # "now" => visits = {})
    BY <2>1 DEF Committed, FreshInv
  <2> QED
    BY <2>1, <2>2 DEF FreshInv
<1>5. CASE Commit
  <2>1. /\ tx # Idle /\ tx.phase = "record" /\ tx' = Idle
        /\ UNCHANGED <<day, events, rewards, summary, visits>>
        /\ race' = IF tx.wrote /\ race # "now" THEN "none" ELSE race
    BY <1>5 DEF Commit, Ends
  <2>2. /\ Committed'.events = events /\ Committed'.rewards = rewards
        /\ Committed'.summary = summary
    BY <2>1 DEF Committed, Snapshot
  <2>3. race' # "now" => race # "now" /\ visits = {}
    BY <2>1 DEF FreshInv
  <2>4. race' = "none" => Agrees(summary, events, rewards, day)
    BY <2>1, <2>3 DEF FreshInv
  <2> QED
    BY <2>1, <2>2, <2>3, <2>4 DEF FreshInv
<1>6. CASE Rollback
  <2>1. /\ tx # Idle /\ tx' = Idle /\ UNCHANGED <<day, visits, race>>
        /\ summary' = saved.summary /\ events' = saved.events /\ rewards' = saved.rewards
    BY <1>6 DEF Rollback
  <2>2. /\ Committed'.events = saved.events /\ Committed'.rewards = saved.rewards
        /\ Committed'.summary = saved.summary /\ Committed = saved
    BY <2>1 DEF Committed, Snapshot
  <2> QED
    BY <2>1, <2>2 DEF FreshInv
<1>7. ASSUME NEW o \in Orders, NEW at, BeginOrder(o, at) PROVE FreshInv'
  BY <1>7, FreshBegin DEF BeginOrder, MayClaim
<1>8. ASSUME NEW o \in Orders, BeginReturns(o) PROVE FreshInv'
  BY <1>8, FreshBegin DEF BeginReturns, tables
<1>9. ASSUME NEW m \in ManualEntries, BeginManual(m) PROVE FreshInv'
  BY <1>9, FreshBegin DEF BeginManual, tables
<1>10. CASE BeginExpire
  BY <1>10, FreshBegin DEF BeginExpire, tables
<1>11. ASSUME NEW o \in Orders, NEW known \in BOOLEAN, SkipOrder(o, known) PROVE FreshInv'
  BY <1>11, FreshQuiet DEF SkipOrder
<1>16. ASSUME NEW o \in Orders, CheckOrder(o) PROVE FreshInv'
  BY <1>16, FreshQuiet DEF CheckOrder, tables
<1>12. ASSUME NEW s \in visits, Redeem(s) \/ ExpireApply(s) PROVE FreshInv'
  <2>1. EndVisit(s)
    BY <1>12 DEF Redeem, ExpireApply
  <2>2. /\ visits' = visits \ {s} /\ UNCHANGED <<day, tx>>
        /\ race' = IF race # "now" THEN "none" ELSE race
    BY <2>1 DEF EndVisit, Ends
  <2>3. CASE race = "now"
    BY <2>2, <2>3 DEF FreshInv
  <2>4. CASE race # "now"
    <3>1. tx = Idle /\ visits' = {} /\ Foresees(s) /\ tx' = Idle
      BY <2>2, <2>4 DEF FreshInv
    <3>2. /\ events' = EventsAfter(events, s.reward, s.to) /\ summary' = s.summary
          /\ rewards' = SetStatus(rewards, s.reward, s.to)
      BY <2>1, <3>1 DEF EndVisit
    <3>3. /\ Committed'.events = events' /\ Committed'.rewards = rewards'
          /\ Committed'.summary = summary'
      BY <3>1 DEF Committed, Snapshot
    <3>4. Agrees(summary', events', rewards', day')
      BY <2>2, <3>1, <3>2 DEF Foresees
    <3> QED
      BY <3>1, <3>3, <3>4 DEF FreshInv
  <2> QED
    BY <2>3, <2>4
<1>17. ASSUME NEW r \in Ids(Committed.rewards), BeginRedeem(r) \/ BeginRevoke(r) PROVE FreshInv'
  <2>1. PICK to : BeginVisit(r, to)
    BY <1>17 DEF BeginRedeem, BeginRevoke
  <2>2. UNCHANGED <<day, events, rewards, summary, tx, saved>>
    BY <2>1 DEF BeginVisit, tables
  <2>3. race' = IF tx # Idle \/ visits # {} THEN "now" ELSE IF race = "now" THEN "past" ELSE race
    BY <2>1 DEF BeginVisit, Starts
  <2>4. /\ Committed'.events = Committed.events /\ Committed'.rewards = Committed.rewards
        /\ Committed'.summary = Committed.summary
    BY <2>2 DEF Committed, Snapshot
  <2>5. CASE tx # Idle \/ visits # {}
    BY <2>3, <2>5 DEF FreshInv
  <2>6. CASE tx = Idle /\ visits = {}
    <3>1. Committed.events = events /\ Committed.rewards = rewards
      BY <2>6, CommittedIs
    <3>2. PICK s : /\ s = [reward |-> r, to |-> to, summary |->
                             SummaryOf(EventsAfter(events, r, to), SetStatus(rewards, r, to))]
                   /\ visits' = {s}
      BY <2>1, <2>6, <3>1 DEF BeginVisit
    <3>3. Agrees(s.summary, EventsAfter(events, s.reward, s.to), SetStatus(rewards, s.reward, s.to), day)
      <4>1. PICK ev, rw : ev = EventsAfter(events, r, to) /\ rw = SetStatus(rewards, r, to)
        OBVIOUS
      <4>2. Agrees(SummaryOf(ev, rw), ev, rw, day)
        BY <1>0, SummaryAgrees
      <4>3. s.summary = SummaryOf(ev, rw) /\ s.reward = r /\ s.to = to
        BY <3>2, <4>1
      <4> QED
        BY <4>1, <4>2, <4>3
    <3>4. Foresees(s)'
      BY <2>2, <3>3 DEF Foresees
    <3>5. race' = "none" => race = "none"
      BY <2>3
    <3> QED
      BY <2>2, <2>4, <2>6, <3>2, <3>4, <3>5 DEF FreshInv
  <2> QED
    BY <2>5, <2>6
<1>18. ASSUME NEW s \in visits, RedeemFails(s) PROVE FreshInv'
  BY <1>18, FreshQuiet DEF RedeemFails, tables
<1>13. CASE Tick
  <2>1. day' = day + 1 /\ tx = Idle /\ UNCHANGED <<events, rewards, summary, tx, visits, race>>
    BY <1>13 DEF Tick, tables
  <2>2. /\ Committed'.events = events /\ Committed'.rewards = rewards
        /\ Committed'.summary = summary
    BY <2>1 DEF Committed, Snapshot
  <2>3. Agrees(summary, events, rewards, day) => Agrees(summary, events, rewards, day + 1)
    <3>1. summary.updatedAt \in Int
      BY <1>0, TimeAssumption DEF Typed, Summary
    <3> QED
      BY <1>0, <3>1, AgreesTomorrow
  <2>4. ASSUME NEW s \in visits, Foresees(s) PROVE Foresees(s)'
    <3>1. s.summary.updatedAt \in Int
      <4>1. s \in Visit
        BY <1>0 DEF Typed
      <4>2. s.summary \in Summary
        BY <4>1 DEF Visit
      <4> QED
        BY <4>2, TimeAssumption DEF Summary
    <3>2. PICK ev, rw : /\ ev = EventsAfter(events, s.reward, s.to)
                        /\ rw = SetStatus(rewards, s.reward, s.to)
      OBVIOUS
    <3>3. Agrees(s.summary, ev, rw, day)
      BY <2>4, <3>2 DEF Foresees
    <3>4. Agrees(s.summary, ev, rw, day + 1)
      BY <1>0, <3>1, <3>3, AgreesTomorrow
    <3> QED
      BY <2>1, <3>2, <3>4 DEF Foresees
  <2>5. race = "none" => Agrees(summary, events, rewards, day)
    BY <2>1, CommittedIs DEF FreshInv
  <2> QED
    BY <2>1, <2>2, <2>3, <2>4, <2>5 DEF FreshInv
<1>14. CASE ExpireScan \/ ExpireAbort \/ UNCHANGED vars
  BY <1>14, FreshQuiet DEF ExpireScan, ExpireAbort, vars, tables
<1> QED
  BY <1>2, <1>3, <1>4, <1>5, <1>6, <1>7, <1>8, <1>9, <1>10, <1>11, <1>12, <1>13, <1>14,
     <1>15, <1>16, <1>17, <1>18 DEF Next

\* Between transactions loyalty_customer_summary agrees with the purchases and rewards,
\* whatever was recorded, rolled back, redeemed or expired, except where transactions
\* have overlapped; and the first that recomputes it alone sets it right.
THEOREM SummaryAgreesAlways == Spec => []SummaryFresh
<1>1. LedgerInv /\ FreshInv => SummaryFresh
  <2> SUFFICES ASSUME LedgerInv, FreshInv, tx = Idle, race = "none"
               PROVE  LET now == SummaryOf(events, rewards)
                      IN  \A f \in DOMAIN now \ {"updatedAt"} :
                            (f = "current" => summary.updatedAt = day) => summary[f] = now[f]
    BY DEF SummaryFresh
  <2> DEFINE now == SummaryOf(events, rewards)
  <2>1. Agrees(summary, events, rewards, day) /\ summary \in Summary
    BY CommittedIs DEF FreshInv, LedgerInv, Typed
  <2>2. /\ DOMAIN now = {"current", "lifetime", "earnedId", "rewarded", "redeemed", "updatedAt"}
        /\ now.current = UnlockedOn(events, day)
    BY DEF SummaryOf, Unlocked, Open, InWindow, UnlockedOn
  <2>3. /\ summary.updatedAt = day => summary.current = now.current
        /\ summary.lifetime = now.lifetime /\ summary.earnedId = now.earnedId
        /\ summary.rewarded = now.rewarded /\ summary.redeemed = now.redeemed
    BY <2>1, <2>2 DEF Agrees, SummaryOf
  <2> HIDE DEF now
  <2> SUFFICES ASSUME NEW f \in DOMAIN now \ {"updatedAt"}, f = "current" => summary.updatedAt = day
               PROVE  summary[f] = now[f]
    BY DEF now
  <2> QED
    BY <2>2, <2>3
<1>2. Spec => []FreshInv
  BY FreshInit, FreshStep, LedgerAlways, PTL DEF Spec
<1> QED
  BY <1>1, <1>2, LedgerAlways, PTL

-----------------------------------------------------------------------------
(* A split carries the units of the row it replaces *)

Children(ev, i) == {j \in Ids(ev) : ev[j].parent = i}
Carried(ev, i) ==
  /\ ev[i].reward = 0
  /\ Qty(ev, Children(ev, i)) = ev[i].qty
  /\ \A j \in Children(ev, i) : ev[j].qty > 0 /\ ev[j].wend = ev[i].wend

\* A row comes after the row it was split off, and what was split counts through its
\* children only.
SplitSound(ev) ==
  \A i \in Ids(ev) : ev[i].parent \in 0..Len(ev) /\ (Superseded(ev, i) => Carried(ev, i))

LEMMA SplitRelocked ==
  ASSUME NEW a \in Seq(Row), NEW b, SameRecords(a, b), SplitSound(a),
         \A i \in 1..Len(a) : a[i].reward = 0 /\ Superseded(a, i) => b[i].reward = 0
  PROVE  SplitSound(b)
<1>1. Ids(a) = 1..Len(a) /\ Ids(b) = 1..Len(a) /\ Len(b) = Len(a) /\ b \in Seq(Row)
  BY DEF SameRecords, Ids
<1>2. \A i : Children(b, i) = Children(a, i) /\ (Superseded(b, i) <=> Superseded(a, i))
  BY <1>1 DEF Children, Superseded, SameRecords, SameRecord
<1>3. ASSUME NEW i \in 1..Len(a), Superseded(b, i) PROVE Carried(b, i)
  <2>1. Carried(a, i) /\ b[i].reward = 0
    BY <1>1, <1>2, <1>3 DEF SplitSound, Carried
  <2>2. Qty(a, Children(a, i)) = Qty(b, Children(b, i))
    <3>1. \A j \in 1..Len(a) : /\ j \in Children(a, i) <=> j \in Children(b, i)
                              /\ a[j].qty = b[j].qty
      BY <1>2 DEF SameRecords, SameRecord
    <3>2. IsTable(a, Row) /\ IsTable(b, Row)
      BY <1>1, RowTable
    <3> QED
      BY <1>1, <3>1, <3>2, QtySame
  <2>3. \A j \in Children(b, i) : j \in 1..Len(a) /\ j \in Children(a, i)
    BY <1>1, <1>2 DEF Children
  <2> QED
    BY <1>3, <2>1, <2>2, <2>3 DEF Carried, SameRecords, SameRecord
<1>4. \A i \in 1..Len(a) : b[i].parent \in 0..Len(b)
  BY <1>1 DEF SplitSound, SameRecords, SameRecord
<1> QED
  BY <1>1, <1>3, <1>4 DEF SplitSound

LEMMA SplitUnlock ==
  ASSUME NEW ev \in Seq(Row), SplitSound(ev), NEW r
  PROVE  SplitSound(Unlock(ev, r))
BY UnlockSame, UnlockType, SplitRelocked

LEMMA SplitLock ==
  ASSUME events \in Seq(Row), SplitSound(events), NEW L \in SUBSET Candidates, NEW r \in Nat
  PROVE  SplitSound(Lock(L, r))
<1>1. \A i \in 1..Len(events) : Superseded(events, i) => i \notin L
  BY DEF Candidates, Open
<1> QED
  BY <1>1, LockSame, LockFacts, SplitRelocked

\* A new row that is no child.
LEMMA SplitAppend ==
  ASSUME NEW ev \in Seq(Row), SplitSound(ev), NEW row \in Row, row.parent = 0
  PROVE  SplitSound(Append(ev, row))
<1> DEFINE new == Append(ev, row)
<1>1. /\ Ids(ev) = 1..Len(ev) /\ Ids(new) = 1..(Len(ev) + 1) /\ Len(new) = Len(ev) + 1
      /\ new[Len(ev) + 1] = row /\ Len(ev) \in Nat
      /\ \A i \in 1..Len(ev) : new[i] = ev[i]
  BY AppendFacts
<1>2. \A S : Qty(new, S) = Qty(ev, S) + (IF Len(ev) + 1 \in S THEN row.qty ELSE 0)
  BY RowTable, QtyAppend
<1> HIDE DEF new
<1>3. ASSUME NEW i \in Nat, i # 0 PROVE Children(new, i) = Children(ev, i)
  BY <1>1, <1>3 DEF Children
<1>4. ASSUME NEW i \in 1..(Len(ev) + 1), Superseded(new, i) PROVE Carried(new, i)
  <2>1. PICK j \in 1..(Len(ev) + 1) : new[j].parent = i
    BY <1>1, <1>4 DEF Superseded
  <2>2. j \in 1..Len(ev) /\ ev[j].parent = i
    BY <1>1, <2>1
  <2>3. i \in 1..Len(ev)
    BY <1>1, <2>2 DEF SplitSound
  <2>4. Carried(ev, i)
    BY <1>1, <2>2, <2>3 DEF SplitSound, Superseded
  <2>5. Children(new, i) = Children(ev, i) /\ Len(ev) + 1 \notin Children(ev, i)
    BY <1>1, <1>3 DEF Children
  <2>6. Qty(new, Children(new, i)) = Qty(ev, Children(ev, i))
    BY <1>2, <2>5, EventsQty
  <2> QED
    BY <1>1, <2>3, <2>4, <2>5, <2>6 DEF Carried, Children
<1>5. \A i \in 1..(Len(ev) + 1) : new[i].parent \in 0..Len(new)
  BY <1>1 DEF SplitSound
<1> QED
  BY <1>1, <1>4, <1>5 DEF SplitSound, new

\* Row c gives way to two children.
LEMMA SplitTwo ==
  ASSUME NEW ev \in Seq(Row), SplitSound(ev), NEW c \in 1..Len(ev),
         ev[c].reward = 0, ~Superseded(ev, c),
         NEW n \in Int, 0 < n, n < ev[c].qty, NEW r \in Nat
  PROVE  SplitSound(Append(Append(ev, Child(ev[c], c, n, r)),
                           Child(ev[c], c, ev[c].qty - n, 0)))
<1> DEFINE x   == Child(ev[c], c, n, r)
           y   == Child(ev[c], c, ev[c].qty - n, 0)
           mid == Append(ev, x)
           new == Append(mid, y)
           N   == Len(ev)
<1>0. ev[c] \in Row /\ ev[c].qty \in Int /\ c \in Nat /\ c # 0
  <2>1. ev[c] \in Row
    OBVIOUS
  <2> QED
    BY <2>1 DEF Row
<1>1. x \in Row /\ y \in Row
  <2>1. x \in Row
    BY <1>0, ChildType
  <2>2. ev[c].qty - n \in Int /\ 0 \in Nat
    BY <1>0
  <2>3. y \in Row
    BY <1>0, <2>2, ChildType
  <2> QED
    BY <2>1, <2>3
<1>2. /\ x.qty = n /\ x.parent = c /\ x.wend = ev[c].wend
      /\ y.qty = ev[c].qty - n /\ y.parent = c /\ y.wend = ev[c].wend
  BY <1>0 DEF Child, Row
<1> HIDE DEF x, y
<1>3. /\ mid \in Seq(Row) /\ Ids(ev) = 1..N /\ Len(mid) = N + 1 /\ N \in Nat
      /\ mid[N + 1] = x /\ \A i \in 1..N : mid[i] = ev[i]
  BY <1>1, AppendFacts
<1>4. \A S : Qty(mid, S) = Qty(ev, S) + (IF N + 1 \in S THEN n ELSE 0)
  BY <1>1, <1>2, RowTable, QtyAppend
<1> HIDE DEF mid
<1>5. /\ Ids(new) = 1..(N + 2) /\ Len(new) = N + 2 /\ new[N + 2] = y /\ new[N + 1] = x
      /\ \A i \in 1..N : new[i] = ev[i]
  BY <1>1, <1>3, AppendFacts
<1>6. \A S : Qty(new, S) = Qty(mid, S) + (IF N + 2 \in S THEN ev[c].qty - n ELSE 0)
  <2>1. \A S : Qty(new, S) = Qty(mid, S) + (IF Len(mid) + 1 \in S THEN y.qty ELSE 0)
    <3>1. IsTable(mid, Row)
      BY <1>3, RowTable
    <3> QED
      BY <1>1, <3>1, QtyAppend
  <2>2. Len(mid) + 1 = N + 2
    BY <1>3
  <2> QED
    BY <1>2, <2>1, <2>2
<1> HIDE DEF new, N
<1>7. ASSUME NEW i \in 1..(N + 2), i # c, Superseded(new, i) PROVE Carried(new, i)
  <2>1. PICK j \in 1..(N + 2) : new[j].parent = i
    BY <1>5, <1>7 DEF Superseded
  <2>2. j \in 1..N /\ ev[j].parent = i
    BY <1>2, <1>3, <1>5, <1>7, <2>1
  <2>3. i \in 1..N
    BY <1>3, <2>2 DEF SplitSound, N
  <2>4. Carried(ev, i)
    BY <1>3, <2>2, <2>3 DEF SplitSound, Superseded
  <2>5. /\ Children(new, i) = Children(ev, i)
        /\ N + 1 \notin Children(ev, i) /\ N + 2 \notin Children(ev, i)
    BY <1>2, <1>3, <1>5, <1>7 DEF Children
  <2>6. Qty(new, Children(new, i)) = Qty(ev, Children(ev, i))
    BY <1>4, <1>6, <2>5, EventsQty
  <2> QED
    BY <1>3, <1>5, <2>3, <2>4, <2>5, <2>6 DEF Carried, Children
<1>8. Carried(new, c)
  <2>1. Children(ev, c) = {}
    BY DEF Children, Superseded
  <2>2. Children(new, c) = {N + 1, N + 2}
    <3>1. \A j \in 1..N : ev[j].parent # c
      BY <1>3, <2>1 DEF Children
    <3>2. \A j \in 1..(N + 2) : new[j].parent = c <=> j \in {N + 1, N + 2}
      BY <1>2, <1>3, <1>5, <3>1
    <3> QED
      BY <1>3, <1>5, <3>2 DEF Children
  <2>3. Qty(ev, {N + 1, N + 2}) = Qty(ev, {})
    <3>1. \A i \in 1..Len(ev) : i \notin {N + 1, N + 2}
      BY <1>3 DEF N
    <3> QED
      BY <3>1, RowTable, QtySame
  <2>4. Qty(new, {N + 1, N + 2}) = ev[c].qty
    BY <1>0, <1>4, <1>6, <2>3, QtyNone
  <2>5. new[c] = ev[c]
    BY <1>5 DEF N
  <2> QED
    BY <1>0, <1>2, <1>5, <2>2, <2>4, <2>5 DEF Carried
<1>9. \A i \in 1..(N + 2) : new[i].parent \in 0..Len(new)
  BY <1>2, <1>3, <1>5 DEF SplitSound, N
<1>10. SplitSound(new)
  BY <1>5, <1>7, <1>8, <1>9 DEF SplitSound
<1> QED
  BY <1>10 DEF new, mid, x, y, N

LEMMA EndingSteps ==
  ASSUME NEW s, Redeem(s) \/ ExpireApply(s)
  PROVE  Ending(s)
BY DEF Redeem, ExpireApply, EndVisit, Ending

\* What a rollback restores is what was committed when the transaction began, and what
\* redemptions and revocations have committed next to it.
LEMMA SavedSteps ==
  ASSUME LedgerInv, [Next]_vars, tx' # Idle
  PROVE  \/ tx = Idle /\ saved' = Snapshot
         \/ tx # Idle /\ saved' = saved
         \/ tx # Idle /\ \E s \in visits : Ending(s)
<1> USE DEF tables
<1>1. CASE tx = Idle
  <2>1. \A t : ~RecordPurchase(t) /\ ~RecordReturn(t)
    BY <1>1 DEF RecordPurchase, RecordReturn, Idle
  <2>2. ~(UNCHANGED tx)
    BY <1>1
  <2>3. \A s : ~Redeem(s) /\ ~ExpireApply(s) /\ ~RedeemFails(s)
    BY <2>2 DEF Redeem, ExpireApply, EndVisit, RedeemFails
  <2>4. \A r : ~BeginRedeem(r) /\ ~BeginRevoke(r)
    BY <2>2 DEF BeginRedeem, BeginRevoke, BeginVisit
  <2> QED
    BY <1>1, <2>1, <2>2, <2>3, <2>4 DEF Next, CheckOrder, SkipOrder, BeginOrder, BeginReturns,
       BeginManual, Begin, UpdateProgress, EarnReward, ReadSummary, WriteSummary, Commit,
       Rollback, BeginExpire, ExpireScan, ExpireAbort, Tick, vars
<1>2. CASE tx # Idle
  <2>1. \A s : Redeem(s) \/ ExpireApply(s) => Ending(s)
    BY EndingSteps
  <2>2. \A r : BeginRedeem(r) \/ BeginRevoke(r) => saved' = saved
    BY DEF BeginRedeem, BeginRevoke, BeginVisit
  <2>3. \A s : RedeemFails(s) => saved' = saved
    BY DEF RedeemFails
  <2>4. CASE \E s \in visits : Ending(s)
    BY <1>2, <2>4
  <2>5. CASE ~\E s \in visits : Ending(s)
    BY <1>2, <2>1, <2>2, <2>3, <2>5 DEF Next, CheckOrder, SkipOrder, BeginOrder, BeginReturns,
       BeginManual, MayClaim, RecordPurchase, RecordReturn, UpdateProgress, EarnReward,
       ReadSummary, WriteSummary, Commit, Rollback, BeginExpire, ExpireScan, ExpireAbort, Tick, vars
  <2> QED
    BY <2>4, <2>5
<1> QED
  BY <1>1, <1>2

\* The steps that write the purchase rows.
LEMMA EventSteps ==
  ASSUME [Next]_vars, events' # events
  PROVE  \/ \E t \in tx.todo : tx # Idle /\ (RecordPurchase(t) \/ RecordReturn(t))
         \/ EarnReward \/ Rollback
         \/ \E s \in visits : Ending(s)
<1>1. \A r : ~BeginRedeem(r) /\ ~BeginRevoke(r)
  BY DEF BeginRedeem, BeginRevoke, BeginVisit, tables
<1>2. \A s : ~RedeemFails(s)
  BY DEF RedeemFails, tables
<1>3. \A s : Redeem(s) \/ ExpireApply(s) => Ending(s)
  BY EndingSteps
<1> QED
  BY <1>1, <1>2, <1>3 DEF Next, CheckOrder, SkipOrder, BeginOrder, BeginReturns, BeginManual,
     UpdateProgress, ReadSummary, WriteSummary, Commit, BeginExpire, ExpireScan, ExpireAbort,
     Tick, vars, tables

SplitInv == SplitSound(events) /\ (tx # Idle => SplitSound(saved.events))

LEMMA SplitEarn ==
  ASSUME Typed, SplitSound(events), EarnReward
  PROVE  SplitSound(events')
<1>1. tx \in Tx /\ tx.reward \in Nat /\ events \in Seq(Row)
  BY OpenTx DEF EarnReward, Tx, Typed
<1>2. PICK L \in SUBSET Candidates :
        \E c \in (IF L = Candidates THEN {0} ELSE Earliest(Candidates \ L)) :
          Consumable(L, c) /\ events' = Consume(L, c, tx.reward)
  BY DEF EarnReward
<1>3. PICK c \in (IF L = Candidates THEN {0} ELSE Earliest(Candidates \ L)) :
        Consumable(L, c) /\ events' = Consume(L, c, tx.reward)
  BY <1>2
<1> DEFINE locked == Lock(L, tx.reward)
<1>4. SplitSound(locked) /\ SameRecords(events, locked)
  BY <1>1, SplitLock, LockSame
<1>5. CASE events' = locked
  BY <1>4, <1>5
<1>6. CASE events' # locked
  <2>1. /\ c \in Candidates \ L /\ locked[c] = events[c]
        /\ \E n \in Int : /\ 0 < n /\ n < events[c].qty
                          /\ events' = Append(Append(locked, Child(events[c], c, n, tx.reward)),
                                              Child(events[c], c, events[c].qty - n, 0))
    <3> DEFINE q == tx.reward
    <3>1. q \in Nat /\ Consumable(L, c) /\ events' = Consume(L, c, q)
      BY <1>1, <1>3
    <3> HIDE DEF q
    <3>2. PartlyLocked(L, c, q)
      BY <1>1, <1>3, <3>1, ConsumeShape
    <3>3. events' # Lock(L, q)
      BY <1>6 DEF q
    <3> QED
      BY <3>1, <3>2, <3>3 DEF PartlyLocked, q
  <2> HIDE DEF locked
  <2>2. /\ c \in Ids(events) /\ events[c].reward = 0 /\ ~Superseded(events, c)
        /\ Ids(events) = 1..Len(locked) /\ Ids(locked) = Ids(events)
    BY <1>4, <2>1 DEF Candidates, Open, SameRecords, Ids
  <2>3. ~Superseded(locked, c)
    BY <1>4, <2>2 DEF Superseded, SameRecords, SameRecord, Ids
  <2>4. locked \in Seq(Row) /\ c \in 1..Len(locked)
    BY <1>4, <2>2 DEF SameRecords
  <2>5. PICK n \in Int : /\ 0 < n /\ n < locked[c].qty
                         /\ events' = Append(Append(locked, Child(locked[c], c, n, tx.reward)),
                                             Child(locked[c], c, locked[c].qty - n, 0))
    BY <2>1
  <2> QED
    BY <1>1, <1>4, <2>1, <2>2, <2>3, <2>4, <2>5, SplitTwo
<1> QED
  BY <1>5, <1>6

LEMMA SplitReturn ==
  ASSUME LedgerInv, SplitSound(events), tx # Idle, NEW t \in tx.todo, RecordReturn(t)
  PROVE  SplitSound(events')
<1>1. events \in Seq(Row) /\ Typed /\ Sound(events, rewards)
  BY DEF LedgerInv, Typed
<1>2. CASE events' = events
  BY <1>2
<1>3. CASE events' # events
  <2>1. PICK wend \in Int : /\ NewRow(t, -t.qty, wend) \in Row
                           /\ events' = Append(events, NewRow(t, -t.qty, wend))
    BY <1>1, <1>3, ReturnAppends
  <2>2. NewRow(t, -t.qty, wend).parent = 0
    BY DEF NewRow
  <2> QED
    BY <1>1, <2>1, <2>2, SplitAppend
<1> QED
  BY <1>2, <1>3

LEMMA SplitStep == LedgerInv /\ SplitInv /\ [Next]_vars => SplitInv'
<1> SUFFICES ASSUME LedgerInv, SplitInv, [Next]_vars PROVE SplitSound(events') /\ (tx' # Idle => SplitSound(saved'.events))
  BY DEF SplitInv, SplitSound, Superseded, Carried, Children, Qty, Ids
<1>0. Typed /\ events \in Seq(Row) /\ SplitSound(events)
  BY DEF LedgerInv, Typed, SplitInv
<1>7. ASSUME NEW ev \in Seq(Row), SplitSound(ev), NEW s
      PROVE  SplitSound(EventsAfter(ev, s.reward, s.to))
  BY <1>7, SplitUnlock DEF EventsAfter
<1>1. tx' # Idle => SplitSound(saved'.events)
  <2>1. ASSUME tx # Idle, NEW s \in visits, Ending(s) PROVE SplitSound(saved'.events)
    <3>1. saved.events \in Seq(Row) /\ SplitSound(saved.events)
      BY <1>0, <2>1 DEF Typed, Tables, SplitInv
    <3> QED
      BY <1>0, <1>7, <2>1, <3>1, SavedEnd
  <2> QED
    BY <2>1, SavedSteps DEF SplitInv, Snapshot
<1>2. CASE events' = events
  BY <1>0, <1>1, <1>2
<1>3. ASSUME NEW t \in tx.todo, tx # Idle, RecordPurchase(t), events' # events
      PROVE  SplitSound(events')
  <2>1. tx \in Tx /\ t \in Todo
    BY <1>0, <1>3, OpenTx DEF Tx
  <2>2. tx.at + Window \in Int /\ t.qty \in Int
    BY <2>1, TimeAssumption DEF Tx, Todo
  <2> DEFINE row == NewRow(t, t.qty, tx.at + Window)
  <2>3. row \in Row
    BY <2>1, <2>2, NewRowType
  <2>4. row.parent = 0
    BY DEF NewRow
  <2>5. events' = Append(events, row)
    BY <1>3 DEF RecordPurchase
  <2> QED
    BY <1>0, <2>3, <2>4, <2>5, SplitAppend
<1>4. CASE Rollback
  BY <1>4 DEF Rollback, SplitInv
<1>5. ASSUME NEW s \in visits, Ending(s) PROVE SplitSound(events')
  BY <1>0, <1>5, <1>7 DEF Ending, EndVisit
<1>6. CASE events' # events
  <2>1. \/ \E t \in tx.todo : tx # Idle /\ (RecordPurchase(t) \/ RecordReturn(t))
        \/ EarnReward \/ Rollback
        \/ \E s \in visits : Ending(s)
    BY <1>6, EventSteps
  <2>2. ASSUME NEW t \in tx.todo, tx # Idle, RecordReturn(t) PROVE SplitSound(events')
    BY <1>0, <2>2, SplitReturn
  <2>3. ASSUME EarnReward PROVE SplitSound(events')
    BY <1>0, <2>3, SplitEarn
  <2>4. ASSUME NEW t \in tx.todo, tx # Idle, RecordPurchase(t) PROVE SplitSound(events')
    BY <1>3, <1>6, <2>4
  <2>5. ASSUME NEW s \in visits, Ending(s) PROVE SplitSound(events')
    BY <1>5, <2>5
  <2>6. CASE \E s \in visits : Ending(s)
    BY <1>1, <2>5, <2>6
  <2>7. CASE \E t \in tx.todo : tx # Idle /\ (RecordPurchase(t) \/ RecordReturn(t))
    BY <1>1, <2>2, <2>4, <2>7
  <2>8. CASE EarnReward
    BY <1>1, <2>3, <2>8
  <2>9. CASE Rollback
    BY <1>1, <1>4, <2>9
  <2>10. SplitSound(events')
    BY <2>1, <2>6, <2>7, <2>8, <2>9
  <2> QED
    BY <1>1, <2>10
<1> QED
  BY <1>1, <1>2, <1>6

\* Splits neither make nor lose units, for any number of rows, splits of splits
\* included, and a row that was split is never locked.
THEOREM SplitsConserve == Spec => []SplitConserves
<1>1. Init => SplitInv
  BY DEF Init, SplitInv, SplitSound, Ids
<1>2. SplitInv => SplitConserves
  BY DEF SplitInv, SplitSound, SplitConserves, Carried, Children
<1> QED
  BY <1>1, <1>2, SplitStep, LedgerAlways, PTL DEF Spec

-----------------------------------------------------------------------------
(* An order is recorded whole *)

\* The lines of a variation that count, added up, and what intake is to record of them.
Line(o, v) == [item |-> v, qty |-> Qty(Basket[o], Paid(o, v)), ref |-> NoRef]
Asked(o, v) == IF v \in Qualifying /\ Paid(o, v) # {} THEN {Line(o, v).qty} ELSE {}

\* At most one row, with the units of one of Q.
Single(ev, o, v, Q) ==
  /\ \A i, j \in Bought(ev, o, v) : i = j
  /\ \A i \in Bought(ev, o, v) : ev[i].qty \in Q

\* What a claim promises.
Taken(claims, o, v) == IF claims[o] = "qualifying" THEN Asked(o, v) ELSE {}
Whole(ev, claims, o, v) ==
  /\ Single(ev, o, v, Keyed(o, v) \cup Taken(claims, o, v))
  /\ Taken(claims, o, v) # {} => Bought(ev, o, v) # {}
AllWhole(ev, claims, o) == \A v \in Items : Whole(ev, claims, o, v)

\* Each variation of the order that is being taken in is recorded, or still to be; and
\* while no row has been added only what was keyed in is there.
Taking(t, o) == t # Idle /\ t.kind = "order" /\ t.order = o
InHand(ev, old, todo, o) ==
  /\ todo \subseteq Aggregate(Basket[o])
  /\ \A v \in Items :
       /\ Single(ev, o, v, Keyed(o, v) \cup Asked(o, v))
       /\ Asked(o, v) # {} => Bought(ev, o, v) # {} \/ Line(o, v) \in todo
       /\ Len(ev) = Len(old) => Single(ev, o, v, Keyed(o, v))

\* Returns carry a key of their own, and a manual entry what was keyed in.
Proper(t) ==
  /\ t.kind = "return" => \A x \in t.todo : x.ref # NoRef
  /\ t.kind = "manual" =>
       \A x \in t.todo : x.ref = NoRef /\ x.qty \in Keyed(t.order, x.item)

\* Of the tables ev and claims, an open transaction t and what it started from.
Kept(ev, claims, t, old) ==
  /\ \A o \in Orders : IF Taking(t, o) THEN InHand(ev, old.events, t.todo, o)
                       ELSE AllWhole(ev, claims, o)
  /\ t # Idle => /\ \A o \in Orders : AllWhole(old.events, old.processed, o)
                 /\ Len(ev) >= Len(old.events)
                 /\ Proper(t)
RecordInv == Kept(events, processed, tx, saved)

LEMMA RecordNext ==
  ASSUME Kept(events', processed', tx', saved')
  PROVE  RecordInv'
BY DEF RecordInv, Kept, Taking, InHand, Proper, AllWhole, Whole, Single, Taken, Asked, Keyed,
   Bought, Line, Paid, Aggregate, Counted, Qty, Ids, Idle

LEMMA AggregateLines ==
  ASSUME NEW o \in Orders
  PROVE  Aggregate(Basket[o]) = {Line(o, v) : v \in {v \in Items : Paid(o, v) # {}}}
<1>1. \A v : {i \in Ids(Basket[o]) : Counted(Basket[o][i]) /\ Basket[o][i].item = v} = Paid(o, v)
  BY DEF Paid
<1> QED
  BY <1>1 DEF Aggregate, Line

\* b records what a records.
SameBought(a, b, o, v) ==
  /\ Bought(b, o, v) = Bought(a, o, v)
  /\ \A i \in Bought(a, o, v) : b[i].qty = a[i].qty
Alike(a, b) == Len(b) >= Len(a) /\ \A o, v : SameBought(a, b, o, v)

LEMMA SingleSame ==
  ASSUME NEW a, NEW b, NEW o, NEW v, SameBought(a, b, o, v), NEW Q, Single(a, o, v, Q)
  PROVE  Single(b, o, v, Q)
BY DEF SameBought, Single

LEMMA WholeSame ==
  ASSUME NEW a, NEW b, NEW o, NEW v, SameBought(a, b, o, v), NEW claims, Whole(a, claims, o, v)
  PROVE  Whole(b, claims, o, v)
BY SingleSame DEF Whole, SameBought

LEMMA AlikeSelf ==
  ASSUME NEW ev \in Seq(Row)
  PROVE  Alike(ev, ev)
<1>1. Len(ev) >= Len(ev)
  OBVIOUS
<1> QED
  BY <1>1 DEF Alike, SameBought

LEMMA AlikeRelocked ==
  ASSUME NEW a \in Seq(Row), NEW b, SameRecords(a, b)
  PROVE  Alike(a, b)
<1>1. Ids(a) = 1..Len(a) /\ Ids(b) = 1..Len(a) /\ Len(b) = Len(a) /\ Len(a) \in Nat
  BY DEF SameRecords, Ids
<1>2. \A o, v : Bought(b, o, v) = Bought(a, o, v)
  BY <1>1 DEF Bought, SameRecords, SameRecord
<1>3. \A i \in 1..Len(a) : b[i].qty = a[i].qty
  BY DEF SameRecords, SameRecord
<1>4. \A o, v : \A i \in Bought(a, o, v) : i \in 1..Len(a)
  BY <1>1 DEF Bought
<1>5. \A o, v : SameBought(a, b, o, v)
  BY <1>2, <1>3, <1>4 DEF SameBought
<1> QED
  BY <1>1, <1>5 DEF Alike

\* A redemption or a revocation records nothing.
LEMMA AlikeAfter ==
  ASSUME NEW a \in Seq(Row), NEW r, NEW to
  PROVE  Alike(a, EventsAfter(a, r, to)) /\ Len(EventsAfter(a, r, to)) = Len(a)
<1>1. SameRecords(a, EventsAfter(a, r, to)) \/ EventsAfter(a, r, to) = a
  BY UnlockSame DEF EventsAfter
<1>2. Alike(a, a)
  BY AlikeSelf
<1> QED
  BY <1>1, <1>2, AlikeRelocked DEF SameRecords

LEMMA AlikeTwice ==
  ASSUME NEW a \in Seq(Row), NEW b \in Seq(Row), NEW c \in Seq(Row), Alike(a, b), Alike(b, c)
  PROVE  Alike(a, c)
<1>1. Len(c) >= Len(a)
  BY DEF Alike
<1>2. ASSUME NEW o, NEW v PROVE SameBought(a, c, o, v)
  <2>1. SameBought(a, b, o, v) /\ SameBought(b, c, o, v)
    BY DEF Alike
  <2> QED
    BY <2>1 DEF SameBought
<1> QED
  BY <1>1, <1>2 DEF Alike

\* A row that records something else.
LEMMA AppendOther ==
  ASSUME NEW ev \in Seq(Row), NEW row \in Row, NEW o, NEW v,
         ~(row.order = o /\ row.item = v /\ row.parent = 0 /\ row.ref = NoRef)
  PROVE  SameBought(ev, Append(ev, row), o, v)
<1> DEFINE new == Append(ev, row)
<1>1. /\ Ids(ev) = 1..Len(ev) /\ Ids(new) = 1..(Len(ev) + 1) /\ Len(ev) \in Nat
      /\ new[Len(ev) + 1] = row /\ \A i \in 1..Len(ev) : new[i] = ev[i]
  BY AppendFacts
<1> HIDE DEF new
<1>2. Bought(new, o, v) = Bought(ev, o, v)
  BY <1>1 DEF Bought
<1>3. \A i \in Bought(ev, o, v) : new[i].qty = ev[i].qty
  BY <1>1 DEF Bought
<1> QED
  BY <1>2, <1>3 DEF new, SameBought

LEMMA AlikeAppend ==
  ASSUME NEW ev \in Seq(Row), NEW row \in Row, row.parent # 0 \/ row.ref # NoRef
  PROVE  Alike(ev, Append(ev, row)) /\ Append(ev, row) \in Seq(Row)
<1>1. \A o, v : SameBought(ev, Append(ev, row), o, v)
  BY AppendOther
<1>2. Len(Append(ev, row)) >= Len(ev)
  BY AppendFacts
<1> QED
  BY <1>1, <1>2, AppendFacts DEF Alike

\* The first row of a line records it.
LEMMA AppendFirst ==
  ASSUME NEW ev \in Seq(Row), NEW row \in Row, NEW o, NEW v, Bought(ev, o, v) = {},
         row.order = o, row.item = v, row.parent = 0, row.ref = NoRef,
         NEW Q, row.qty \in Q
  PROVE  Single(Append(ev, row), o, v, Q) /\ Bought(Append(ev, row), o, v) # {}
<1> DEFINE new == Append(ev, row)
<1>1. /\ Ids(ev) = 1..Len(ev) /\ Ids(new) = 1..(Len(ev) + 1) /\ Len(ev) \in Nat
      /\ new[Len(ev) + 1] = row /\ \A i \in 1..Len(ev) : new[i] = ev[i]
  BY AppendFacts
<1> HIDE DEF new
<1>2. Bought(new, o, v) = {Len(ev) + 1}
  BY <1>1 DEF Bought
<1> QED
  BY <1>1, <1>2 DEF Single, new

LEMMA AlikeEarn ==
  ASSUME Typed, EarnReward
  PROVE  Alike(events, events')
<1>1. tx \in Tx /\ tx.reward \in Nat /\ events \in Seq(Row)
  BY OpenTx DEF EarnReward, Tx, Typed
<1> DEFINE q == tx.reward
<1>2. PICK L \in SUBSET Candidates :
        \E c \in (IF L = Candidates THEN {0} ELSE Earliest(Candidates \ L)) :
          Consumable(L, c) /\ events' = Consume(L, c, q)
  BY DEF EarnReward
<1>3. PICK c \in (IF L = Candidates THEN {0} ELSE Earliest(Candidates \ L)) :
        Consumable(L, c) /\ events' = Consume(L, c, q)
  BY <1>2
<1>4. q \in Nat
  BY <1>1
<1> HIDE DEF q
<1>5. PartlyLocked(L, c, q) /\ SameRecords(events, Lock(L, q))
  BY <1>1, <1>3, <1>4, ConsumeShape, LockSame
<1>6. Lock(L, q) \in Seq(Row) /\ Alike(events, Lock(L, q))
  BY <1>1, <1>5, AlikeRelocked DEF SameRecords
<1>7. CASE events' # Lock(L, q)
  <2>1. PICK n \in Int : /\ 0 < n /\ n < events[c].qty
                         /\ events' = Append(Append(Lock(L, q), Child(events[c], c, n, q)),
                                             Child(events[c], c, events[c].qty - n, 0))
    BY <1>3, <1>5, <1>7 DEF PartlyLocked
  <2>2. c \in 1..Len(events) /\ events[c] \in Row /\ c \in Nat /\ c # 0
    BY <1>1, <1>3, <1>5, <1>7 DEF PartlyLocked, Candidates, Open, Ids
  <2>3. events[c].qty - n \in Int
    BY <2>2 DEF Row
  <2> DEFINE x == Child(events[c], c, n, q)
             y == Child(events[c], c, events[c].qty - n, 0)
  <2>4. x \in Row /\ y \in Row
    BY <1>4, <2>2, <2>3, ChildType
  <2>5. x.parent = c /\ y.parent = c
    BY <2>2 DEF Child, Row
  <2> HIDE DEF x, y
  <2>6. Alike(Lock(L, q), Append(Lock(L, q), x)) /\ Append(Lock(L, q), x) \in Seq(Row)
    BY <1>6, <2>2, <2>4, <2>5, AlikeAppend
  <2>7. /\ Alike(Append(Lock(L, q), x), Append(Append(Lock(L, q), x), y))
        /\ Append(Append(Lock(L, q), x), y) \in Seq(Row)
    BY <2>2, <2>4, <2>5, <2>6, AlikeAppend
  <2>8. events' = Append(Append(Lock(L, q), x), y)
    BY <2>1 DEF x, y
  <2>9. Alike(events, Append(Lock(L, q), x))
    BY <1>1, <1>6, <2>6, AlikeTwice
  <2> QED
    BY <1>1, <2>6, <2>7, <2>8, <2>9, AlikeTwice
<1> QED
  BY <1>6, <1>7

LEMMA AlikeReturn ==
  ASSUME LedgerInv, RecordInv, tx # Idle, NEW t \in tx.todo, RecordReturn(t)
  PROVE  Alike(events, events')
<1>1. events \in Seq(Row) /\ Typed /\ Sound(events, rewards) /\ t.ref # NoRef
  BY DEF LedgerInv, Typed, RecordInv, Kept, Proper, RecordReturn
<1>2. CASE events' = events
  BY <1>1, <1>2, AlikeSelf
<1>3. CASE events' # events
  <2>1. PICK wend \in Int : /\ NewRow(t, -t.qty, wend) \in Row
                           /\ events' = Append(events, NewRow(t, -t.qty, wend))
    BY <1>1, <1>3, ReturnAppends
  <2>2. NewRow(t, -t.qty, wend).ref # NoRef
    BY <1>1 DEF NewRow
  <2> QED
    BY <1>1, <2>1, <2>2, AlikeAppend
<1> QED
  BY <1>2, <1>3

LEMMA RecordedIsBought ==
  ASSUME NEW t, t.ref = NoRef
  PROVE  Recorded(t) <=> Bought(events, tx.order, t.item) # {}
BY DEF Recorded, Bought

\* A purchase is recorded as the one row of its order and variation, unless there is one.
Adds(t) ==
  /\ t.item \in Qualifying /\ Bought(events, tx.order, t.item) = {}
  /\ Len(events') = Len(events) + 1
  /\ Bought(events', tx.order, t.item) # {}
  /\ \A Q : t.qty \in Q => Single(events', tx.order, t.item, Q)
  /\ \A o, v : o # tx.order \/ v # t.item => SameBought(events, events', o, v)
Passes(t) ==
  /\ events' = events
  /\ t.item \in Qualifying => Bought(events, tx.order, t.item) # {}

LEMMA PurchaseRow ==
  ASSUME Typed, tx # Idle, NEW t \in tx.todo, RecordPurchase(t), t.ref = NoRef
  PROVE  Adds(t) \/ Passes(t)
<1>1. tx \in Tx /\ t \in Todo /\ events \in Seq(Row)
  BY OpenTx DEF Tx, Typed
<1>2. CASE t.item \in Qualifying /\ ~Recorded(t)
  <2> DEFINE row == NewRow(t, t.qty, tx.at + Window)
  <2>1. events' = Append(events, row)
    BY <1>2 DEF RecordPurchase
  <2>2. tx.at + Window \in Int /\ t.qty \in Int
    BY <1>1, TimeAssumption DEF Tx, Todo
  <2>3. row \in Row
    BY <1>1, <2>2, NewRowType
  <2>4. /\ row.order = tx.order /\ row.item = t.item /\ row.ref = NoRef
        /\ row.qty = t.qty /\ row.parent = 0
    BY DEF NewRow
  <2> HIDE DEF row
  <2>5. Bought(events, tx.order, t.item) = {}
    BY <1>2, RecordedIsBought
  <2>6. \A Q : t.qty \in Q => Single(events', tx.order, t.item, Q)
    BY <1>1, <2>1, <2>3, <2>4, <2>5, AppendFirst
  <2>7. Bought(events', tx.order, t.item) # {}
    BY <1>1, <2>1, <2>3, <2>4, <2>5, t.qty \in {t.qty}, AppendFirst
  <2>8. \A o, v : o # tx.order \/ v # t.item => SameBought(events, events', o, v)
    BY <1>1, <2>1, <2>3, <2>4, AppendOther
  <2>9. Len(events') = Len(events) + 1
    BY <1>1, <2>1, <2>3, AppendFacts
  <2> QED
    BY <1>2, <2>5, <2>6, <2>7, <2>8, <2>9 DEF Adds
<1>3. CASE ~(t.item \in Qualifying /\ ~Recorded(t))
  BY <1>3, RecordedIsBought DEF RecordPurchase, Passes
<1> QED
  BY <1>2, <1>3

LEMMA AllWholeSame ==
  ASSUME NEW a, NEW b, Alike(a, b), NEW claims, NEW o, AllWhole(a, claims, o)
  PROVE  AllWhole(b, claims, o)
BY WholeSame DEF AllWhole, Alike

LEMMA InHandSame ==
  ASSUME NEW a \in Seq(Row), NEW b \in Seq(Row), Alike(a, b), NEW old \in Seq(Row),
         NEW new, Len(new) = Len(old), Len(a) >= Len(old),
         NEW todo, NEW o, InHand(a, old, todo, o)
  PROVE  InHand(b, new, todo, o)
<1>1. Len(a) \in Nat /\ Len(b) \in Nat /\ Len(old) \in Nat /\ Len(b) >= Len(a)
  BY DEF Alike
<1>2. Len(b) = Len(new) => Len(a) = Len(old)
  BY <1>1
<1>3. ASSUME NEW v \in Items
      PROVE  /\ Single(b, o, v, Keyed(o, v) \cup Asked(o, v))
             /\ Asked(o, v) # {} => Bought(b, o, v) # {} \/ Line(o, v) \in todo
             /\ Len(b) = Len(new) => Single(b, o, v, Keyed(o, v))
  <2>1. SameBought(a, b, o, v)
    BY DEF Alike
  <2>2. /\ Single(a, o, v, Keyed(o, v) \cup Asked(o, v))
        /\ Asked(o, v) # {} => Bought(a, o, v) # {} \/ Line(o, v) \in todo
        /\ Len(a) = Len(old) => Single(a, o, v, Keyed(o, v))
    BY DEF InHand
  <2>3. Bought(b, o, v) = Bought(a, o, v)
    BY <2>1 DEF SameBought
  <2>4. Single(b, o, v, Keyed(o, v) \cup Asked(o, v))
    BY <2>1, <2>2, SingleSame
  <2>5. Len(b) = Len(new) => Single(b, o, v, Keyed(o, v))
    BY <1>2, <2>1, <2>2, SingleSame
  <2> QED
    BY <2>2, <2>3, <2>4, <2>5
<1>4. todo \subseteq Aggregate(Basket[o])
  BY DEF InHand
<1> QED
  BY <1>3, <1>4 DEF InHand

\* One more line of the order is taken in.
LEMMA InHandPurchase ==
  ASSUME NEW o \in Orders, tx.order = o, NEW old \in Seq(Row), Len(events) >= Len(old),
         events \in Seq(Row), InHand(events, old, tx.todo, o),
         NEW t \in tx.todo, Adds(t) \/ Passes(t)
  PROVE  InHand(events', old, tx.todo \ {t}, o)
<1>1. PICK w \in Items : Paid(o, w) # {} /\ t = Line(o, w)
  BY AggregateLines DEF InHand
<1>2. t.item = w /\ t.qty = Line(o, w).qty
  BY <1>1 DEF Line
<1>3. \A v : v # w => Line(o, v) # t
  BY <1>2 DEF Line
<1>4. tx.todo \ {t} \subseteq Aggregate(Basket[o])
  BY DEF InHand
<1>5. ASSUME NEW v \in Items
      PROVE  /\ Single(events, o, v, Keyed(o, v) \cup Asked(o, v))
             /\ Asked(o, v) # {} => Bought(events, o, v) # {} \/ Line(o, v) \in tx.todo
             /\ Len(events) = Len(old) => Single(events, o, v, Keyed(o, v))
  BY DEF InHand
<1>6. ASSUME NEW v \in Items
      PROVE  /\ Single(events', o, v, Keyed(o, v) \cup Asked(o, v))
             /\ Asked(o, v) # {} => Bought(events', o, v) # {} \/ Line(o, v) \in tx.todo \ {t}
             /\ Len(events') = Len(old) => Single(events', o, v, Keyed(o, v))
  <2>1. CASE Passes(t)
    <3>1. events' = events
      BY <2>1 DEF Passes
    <3>2. v = w /\ Asked(o, v) # {} => Bought(events, o, v) # {}
      BY <1>2, <2>1 DEF Passes, Asked
    <3> QED
      BY <1>3, <1>5, <3>1, <3>2
  <2>2. CASE Adds(t)
    <3>1. Len(events') # Len(old)
      BY <2>2 DEF Adds
    <3>2. CASE v = w
      <4>1. t.qty \in Keyed(o, v) \cup Asked(o, v)
        BY <1>1, <1>2, <2>2, <3>2 DEF Adds, Asked
      <4>2. Single(events', o, v, Keyed(o, v) \cup Asked(o, v)) /\ Bought(events', o, v) # {}
        BY <1>2, <2>2, <3>2, <4>1 DEF Adds
      <4> QED
        BY <3>1, <4>2
    <3>3. CASE v # w
      <4>1. SameBought(events, events', o, v)
        BY <1>2, <2>2, <3>3 DEF Adds
      <4>2. Bought(events', o, v) = Bought(events, o, v)
        BY <4>1 DEF SameBought
      <4>3. Single(events', o, v, Keyed(o, v) \cup Asked(o, v))
        BY <1>5, <4>1, SingleSame
      <4> QED
        BY <1>3, <1>5, <3>1, <3>3, <4>2, <4>3
    <3> QED
      BY <3>2, <3>3
  <2> QED
    BY <2>1, <2>2
<1> QED
  BY <1>4, <1>6 DEF InHand

LEMMA RecordSaved ==
  ASSUME LedgerInv, RecordInv, [Next]_vars, tx' # Idle
  PROVE  /\ \A o \in Orders : AllWhole(saved'.events, saved'.processed, o)
         /\ \/ tx = Idle /\ saved' = Snapshot
            \/ tx # Idle /\ Len(saved'.events) = Len(saved.events)
<1>1. CASE tx = Idle /\ saved' = Snapshot
  <2>1. saved'.events = events /\ saved'.processed = processed
    BY <1>1 DEF Snapshot
  <2>2. \A o : ~Taking(tx, o)
    BY <1>1 DEF Taking
  <2> QED
    BY <1>1, <2>1, <2>2 DEF RecordInv, Kept
<1>2. CASE tx # Idle /\ saved' = saved
  BY <1>2 DEF RecordInv, Kept
<1>3. ASSUME tx # Idle, NEW s \in visits, Ending(s)
      PROVE  /\ \A o \in Orders : AllWhole(saved'.events, saved'.processed, o)
             /\ Len(saved'.events) = Len(saved.events)
  <2>1. saved'.events = EventsAfter(saved.events, s.reward, s.to) /\ saved'.processed = saved.processed
    BY <1>3, SavedEnd DEF LedgerInv
  <2>2. saved.events \in Seq(Row)
    BY DEF LedgerInv, Typed, Tables
  <2>3. Alike(saved.events, saved'.events) /\ Len(saved'.events) = Len(saved.events)
    BY <2>1, <2>2, AlikeAfter
  <2>4. \A o \in Orders : AllWhole(saved.events, saved.processed, o)
    BY <1>3 DEF RecordInv, Kept
  <2> QED
    BY <2>1, <2>3, <2>4, AllWholeSame
<1> QED
  BY <1>1, <1>2, <1>3, SavedSteps

\* A step of the open transaction, or next to it, that records nothing.
LEMMA RecordKeep ==
  ASSUME LedgerInv, RecordInv, tx # Idle, tx' # Idle, Typed', Alike(events, events'),
         tx'.kind = tx.kind, tx'.order = tx.order, tx'.todo = tx.todo, processed' = processed,
         \A o \in Orders : AllWhole(saved'.events, saved'.processed, o),
         Len(saved'.events) = Len(saved.events)
  PROVE  Kept(events', processed', tx', saved')
<1>1. /\ events \in Seq(Row) /\ events' \in Seq(Row)
      /\ saved.events \in Seq(Row) /\ saved'.events \in Seq(Row)
  BY DEF LedgerInv, Typed, Tables
<1>2. \A o \in Orders : IF Taking(tx, o) THEN InHand(events, saved.events, tx.todo, o)
                        ELSE AllWhole(events, processed, o)
  BY DEF RecordInv, Kept
<1>3. Len(events) >= Len(saved.events) /\ Proper(tx)
  BY DEF RecordInv, Kept
<1>4. Len(events') >= Len(saved'.events)
  <2>1. Len(events') >= Len(events)
    BY DEF Alike
  <2>2. Len(events) \in Nat /\ Len(events') \in Nat /\ Len(saved.events) \in Nat
    BY <1>1
  <2> QED
    BY <1>3, <2>1, <2>2
<1>5. Proper(tx')
  BY <1>3 DEF Proper
<1>6. ASSUME NEW o \in Orders
      PROVE  IF Taking(tx', o) THEN InHand(events', saved'.events, tx'.todo, o)
             ELSE AllWhole(events', processed', o)
  <2>1. Taking(tx', o) <=> Taking(tx, o)
    BY DEF Taking
  <2>2. CASE Taking(tx, o)
    <3>1. InHand(events, saved.events, tx.todo, o)
      BY <1>2, <2>2
    <3>2. InHand(events', saved'.events, tx.todo, o)
      BY <1>1, <1>3, <3>1, InHandSame
    <3> QED
      BY <2>1, <2>2, <3>2
  <2>3. CASE ~Taking(tx, o)
    <3>1. AllWhole(events, processed, o)
      BY <1>2, <2>3
    <3> QED
      BY <2>1, <2>3, <3>1, AllWholeSame
  <2> QED
    BY <2>2, <2>3
<1> QED
  BY <1>4, <1>5, <1>6 DEF Kept

\* No transaction is open after the step.
LEMMA RecordClosed ==
  ASSUME tx' = Idle, \A o \in Orders : AllWhole(events', processed', o)
  PROVE  Kept(events', processed', tx', saved')
BY DEF Kept, Taking

\* A transaction begins that is no intake.
LEMMA RecordBegin ==
  ASSUME LedgerInv, RecordInv, tx = Idle, tx'.kind # "order", saved' = Snapshot,
         events' = events, processed' = processed, Proper(tx')
  PROVE  Kept(events', processed', tx', saved')
<1>1. \A o \in Orders : AllWhole(events, processed, o)
  BY DEF RecordInv, Kept, Taking
<1>2. saved'.events = events /\ saved'.processed = processed
  BY DEF Snapshot
<1>3. Len(events) >= Len(events)
  BY DEF LedgerInv, Typed
<1> QED
  BY <1>1, <1>2, <1>3 DEF Kept, Taking

\* A line of an order or of a manual entry is taken in.
LEMMA RecordLine ==
  ASSUME LedgerInv, RecordInv, tx # Idle, NEW t \in tx.todo, RecordPurchase(t),
         \A o \in Orders : AllWhole(saved'.events, saved'.processed, o)
  PROVE  Kept(events', processed', tx', saved')
<1>1. tx \in Tx /\ t \in Todo /\ tx.order \in Orders /\ t.item \in Items /\ Typed
  BY OpenTx DEF LedgerInv, Tx, Todo
<1>2. events \in Seq(Row) /\ saved.events \in Seq(Row) /\ Len(events) >= Len(saved.events)
  BY DEF LedgerInv, Typed, Tables, RecordInv, Kept
<1>3. \A o \in Orders : IF Taking(tx, o) THEN InHand(events, saved.events, tx.todo, o)
                        ELSE AllWhole(events, processed, o)
  BY DEF RecordInv, Kept
<1>4. Proper(tx)
  BY DEF RecordInv, Kept
<1>5. /\ tx'.kind = tx.kind /\ tx'.order = tx.order /\ tx'.todo = tx.todo \ {t} /\ tx' # Idle
      /\ tx.kind \in {"order", "manual"}
  BY <1>1 DEF RecordPurchase, Handled, Tx, Idle
<1>6. processed' = processed /\ saved' = saved
  BY DEF RecordPurchase
<1>7. t.ref = NoRef
  <2>1. CASE tx.kind = "order"
    <3>1. InHand(events, saved.events, tx.todo, tx.order)
      BY <1>1, <1>3, <2>1 DEF Taking
    <3>2. t \in Aggregate(Basket[tx.order])
      BY <3>1 DEF InHand
    <3> QED
      BY <1>1, <3>2, AggregateLines DEF Line
  <2>2. CASE tx.kind = "manual"
    BY <1>4, <2>2 DEF Proper
  <2> QED
    BY <1>5, <2>1, <2>2
<1>8. Adds(t) \/ Passes(t)
  BY <1>1, <1>7, PurchaseRow
<1>9. Proper(tx')
  BY <1>4, <1>5 DEF Proper
<1>10. Len(events') >= Len(saved.events)
  <2>1. Len(events') = Len(events) \/ Len(events') = Len(events) + 1
    BY <1>8 DEF Adds, Passes
  <2> QED
    BY <1>2, <2>1
<1>11. ASSUME NEW o \in Orders, Taking(tx, o)
       PROVE  InHand(events', saved.events, tx.todo \ {t}, o)
  <2>1. tx.order = o /\ InHand(events, saved.events, tx.todo, o)
    BY <1>3, <1>11 DEF Taking
  <2> QED
    BY <1>2, <1>8, <2>1, InHandPurchase
<1>12. ASSUME NEW o \in Orders, ~Taking(tx, o), NEW v \in Items
       PROVE  Whole(events', processed, o, v)
  <2>1. Whole(events, processed, o, v)
    BY <1>3, <1>12 DEF AllWhole
  <2>2. CASE Passes(t)
    BY <2>1, <2>2 DEF Passes
  <2>3. CASE Adds(t) /\ (o # tx.order \/ v # t.item)
    <3>1. SameBought(events, events', o, v)
      BY <2>3 DEF Adds
    <3> QED
      BY <2>1, <3>1, WholeSame
  <2>4. CASE Adds(t) /\ o = tx.order /\ v = t.item
    <3>1. tx.kind = "manual"
      BY <1>1, <1>5, <1>12, <2>4 DEF Taking
    <3>2. t.qty \in Keyed(o, v) \cup Taken(processed, o, v)
      BY <1>4, <2>4, <3>1 DEF Proper
    <3>3. Single(events', o, v, Keyed(o, v) \cup Taken(processed, o, v)) /\ Bought(events', o, v) # {}
      BY <2>4, <3>2 DEF Adds
    <3> QED
      BY <3>3 DEF Whole
  <2> QED
    BY <1>8, <2>2, <2>3, <2>4
<1>13. ASSUME NEW o \in Orders
       PROVE  IF Taking(tx', o) THEN InHand(events', saved'.events, tx'.todo, o)
              ELSE AllWhole(events', processed', o)
  <2>1. Taking(tx', o) <=> Taking(tx, o)
    BY <1>5 DEF Taking
  <2>2. CASE Taking(tx, o)
    BY <1>5, <1>6, <1>11, <2>1, <2>2
  <2>3. CASE ~Taking(tx, o)
    BY <1>6, <1>12, <2>1, <2>3 DEF AllWhole
  <2> QED
    BY <2>2, <2>3
<1> QED
  BY <1>6, <1>9, <1>10, <1>13 DEF Kept

\* The claim: nothing but what an admin keyed in is there.
LEMMA RecordClaim ==
  ASSUME LedgerInv, RecordInv, NEW o \in Orders, NEW at, BeginOrder(o, at)
  PROVE  Kept(events', processed', tx', saved')
<1>1. tx = Idle /\ processed[o] = "none" /\ events' = events
  BY DEF BeginOrder, MayClaim
<1>2. tx'.kind = "order" /\ tx'.order = o /\ tx'.todo = Aggregate(Basket[o]) /\ saved' = Snapshot
  BY DEF BeginOrder, Begin
<1>3. \A q \in Orders : AllWhole(events, processed, q)
  BY <1>1 DEF RecordInv, Kept, Taking
<1>4. saved'.events = events /\ saved'.processed = processed
  BY <1>2 DEF Snapshot
<1>5. ASSUME NEW v \in Items
      PROVE  /\ Single(events, o, v, Keyed(o, v) \cup Asked(o, v))
             /\ Asked(o, v) # {} => Line(o, v) \in Aggregate(Basket[o])
             /\ Single(events, o, v, Keyed(o, v))
  <2>1. Whole(events, processed, o, v)
    BY <1>3 DEF AllWhole
  <2>2. Taken(processed, o, v) = {}
    BY <1>1 DEF Taken
  <2>3. Single(events, o, v, Keyed(o, v))
    BY <2>1, <2>2 DEF Whole, Single
  <2>4. Asked(o, v) # {} => Line(o, v) \in Aggregate(Basket[o])
    BY AggregateLines DEF Asked
  <2>5. Single(events, o, v, Keyed(o, v) \cup Asked(o, v))
    BY <2>3 DEF Single
  <2> QED
    BY <2>3, <2>4, <2>5
<1>6. InHand(events, events, Aggregate(Basket[o]), o)
  BY <1>5 DEF InHand
<1>7. ASSUME NEW q \in Orders, q # o PROVE AllWhole(events, processed', q)
  <2>1. processed'[q] = processed[q]
    BY <1>7 DEF BeginOrder, LedgerInv, Typed
  <2>2. AllWhole(events, processed, q)
    BY <1>3
  <2> QED
    BY <2>1, <2>2 DEF AllWhole, Whole, Taken
<1>8. Len(events) >= Len(events) /\ Proper(tx')
  BY <1>2 DEF LedgerInv, Typed, Proper
<1>9. tx' # Idle
  BY DEF BeginOrder, Begin, Idle
<1>10. ASSUME NEW q \in Orders
       PROVE  IF Taking(tx', q) THEN InHand(events', saved'.events, tx'.todo, q)
              ELSE AllWhole(events', processed', q)
  <2>1. CASE q = o
    <3>1. Taking(tx', q)
      BY <1>2, <1>9, <2>1 DEF Taking
    <3> QED
      BY <1>1, <1>2, <1>4, <1>6, <2>1, <3>1
  <2>2. CASE q # o
    <3>1. ~Taking(tx', q)
      BY <1>2, <2>2 DEF Taking
    <3> QED
      BY <1>1, <1>7, <2>2, <3>1
  <2> QED
    BY <2>1, <2>2
<1> QED
  BY <1>1, <1>3, <1>4, <1>8, <1>10 DEF Kept

\* The claim is settled: qualifying when a row was added.
LEMMA RecordCommit ==
  ASSUME LedgerInv, RecordInv, Commit
  PROVE  Kept(events', processed', tx', saved')
<1>1. tx # Idle /\ tx' = Idle /\ events' = events /\ tx.todo = {}
  BY DEF Commit
<1>2. tx \in Tx /\ tx.order \in Orders
  BY <1>1, OpenTx DEF LedgerInv, Tx
<1>3. \A o \in Orders : IF Taking(tx, o) THEN InHand(events, saved.events, tx.todo, o)
                        ELSE AllWhole(events, processed, o)
  BY DEF RecordInv, Kept
<1>4. Len(events) >= Len(saved.events) /\ Len(events) \in Nat /\ Len(saved.events) \in Nat
  BY <1>1 DEF RecordInv, Kept, LedgerInv, Typed, Tables
<1>5. ASSUME NEW o \in Orders, ~Taking(tx, o) PROVE AllWhole(events, processed', o)
  <2>1. processed'[o] = processed[o]
    <3>1. CASE tx.kind # "order"
      BY <3>1 DEF Commit
    <3>2. CASE tx.order # o
      BY <3>2 DEF Commit, LedgerInv, Typed
    <3> QED
      BY <1>1, <1>5, <3>1, <3>2 DEF Taking
  <2>2. AllWhole(events, processed, o)
    BY <1>3, <1>5
  <2> QED
    BY <2>1, <2>2 DEF AllWhole, Whole, Taken
<1>6. ASSUME NEW o \in Orders, Taking(tx, o), NEW v \in Items
      PROVE  Whole(events, processed', o, v)
  <2>1. InHand(events, saved.events, {}, o)
    BY <1>1, <1>3, <1>6
  <2>2. /\ Single(events, o, v, Keyed(o, v) \cup Asked(o, v))
        /\ Asked(o, v) # {} => Bought(events, o, v) # {}
        /\ Len(events) = Len(saved.events) => Single(events, o, v, Keyed(o, v))
    BY <2>1 DEF InHand
  <2>3. processed'[o] = IF Len(events) > Len(saved.events) THEN "qualifying" ELSE "non_qualifying"
    BY <1>6 DEF Commit, Taking, LedgerInv, Typed
  <2>4. CASE Len(events) > Len(saved.events)
    <3>1. Taken(processed', o, v) = Asked(o, v)
      BY <2>3, <2>4 DEF Taken
    <3> QED
      BY <2>2, <3>1 DEF Whole
  <2>5. CASE Len(events) = Len(saved.events)
    <3>1. Taken(processed', o, v) = {}
      BY <2>3, <2>5 DEF Taken
    <3>2. Single(events, o, v, Keyed(o, v) \cup {})
      BY <2>2, <2>5 DEF Single
    <3> QED
      BY <3>1, <3>2 DEF Whole
  <2> QED
    BY <1>4, <2>4, <2>5
<1>7. \A o \in Orders : AllWhole(events, processed', o)
  BY <1>5, <1>6 DEF AllWhole
<1> QED
  BY <1>1, <1>7, RecordClosed

LEMMA RecordStep == LedgerInv /\ RecordInv /\ [Next]_vars => RecordInv'
<1> SUFFICES ASSUME LedgerInv, RecordInv, [Next]_vars, LedgerInv'
             PROVE  Kept(events', processed', tx', saved')
  BY LedgerStep, RecordNext
<1>0. Typed /\ Typed' /\ events \in Seq(Row) /\ Alike(events, events)
  BY AlikeSelf DEF LedgerInv, Typed
<1>1. tx' # Idle => /\ \A o \in Orders : AllWhole(saved'.events, saved'.processed, o)
                    /\ \/ tx = Idle /\ saved' = Snapshot
                       \/ tx # Idle /\ Len(saved'.events) = Len(saved.events)
  BY RecordSaved
<1>2. tx = Idle => \A o \in Orders : AllWhole(events, processed, o)
  BY DEF RecordInv, Kept, Taking
\* A step that records nothing and goes on with the same lines.
<1>3. ASSUME tx # Idle, tx' # Idle, tx'.kind = tx.kind, tx'.order = tx.order, tx'.todo = tx.todo,
             Alike(events, events'), processed' = processed
      PROVE  Kept(events', processed', tx', saved')
  BY <1>0, <1>1, <1>3, RecordKeep
<1>4. ASSUME tx' = tx, Alike(events, events'), processed' = processed
      PROVE  Kept(events', processed', tx', saved')
  <2>1. CASE tx = Idle
    BY <1>2, <1>4, <2>1, AllWholeSame, RecordClosed
  <2>2. CASE tx # Idle
    BY <1>3, <1>4, <2>2
  <2> QED
    BY <2>1, <2>2
<1>5. ASSUME NEW t \in tx.todo, tx # Idle, RecordPurchase(t)
      PROVE  Kept(events', processed', tx', saved')
  <2>1. tx' # Idle
    BY <1>0, <1>5, OpenTx DEF RecordPurchase, Handled, Tx, Idle
  <2> QED
    BY <1>1, <1>5, <2>1, RecordLine
<1>6. ASSUME NEW t \in tx.todo, tx # Idle, RecordReturn(t)
      PROVE  Kept(events', processed', tx', saved')
  <2>1. tx \in Tx /\ tx.kind = "return" /\ (tx' = Handled(t, "progress") \/ tx' = Handled(t, "record"))
    BY <1>0, <1>6, OpenTx DEF RecordReturn
  <2>2. /\ tx'.kind = "return" /\ tx'.order = tx.order /\ tx'.todo = tx.todo \ {t} /\ tx' # Idle
        /\ processed' = processed /\ Len(saved'.events) = Len(saved.events)
    BY <1>6, <2>1 DEF RecordReturn, Handled, Tx, Idle
  <2>3. Alike(events, events')
    BY <1>6, AlikeReturn
  <2>4. /\ \A o \in Orders : AllWhole(events, processed, o)
        /\ Len(events) >= Len(saved.events) /\ Proper(tx)
    BY <1>6, <2>1 DEF RecordInv, Kept, Taking
  <2>5. Len(events') >= Len(saved'.events)
    <3>1. Len(events') >= Len(events)
      BY <2>3 DEF Alike
    <3>2. events' \in Seq(Row) /\ saved.events \in Seq(Row)
      BY <1>0 DEF Typed, Tables
    <3> QED
      BY <1>0, <2>2, <2>4, <3>1, <3>2
  <2>6. Proper(tx')
    BY <2>1, <2>2, <2>4 DEF Proper
  <2>7. \A o \in Orders : AllWhole(events', processed', o) /\ ~Taking(tx', o)
    BY <2>2, <2>3, <2>4, AllWholeSame DEF Taking
  <2> QED
    BY <1>1, <2>2, <2>5, <2>6, <2>7 DEF Kept
<1>7. CASE UpdateProgress
  <2>1. tx # Idle /\ tx \in Tx /\ \E r : tx' = [tx EXCEPT !.phase = "cross", !.reward = r]
    BY <1>0, <1>7, OpenTx DEF UpdateProgress
  <2>2. tx'.kind = tx.kind /\ tx'.order = tx.order /\ tx'.todo = tx.todo /\ tx' # Idle
    BY <2>1 DEF Tx, Idle
  <2> QED
    BY <1>0, <1>3, <1>7, <2>1, <2>2 DEF UpdateProgress
<1>8. CASE EarnReward
  <2>1. tx # Idle /\ tx \in Tx /\ (tx' = tx \/ tx' = [tx EXCEPT !.reward = Len(rewards) + 1])
    BY <1>0, <1>8, OpenTx DEF EarnReward
  <2>2. tx'.kind = tx.kind /\ tx'.order = tx.order /\ tx'.todo = tx.todo /\ tx' # Idle
    BY <2>1 DEF Tx, Idle
  <2>3. UNCHANGED processed
    BY <1>8 DEF EarnReward
  <2> QED
    BY <1>0, <1>3, <1>8, <2>1, <2>2, <2>3, AlikeEarn
<1>9. CASE ReadSummary
  <2>1. tx # Idle /\ tx \in Tx /\ tx' = [tx EXCEPT !.phase = "upsert", !.reward = 0]
    BY <1>0, <1>9, OpenTx DEF ReadSummary
  <2>2. tx'.kind = tx.kind /\ tx'.order = tx.order /\ tx'.todo = tx.todo /\ tx' # Idle
    BY <2>1 DEF Tx, Idle
  <2> QED
    BY <1>0, <1>3, <1>9, <2>1, <2>2 DEF ReadSummary
<1>10. CASE WriteSummary
  <2>1. tx # Idle /\ tx \in Tx /\ tx' = [tx EXCEPT !.phase = "record", !.wrote = TRUE]
    BY <1>0, <1>10, OpenTx DEF WriteSummary
  <2>2. tx'.kind = tx.kind /\ tx'.order = tx.order /\ tx'.todo = tx.todo /\ tx' # Idle
    BY <2>1 DEF Tx, Idle
  <2> QED
    BY <1>0, <1>3, <1>10, <2>1, <2>2 DEF WriteSummary, tables
<1>11. CASE Commit
  BY <1>11, RecordCommit
<1>12. CASE Rollback
  <2>1. tx' = Idle /\ events' = saved.events /\ processed' = saved.processed /\ tx # Idle
    BY <1>12 DEF Rollback
  <2>2. \A o \in Orders : AllWhole(saved.events, saved.processed, o)
    BY <2>1 DEF RecordInv, Kept
  <2> QED
    BY <2>1, <2>2, RecordClosed
<1>13. ASSUME NEW o \in Orders, NEW known \in BOOLEAN, SkipOrder(o, known)
       PROVE  Kept(events', processed', tx', saved')
  <2>1. tx = Idle /\ tx' = Idle /\ events' = events
    BY <1>13 DEF SkipOrder, MayClaim
  <2>2. \A q \in Orders : processed'[q] = "qualifying" => processed[q] = "qualifying"
    BY <1>0, <1>13 DEF SkipOrder, Typed
  <2>3. \A q \in Orders : processed[q] = "qualifying" => processed'[q] = "qualifying"
    BY <1>0, <1>13 DEF SkipOrder, MayClaim, Typed
  <2>4. \A q \in Orders : AllWhole(events', processed', q)
    BY <1>2, <2>1, <2>2, <2>3 DEF AllWhole, Whole, Taken
  <2> QED
    BY <2>1, <2>4, RecordClosed
<1>14. ASSUME NEW o \in Orders, NEW at, BeginOrder(o, at)
       PROVE  Kept(events', processed', tx', saved')
  BY <1>14, RecordClaim
<1>15. ASSUME NEW o \in Orders, BeginReturns(o)
       PROVE  Kept(events', processed', tx', saved')
  <2>1. /\ tx = Idle /\ tx'.kind = "return" /\ tx'.todo = Returns[o]
        /\ events' = events /\ processed' = processed /\ saved' = Snapshot
    BY <1>15 DEF BeginReturns, Begin, tables
  <2>2. \A t \in Returns[o] : t.ref # NoRef
    BY ReturnsAssumption, ItemAssumption
  <2>3. Proper(tx')
    BY <2>1, <2>2 DEF Proper
  <2> QED
    BY <2>1, <2>3, RecordBegin
<1>16. ASSUME NEW m \in ManualEntries, BeginManual(m)
       PROVE  Kept(events', processed', tx', saved')
  <2>1. /\ tx = Idle /\ tx'.kind = "manual" /\ tx'.order = m.order
        /\ tx'.todo = {[item |-> m.item, qty |-> m.qty, ref |-> NoRef]}
        /\ events' = events /\ processed' = processed /\ saved' = Snapshot
    BY <1>16 DEF BeginManual, Begin, tables
  <2>2. m.qty \in Keyed(m.order, m.item)
    BY DEF Keyed
  <2>3. Proper(tx')
    BY <2>1, <2>2 DEF Proper
  <2> QED
    BY <2>1, <2>3, RecordBegin
<1>17. CASE BeginExpire
  <2>1. /\ tx = Idle /\ tx'.kind = "expire"
        /\ events' = events /\ processed' = processed /\ saved' = Snapshot
    BY <1>17 DEF BeginExpire, Begin, tables
  <2>2. Proper(tx')
    BY <2>1 DEF Proper
  <2> QED
    BY <2>1, <2>2, RecordBegin
<1>18. ASSUME NEW s \in visits, Ending(s)
       PROVE  Kept(events', processed', tx', saved')
  <2>1. events' = EventsAfter(events, s.reward, s.to) /\ tx' = tx /\ processed' = processed
    BY <1>18 DEF Ending, EndVisit
  <2>2. Alike(events, events')
    BY <1>0, <2>1, AlikeAfter
  <2> QED
    BY <1>4, <2>1, <2>2
<1>19. ASSUME UNCHANGED <<events, processed, tx>> PROVE Kept(events', processed', tx', saved')
  BY <1>0, <1>4, <1>19
<1>20. \A o : CheckOrder(o) => UNCHANGED <<events, processed, tx>>
  BY DEF CheckOrder, tables
<1>21. \A r : BeginRedeem(r) \/ BeginRevoke(r) => UNCHANGED <<events, processed, tx>>
  BY DEF BeginRedeem, BeginRevoke, BeginVisit, tables
<1>22. \A s : RedeemFails(s) => UNCHANGED <<events, processed, tx>>
  BY DEF RedeemFails, tables
<1>23. ExpireScan \/ ExpireAbort \/ Tick \/ UNCHANGED vars => UNCHANGED <<events, processed, tx>>
  BY DEF ExpireScan, ExpireAbort, Tick, vars, tables
<1>24. \A s : Redeem(s) \/ ExpireApply(s) => Ending(s)
  BY EndingSteps
<1> QED
  BY <1>5, <1>6, <1>7, <1>8, <1>9, <1>10, <1>11, <1>12, <1>13, <1>14, <1>15, <1>16, <1>17,
     <1>18, <1>19, <1>20, <1>21, <1>22, <1>23, <1>24 DEF Next

\* An order whose claim is committed as qualifying has exactly one row per qualifying
\* variation, with the units of all its lines that were paid for or those an admin had
\* keyed in before; an order without such a claim has only rows that were keyed in:
\* claim and purchases are written together or not at all, whatever is committed
\* between the check and the claim.
THEOREM RecordedWhole == Spec => []IntakeComplete
<1>1. Init => RecordInv
  <2> SUFFICES ASSUME Init PROVE Kept(events, processed, tx, saved)
    BY DEF RecordInv
  <2>1. tx = Idle /\ \A o \in Orders : processed[o] = "none"
    BY DEF Init
  <2>2. \A o, v : Bought(events, o, v) = {}
    BY DEF Init, Bought, Ids
  <2>3. \A o \in Orders : AllWhole(events, processed, o)
    BY <2>1, <2>2 DEF AllWhole, Whole, Single, Taken
  <2> QED
    BY <2>1, <2>3 DEF Kept, Taking
<1>2. RecordInv => IntakeComplete
  <2>1. ASSUME RecordInv, tx = Idle, NEW o \in Orders, NEW v \in Items
        PROVE  LET taken == processed[o] = "qualifying" /\ v \in Qualifying /\ Paid(o, v) # {}
               IN  /\ taken => Cardinality(Bought(events, o, v)) = 1
                   /\ \A i \in Bought(events, o, v) :
                        events[i].qty \in Keyed(o, v)
                          \cup (IF taken THEN {Qty(Basket[o], Paid(o, v))} ELSE {})
    <3>1. Whole(events, processed, o, v)
      BY <2>1 DEF RecordInv, Kept, Taking, AllWhole
    <3> DEFINE taken == processed[o] = "qualifying" /\ v \in Qualifying /\ Paid(o, v) # {}
    <3>2. Taken(processed, o, v) = IF taken THEN {Qty(Basket[o], Paid(o, v))} ELSE {}
      BY DEF Taken, Asked, Line
    <3>3. taken => Bought(events, o, v) # {}
      BY <3>1, <3>2 DEF Whole
    <3>4. Bought(events, o, v) # {} => \E i : Bought(events, o, v) = {i}
      BY <3>1 DEF Whole, Single
    <3>5. taken => Cardinality(Bought(events, o, v)) = 1
      BY <3>3, <3>4, FS_Singleton
    <3>6. \A i \in Bought(events, o, v) : events[i].qty \in Keyed(o, v) \cup Taken(processed, o, v)
      BY <3>1 DEF Whole, Single
    <3> QED
      BY <3>2, <3>5, <3>6
  <2> QED
    BY <2>1 DEF IntakeComplete
<1> QED
  BY <1>1, <1>2, RecordStep, LedgerAlways, PTL DEF Spec

-----------------------------------------------------------------------------
(* The punch card *)

LEMMA QtyUnion ==
  ASSUME NEW ev \in Seq(Row), NEW S, NEW T, S \cap T = {}
  PROVE  Qty(ev, S \cup T) = Qty(ev, S) + Qty(ev, T)
<1> DEFINE u == Column(ev, S)
           v == Column(ev, T)
           w == Column(ev, S \cup T)
<1>1. /\ u \in Seq(Int) /\ Len(u) = Len(ev) /\ Qty(ev, S) = SumSeq(u)
      /\ v \in Seq(Int) /\ Len(v) = Len(ev) /\ Qty(ev, T) = SumSeq(v)
      /\ w \in Seq(Int) /\ Len(w) = Len(ev) /\ Qty(ev, S \cup T) = SumSeq(w)
      /\ Ids(ev) = 1..Len(ev)
  BY RowTable, ColumnType
<1>2. ASSUME NEW n \in 1..Len(ev) PROVE w[n] = u[n] + v[n]
  <2>1. ev[n].qty \in Int
    <3>1. ev[n] \in Row
      OBVIOUS
    <3> QED
      BY <3>1 DEF Row
  <2>2. /\ u[n] = IF n \in S THEN ev[n].qty ELSE 0
        /\ v[n] = IF n \in T THEN ev[n].qty ELSE 0
        /\ w[n] = IF n \in S \cup T THEN ev[n].qty ELSE 0
    BY <1>1 DEF Column
  <2> HIDE DEF u, v, w
  <2> QED
    BY <2>1, <2>2
<1> HIDE DEF u, v, w
<1> QED
  BY <1>1, <1>2, SumPlus

LEMMA QtyOne ==
  ASSUME NEW ev \in Seq(Row), NEW c \in 1..Len(ev)
  PROVE  Qty(ev, {c}) = ev[c].qty
<1> DEFINE v == Column(ev, {c})
<1>1. /\ v \in Seq(Int) /\ Len(v) = Len(ev) /\ Qty(ev, {c}) = SumSeq(v)
      /\ Ids(ev) = 1..Len(ev) /\ Len(ev) \in Nat
  BY RowTable, ColumnType DEF Ids
<1>2. \A n \in 1..Len(ev) : v[n] = IF n = c THEN ev[c].qty ELSE 0
  BY <1>1 DEF Column
<1>3. ev[c].qty \in Int
  <2>1. ev[c] \in Row
    OBVIOUS
  <2> QED
    BY <2>1 DEF Row
<1> HIDE DEF v
<1>4. PICK f : Partial(f, v, Len(v)) /\ SumSeq(v) = f[Len(v)]
  BY <1>1, SumPartial
<1> DEFINE T == {n \in 0..Len(ev) : f[n] = IF n < c THEN 0 ELSE ev[c].qty}
<1>5. 0 \in T
  BY <1>1, <1>4 DEF Partial
<1>6. ASSUME NEW n \in 0..(Len(ev) - 1), n \in T PROVE n + 1 \in T
  <2>1. n + 1 \in 1..Len(ev) /\ f[n + 1] = f[n] + v[n + 1]
    BY <1>1, <1>4 DEF Partial
  <2>2. f[n] = IF n < c THEN 0 ELSE ev[c].qty
    BY <1>6
  <2>3. v[n + 1] = IF n + 1 = c THEN ev[c].qty ELSE 0
    BY <1>2, <2>1
  <2>4. f[n + 1] = IF n + 1 < c THEN 0 ELSE ev[c].qty
    BY <1>3, <2>1, <2>2, <2>3
  <2> QED
    BY <2>1, <2>4
<1>7. 0..Len(ev) \subseteq T
  <2> HIDE DEF T
  <2> QED
    BY <1>1, <1>5, <1>6, SegmentInduction
<1>8. Len(ev) \in T
  BY <1>1, <1>7
<1> QED
  BY <1>1, <1>4, <1>8

\* Rows that are locked, and rewards that stand; rows that count for themselves.
Spent(ev)  == {i \in Ids(ev) : ev[i].reward # 0}
Leaves(ev) == {i \in Ids(ev) : ~Superseded(ev, i)}
Stand(rw)  == InStatus(rw, "earned") \cup InStatus(rw, "redeemed")

\* Splits carry what was bought down to the rows that count, and the rewards that stand
\* have cost Required units each.
Conserved(ev)  == Qty(ev, Roots(ev)) = Qty(ev, Leaves(ev))
Charged(ev, rw) == Qty(ev, Spent(ev)) = Required * Cardinality(Stand(rw))

LEMMA Numbers ==
  ASSUME NEW rw \in Seq(Reward)
  PROVE  /\ \A st : Cardinality(InStatus(rw, st)) \in Nat /\ IsFiniteSet(InStatus(rw, st))
         /\ IsFiniteSet(Stand(rw)) /\ Cardinality(Stand(rw)) \in Nat
         /\ Cardinality(Stand(rw)) = Cardinality(InStatus(rw, "earned"))
                                     + Cardinality(InStatus(rw, "redeemed"))
<1>1. Ids(rw) = 1..Len(rw) /\ Len(rw) \in Nat
  BY DEF Ids
<1>2. IsFiniteSet(1..Len(rw))
  BY <1>1, FS_Interval
<1>3. ASSUME NEW st
      PROVE  Cardinality(InStatus(rw, st)) \in Nat /\ IsFiniteSet(InStatus(rw, st))
  <2>1. InStatus(rw, st) \in SUBSET (1..Len(rw))
    BY <1>1 DEF InStatus
  <2> QED
    BY <1>2, <2>1, FS_Subset, FS_CardinalityType
<1>4. InStatus(rw, "earned") \cap InStatus(rw, "redeemed") = {}
  BY DEF InStatus
<1>5. /\ IsFiniteSet(Stand(rw))
      /\ Cardinality(Stand(rw)) = Cardinality(InStatus(rw, "earned"))
                                  + Cardinality(InStatus(rw, "redeemed")) - 0
  BY <1>3, <1>4, FS_Union, FS_EmptySet DEF Stand
<1> QED
  BY <1>3, <1>5

\* A new row, neither locked nor a child.
LEMMA ConservedAppend ==
  ASSUME NEW ev \in Seq(Row), SplitSound(ev), Conserved(ev),
         NEW row \in Row, row.parent = 0, row.reward = 0
  PROVE  Conserved(Append(ev, row)) /\ Qty(Append(ev, row), Spent(Append(ev, row))) = Qty(ev, Spent(ev))
<1> DEFINE new == Append(ev, row)
           N   == Len(ev)
<1>1. /\ Ids(ev) = 1..N /\ Ids(new) = 1..(N + 1) /\ N \in Nat
      /\ new[N + 1] = row /\ \A i \in 1..N : new[i] = ev[i]
  BY AppendFacts
<1>2. \A S : Qty(new, S) = Qty(ev, S) + (IF N + 1 \in S THEN row.qty ELSE 0)
  BY RowTable, QtyAppend
<1> HIDE DEF new
<1>3. \A i \in 1..N : ev[i].parent \in 0..N
  BY <1>1 DEF SplitSound
<1>4. \A i \in 1..N : Superseded(new, i) <=> Superseded(ev, i)
  BY <1>1 DEF Superseded
<1>5. ~Superseded(new, N + 1)
  BY <1>1, <1>3 DEF Superseded
<1>6. /\ N + 1 \in Roots(new) /\ N + 1 \in Leaves(new) /\ N + 1 \notin Spent(new)
      /\ \A i \in 1..N : /\ i \in Roots(new) <=> i \in Roots(ev)
                         /\ i \in Leaves(new) <=> i \in Leaves(ev)
                         /\ i \in Spent(new) <=> i \in Spent(ev)
  BY <1>1, <1>4, <1>5 DEF Roots, Leaves, Spent
<1>7. ASSUME NEW S, NEW T, \A i \in 1..N : i \in S <=> i \in T
      PROVE  Qty(ev, S) = Qty(ev, T)
  BY <1>7, RowTable, QtySame
<1>8. /\ Qty(ev, Roots(new)) = Qty(ev, Roots(ev)) /\ Qty(ev, Leaves(new)) = Qty(ev, Leaves(ev))
      /\ Qty(ev, Spent(new)) = Qty(ev, Spent(ev)) /\ Qty(ev, Spent(ev)) \in Int
  BY <1>6, <1>7, EventsQty
<1> QED
  BY <1>2, <1>6, <1>8 DEF Conserved, new

\* Locks have no part in it.
LEMMA ConservedRelocked ==
  ASSUME NEW a \in Seq(Row), NEW b, SameRecords(a, b), Conserved(a)
  PROVE  Conserved(b)
<1>1. Ids(a) = 1..Len(a) /\ Ids(b) = 1..Len(a) /\ Len(b) = Len(a) /\ b \in Seq(Row)
  BY DEF SameRecords, Ids
<1>2. \A i : Superseded(b, i) <=> Superseded(a, i)
  BY <1>1 DEF Superseded, SameRecords, SameRecord
<1>3. Roots(a) = Roots(b) /\ Leaves(a) = Leaves(b)
  BY <1>1, <1>2 DEF Roots, Leaves, SameRecords, SameRecord
<1>4. \A S : Qty(a, S) = Qty(b, S)
  <2>1. \A i \in 1..Len(a) : a[i].qty = b[i].qty
    BY DEF SameRecords, SameRecord
  <2>2. IsTable(a, Row) /\ IsTable(b, Row)
    BY <1>1, RowTable
  <2> QED
    BY <1>1, <2>1, <2>2, QtySame
<1> QED
  BY <1>3, <1>4 DEF Conserved

\* Row c gives way to two children.
LEMMA ConservedTwo ==
  ASSUME NEW ev \in Seq(Row), SplitSound(ev), Conserved(ev), NEW c \in 1..Len(ev),
         ~Superseded(ev, c), NEW n \in Int, NEW r \in Nat
  PROVE  /\ Conserved(Append(Append(ev, Child(ev[c], c, n, r)),
                             Child(ev[c], c, ev[c].qty - n, 0)))
         /\ Len(Append(Append(ev, Child(ev[c], c, n, r)),
                       Child(ev[c], c, ev[c].qty - n, 0))) >= Len(ev)
         /\ \A i \in 1..Len(ev) :
              Append(Append(ev, Child(ev[c], c, n, r)),
                     Child(ev[c], c, ev[c].qty - n, 0))[i] = ev[i]
         /\ \A S \in SUBSET (1..Len(ev)) :
              Qty(Append(Append(ev, Child(ev[c], c, n, r)),
                         Child(ev[c], c, ev[c].qty - n, 0)), S) = Qty(ev, S)
<1> DEFINE x   == Child(ev[c], c, n, r)
           y   == Child(ev[c], c, ev[c].qty - n, 0)
           mid == Append(ev, x)
           new == Append(mid, y)
           N   == Len(ev)
<1>0. ev[c] \in Row /\ ev[c].qty \in Int /\ c \in Nat /\ c # 0
  <2> HIDE DEF x, y, mid, new, N
  <2>1. ev[c] \in Row
    OBVIOUS
  <2>2. ev[c].qty \in Int
    BY <2>1 DEF Row
  <2>3. c \in Nat /\ c # 0
    OBVIOUS
  <2> QED
    BY <2>1, <2>2, <2>3
<1>1. x \in Row /\ y \in Row
  <2>1. x \in Row
    BY <1>0, ChildType
  <2>2. ev[c].qty - n \in Int /\ 0 \in Nat
    BY <1>0
  <2>3. y \in Row
    BY <1>0, <2>2, ChildType
  <2> QED
    BY <2>1, <2>3
<1>2. x.qty = n /\ x.parent = c /\ y.qty = ev[c].qty - n /\ y.parent = c
  BY <1>0 DEF Child, Row
<1> HIDE DEF x, y
<1>3. /\ mid \in Seq(Row) /\ Ids(ev) = 1..N /\ Len(mid) = N + 1 /\ N \in Nat
      /\ mid[N + 1] = x /\ \A i \in 1..N : mid[i] = ev[i]
  BY <1>1, AppendFacts
<1>4. \A S : Qty(mid, S) = Qty(ev, S) + (IF N + 1 \in S THEN n ELSE 0)
  BY <1>1, <1>2, RowTable, QtyAppend
<1> HIDE DEF mid
<1>5. /\ Ids(new) = 1..(N + 2) /\ Len(new) = N + 2 /\ new[N + 2] = y /\ new[N + 1] = x
      /\ \A i \in 1..N : new[i] = ev[i]
  BY <1>1, <1>3, AppendFacts
<1>6. \A S : Qty(new, S) = Qty(mid, S) + (IF N + 2 \in S THEN ev[c].qty - n ELSE 0)
  <2>1. \A S : Qty(new, S) = Qty(mid, S) + (IF Len(mid) + 1 \in S THEN y.qty ELSE 0)
    <3>1. IsTable(mid, Row)
      BY <1>3, RowTable
    <3> QED
      BY <1>1, <3>1, QtyAppend
  <2>2. Len(mid) + 1 = N + 2
    BY <1>3
  <2> QED
    BY <1>2, <2>1, <2>2
<1> HIDE DEF new
<1>7. \A i \in 1..N : ev[i].parent \in 0..N
  BY <1>3 DEF SplitSound
<1>8. /\ \A i \in 1..N : Superseded(new, i) <=> Superseded(ev, i) \/ i = c
      /\ ~Superseded(new, N + 1) /\ ~Superseded(new, N + 2)
  <2>1. \A j \in 1..(N + 2) : new[j].parent = IF j \in 1..N THEN ev[j].parent ELSE c
    <3>1. ASSUME NEW j \in 1..(N + 2), j \notin 1..N PROVE j = N + 1 \/ j = N + 2
      BY <1>3, <3>1
    <3> QED
      BY <1>2, <1>5, <3>1
  <2>2. \A i : Superseded(new, i) <=> Superseded(ev, i) \/ i = c
    <3>1. N + 1 \in 1..(N + 2) /\ N + 1 \notin 1..N /\ 1..N \subseteq 1..(N + 2)
      BY <1>3
    <3> QED
      BY <1>3, <1>5, <2>1, <3>1 DEF Superseded
  <2>3. ~Superseded(ev, N + 1) /\ ~Superseded(ev, N + 2)
    BY <1>3, <1>7 DEF Superseded
  <2>4. N + 1 # c /\ N + 2 # c
    BY <1>3
  <2> QED
    BY <2>2, <2>3, <2>4
<1>9. /\ N + 1 \notin Roots(new) /\ N + 2 \notin Roots(new)
      /\ N + 1 \in Leaves(new) /\ N + 2 \in Leaves(new)
      /\ \A i \in 1..N : /\ i \in Roots(new) <=> i \in Roots(ev)
                         /\ i \in Leaves(new) <=> i \in Leaves(ev) \ {c}
  BY <1>0, <1>2, <1>3, <1>5, <1>8 DEF Roots, Leaves
<1>10. ASSUME NEW S, NEW T, \A i \in 1..N : i \in S <=> i \in T
       PROVE  Qty(ev, S) = Qty(ev, T)
  BY <1>10, RowTable, QtySame
<1>11. Qty(ev, Leaves(ev)) = Qty(ev, Leaves(ev) \ {c}) + ev[c].qty
  <2>1. c \in Leaves(ev)
    BY <1>3 DEF Leaves
  <2>2. Leaves(ev) = (Leaves(ev) \ {c}) \cup {c} /\ (Leaves(ev) \ {c}) \cap {c} = {}
    BY <2>1
  <2> DEFINE A == Leaves(ev) \ {c}
  <2> HIDE DEF A
  <2>3. A \cap {c} = {} /\ Leaves(ev) = A \cup {c}
    BY <2>2 DEF A
  <2>4. Qty(ev, A \cup {c}) = Qty(ev, A) + Qty(ev, {c})
    BY <2>3, QtyUnion
  <2>5. Qty(ev, {c}) = ev[c].qty
    BY QtyOne
  <2> QED
    BY <2>3, <2>4, <2>5 DEF A
<1>12. /\ Qty(ev, Roots(new)) = Qty(ev, Roots(ev))
       /\ Qty(ev, Leaves(new)) = Qty(ev, Leaves(ev) \ {c})
       /\ Qty(ev, Roots(ev)) \in Int /\ Qty(ev, Leaves(ev) \ {c}) \in Int
  BY <1>9, <1>10, EventsQty
<1>13. /\ Qty(new, Roots(new)) = Qty(ev, Roots(ev))
       /\ Qty(new, Leaves(new)) = Qty(ev, Leaves(ev) \ {c}) + n + (ev[c].qty - n)
  BY <1>0, <1>4, <1>6, <1>9, <1>12
<1>14. Conserved(new)
  BY <1>0, <1>11, <1>12, <1>13 DEF Conserved
<1>15. Len(new) >= N
  BY <1>3, <1>5
<1>16. \A S \in SUBSET (1..N) : Qty(new, S) = Qty(ev, S)
  <2> TAKE S \in SUBSET (1..N)
  <2>1. N + 1 \notin S /\ N + 2 \notin S
    BY <1>3
  <2>2. Qty(new, S) = Qty(mid, S) + 0 /\ Qty(mid, S) = Qty(ev, S) + 0 /\ Qty(ev, S) \in Int
    BY <1>4, <1>6, <2>1, EventsQty
  <2> QED
    BY <2>2
<1> QED
  BY <1>5, <1>14, <1>15, <1>16 DEF new, mid, x, y, N

\* A reward that stands is revoked and its rows are unlocked, or nothing is to be undone.
LEMMA ChargedRevoke ==
  ASSUME NEW ev \in Seq(Row), NEW rw \in Seq(Reward), Sound(ev, rw), Charged(ev, rw),
         NEW r \in Ids(rw), rw[r].status # "in_progress"
  PROVE  /\ Charged(Unlock(ev, r), SetStatus(rw, r, "revoked"))
         /\ InStatus(rw, "revoked") \cup {r} = InStatus(SetStatus(rw, r, "revoked"), "revoked")
         /\ \A st \in {"earned", "redeemed"} :
              InStatus(SetStatus(rw, r, "revoked"), st) = InStatus(rw, st) \ {r}
<1> DEFINE new == SetStatus(rw, r, "revoked")
           open == Unlock(ev, r)
<1>1. /\ new \in Seq(Reward) /\ Ids(new) = Ids(rw)
      /\ \A q \in Ids(rw) : new[q].status = IF q = r THEN "revoked" ELSE rw[q].status
  BY SetStatusType DEF Statuses
<1>2. /\ open \in Seq(Row) /\ Len(open) = Len(ev)
      /\ \A i \in 1..Len(ev) :
           /\ open[i].qty = ev[i].qty
           /\ open[i].reward = IF ev[i].reward = r THEN 0 ELSE ev[i].reward
  BY UnlockType
<1>3. r \in Nat \ {0}
  BY IdsAreNumbers
<1> HIDE DEF new, open
<1>4. /\ InStatus(rw, "revoked") \cup {r} = InStatus(new, "revoked")
      /\ \A st \in {"earned", "redeemed"} : InStatus(new, st) = InStatus(rw, st) \ {r}
  BY <1>1 DEF InStatus
<1>5. /\ Spent(ev) = Spent(open) \cup LockedBy(ev, r)
      /\ Spent(open) \cap LockedBy(ev, r) = {}
  BY <1>2, <1>3 DEF Spent, LockedBy, Ids
<1>6. Qty(ev, Spent(ev)) = Qty(ev, Spent(open)) + Locked(ev, r)
  BY <1>5, QtyUnion DEF Locked
<1>7. Qty(ev, Spent(open)) = Qty(open, Spent(open))
  <2>1. IsTable(ev, Row) /\ IsTable(open, Row)
    BY <1>2, RowTable
  <2> QED
    BY <1>2, <2>1, QtySame
<1>8. Stand(new) = Stand(rw) \ {r}
  BY <1>4 DEF Stand
<1>9. /\ Required \in Nat /\ Qty(ev, Spent(open)) \in Int
      /\ IsFiniteSet(Stand(rw)) /\ Cardinality(Stand(rw)) \in Nat
  BY RequiredAssumption, EventsQty, Numbers
<1>10. CASE r \in Stand(rw)
  <2>1. Locked(ev, r) = Required
    BY <1>10 DEF Sound, Backed, Stand, InStatus, Standing
  <2>2. Cardinality(Stand(new)) = Cardinality(Stand(rw)) - 1
    BY <1>8, <1>9, <1>10, FS_RemoveElement
  <2>3. Required * (Cardinality(Stand(rw)) - 1) = Required * Cardinality(Stand(rw)) - Required
    BY <1>9
  <2> QED
    BY <1>4, <1>6, <1>7, <1>9, <2>1, <2>2, <2>3 DEF Charged, new, open
<1>11. CASE r \notin Stand(rw)
  <2>1. LockedBy(ev, r) = {}
    BY <1>3, <1>11 DEF LockedBy, Sound, LocksStanding, Stand, InStatus, Standing
  <2>2. Locked(ev, r) = 0
    BY <2>1, QtyNone DEF Locked
  <2>3. Stand(new) = Stand(rw)
    BY <1>8, <1>11
  <2> QED
    BY <1>4, <1>6, <1>7, <1>9, <2>2, <2>3 DEF Charged, new, open
<1> QED
  BY <1>10, <1>11

\* What a reward consumes is locked to it, or split off and locked; no other row changes.
LEMMA ConservedEarn ==
  ASSUME Typed, SplitSound(events), Conserved(events), EarnReward
  PROVE  /\ Conserved(events') /\ Len(events) <= Len(events')
         /\ \A i \in 1..Len(events) : events[i].reward # 0 => events'[i].reward = events[i].reward
         /\ \A S \in SUBSET (1..Len(events)) : Qty(events', S) = Qty(events, S)
<1>1. tx \in Tx /\ tx.reward \in Nat /\ events \in Seq(Row)
  BY OpenTx DEF EarnReward, Tx, Typed
<1>2. PICK L \in SUBSET Candidates :
        \E c \in (IF L = Candidates THEN {0} ELSE Earliest(Candidates \ L)) :
          Consumable(L, c) /\ events' = Consume(L, c, tx.reward)
  BY DEF EarnReward
<1>3. PICK c \in (IF L = Candidates THEN {0} ELSE Earliest(Candidates \ L)) :
        Consumable(L, c) /\ events' = Consume(L, c, tx.reward)
  BY <1>2
<1> DEFINE locked == Lock(L, tx.reward)
<1>4. /\ SplitSound(locked) /\ SameRecords(events, locked) /\ Conserved(locked)
      /\ locked \in Seq(Row) /\ Len(locked) = Len(events)
      /\ \A i \in 1..Len(events) : events[i].reward # 0 => locked[i].reward = events[i].reward
      /\ \A S \in SUBSET (1..Len(events)) : Qty(locked, S) = Qty(events, S)
  <2>1. SplitSound(locked) /\ SameRecords(events, locked)
    BY <1>1, SplitLock, LockSame
  <2>2. Conserved(locked)
    BY <1>1, <2>1, ConservedRelocked
  <2>3. \A i \in 1..Len(events) : events[i].reward # 0 => i \notin L
    BY DEF Candidates, Open
  <2>4. \A i \in 1..Len(events) : events[i].reward # 0 => locked[i] = events[i]
    BY <2>3 DEF Lock, Ids
  <2> HIDE DEF locked
  <2>5. locked \in Seq(Row) /\ Len(locked) = Len(events)
    BY <2>1 DEF SameRecords
  <2>6. \A i \in 1..Len(events) : events[i].qty = locked[i].qty
    BY <2>1 DEF SameRecords, SameRecord
  <2>7. IsTable(events, Row) /\ IsTable(locked, Row)
    BY <1>1, <2>5, RowTable
  <2>8. \A S : Qty(events, S) = Qty(locked, S)
    BY <2>5, <2>6, <2>7, QtySame
  <2> QED
    BY <2>1, <2>2, <2>4, <2>5, <2>8
<1>5. CASE events' = locked
  BY <1>1, <1>4, <1>5
<1>6. CASE events' # locked
  <2>1. /\ c \in Candidates \ L /\ locked[c] = events[c]
        /\ \E n \in Int : /\ 0 < n /\ n < events[c].qty
                          /\ events' = Append(Append(locked, Child(events[c], c, n, tx.reward)),
                                              Child(events[c], c, events[c].qty - n, 0))
    <3> DEFINE q == tx.reward
    <3>1. q \in Nat /\ Consumable(L, c) /\ events' = Consume(L, c, q)
      BY <1>1, <1>3
    <3> HIDE DEF q
    <3>2. PartlyLocked(L, c, q)
      BY <1>1, <1>3, <3>1, ConsumeShape
    <3>3. events' # Lock(L, q)
      BY <1>6 DEF q
    <3> QED
      BY <3>1, <3>2, <3>3 DEF PartlyLocked, q
  <2> HIDE DEF locked
  <2>2. c \in 1..Len(locked) /\ ~Superseded(events, c)
    BY <1>4, <2>1 DEF Candidates, Open, Ids
  <2>3. ~Superseded(locked, c)
    BY <1>4, <2>2 DEF Superseded, SameRecords, SameRecord, Ids
  <2>4. PICK n \in Int : events' = Append(Append(locked, Child(locked[c], c, n, tx.reward)),
                                          Child(locked[c], c, locked[c].qty - n, 0))
    BY <2>1
  <2>5. /\ Conserved(events') /\ Len(events') >= Len(locked)
        /\ \A i \in 1..Len(locked) : events'[i] = locked[i]
        /\ \A S \in SUBSET (1..Len(locked)) : Qty(events', S) = Qty(locked, S)
    BY <1>1, <1>4, <2>2, <2>3, <2>4, ConservedTwo
  <2> QED
    BY <1>4, <2>5
<1> QED
  BY <1>5, <1>6

LEMMA ChargedEarn ==
  ASSUME LedgerInv, SplitSound(events), Conserved(events), Charged(events, rewards), EarnReward
  PROVE  /\ Charged(events', rewards')
         /\ InStatus(rewards', "redeemed") = InStatus(rewards, "redeemed")
<1> DEFINE r      == tx.reward
           paid   == [status |-> "earned", earnedAt |-> day]
           earned == [rewards EXCEPT ![r] = paid]
           N      == Len(events)
<1>1. /\ Typed /\ Sound(events, rewards) /\ r \in Ids(rewards)
      /\ events \in Seq(Row) /\ rewards \in Seq(Reward) /\ Ids(events) = 1..N /\ N \in Nat
  BY IdsAreNumbers DEF LedgerInv, Typed, EarnReward, CrossingDue, Ids
<1>2. /\ PaidBy(events', r) /\ r \in Nat /\ r # 0 /\ rewards[r].status = "in_progress"
      /\ \A i \in 1..N : events[i].reward # r
  BY <1>1, EarnPaid
<1>3. /\ N <= Len(events')
      /\ \A i \in 1..N : events[i].reward # 0 => events'[i].reward = events[i].reward
      /\ \A S \in SUBSET (1..N) : Qty(events', S) = Qty(events, S)
  BY <1>1, ConservedEarn
<1>4. paid \in Reward /\ paid.status = "earned"
  BY <1>1, TimeAssumption DEF Typed, Reward, Statuses
<1> HIDE DEF paid
<1>5. /\ earned \in Seq(Reward) /\ Len(earned) = Len(rewards)
      /\ \A q \in Ids(rewards) : earned[q] = IF q = r THEN paid ELSE rewards[q]
      /\ Ids(earned) = Ids(rewards) /\ Ids(rewards) = 1..Len(rewards) /\ Len(rewards) \in Nat
  <2>1. Replaced(earned, rewards, r, paid)
    BY <1>1, <1>4, ReplaceType
  <2> QED
    BY <1>1, <2>1 DEF Replaced, Ids
<1>6. rewards' = earned \/ rewards' = Append(earned, NewReward)
  BY DEF EarnReward, earned, paid
<1> HIDE DEF earned, r
<1>7. \A st \in {"earned", "redeemed"} : InStatus(rewards', st) = InStatus(earned, st)
  <2>1. CASE rewards' = earned
    BY <2>1
  <2>2. CASE rewards' = Append(earned, NewReward)
    <3>1. NewReward.status = "in_progress" /\ NewReward \in Reward
      BY DEF NewReward, Reward, Statuses
    <3>2. /\ Ids(rewards') = 1..(Len(rewards) + 1) /\ rewards'[Len(rewards) + 1] = NewReward
          /\ \A q \in 1..Len(rewards) : rewards'[q] = earned[q]
      BY <1>5, <2>2, <3>1 DEF Ids
    <3> QED
      BY <1>5, <3>1, <3>2 DEF InStatus
  <2> QED
    BY <1>6, <2>1, <2>2
<1>8. /\ InStatus(earned, "earned") = InStatus(rewards, "earned") \cup {r}
      /\ InStatus(earned, "redeemed") = InStatus(rewards, "redeemed")
  BY <1>1, <1>2, <1>4, <1>5 DEF InStatus, r
<1>9. Stand(rewards') = Stand(rewards) \cup {r} /\ r \notin Stand(rewards)
  BY <1>2, <1>7, <1>8 DEF Stand, InStatus
<1>10. /\ events' \in Seq(Row) /\ Ids(events') = 1..Len(events') /\ Locked(events', r) = Required
       /\ \A i \in 1..N : events'[i].reward \in {events[i].reward, r}
       /\ \A i \in Ids(events') : i > N => events'[i].reward \in {0, r}
  BY <1>2 DEF PaidBy, Ids
<1>11. /\ Spent(events') = Spent(events) \cup LockedBy(events', r)
       /\ Spent(events) \cap LockedBy(events', r) = {}
       /\ Spent(events) \in SUBSET (1..N)
  BY <1>1, <1>2, <1>3, <1>10 DEF Spent, LockedBy
<1>12. Qty(events', Spent(events')) = Qty(events', Spent(events)) + Locked(events', r)
  BY <1>10, <1>11, QtyUnion DEF Locked
<1>13. Qty(events', Spent(events)) = Required * Cardinality(Stand(rewards))
  BY <1>3, <1>11 DEF Charged
<1>14. /\ IsFiniteSet(Stand(rewards)) /\ Cardinality(Stand(rewards)) \in Nat /\ Required \in Nat
  BY <1>1, Numbers, RequiredAssumption
<1>15. Cardinality(Stand(rewards')) = Cardinality(Stand(rewards)) + 1
  BY <1>9, <1>14, FS_AddElement
<1>16. Required * (Cardinality(Stand(rewards)) + 1) = Required * Cardinality(Stand(rewards)) + Required
  BY <1>14
<1> QED
  BY <1>7, <1>8, <1>10, <1>12, <1>13, <1>14, <1>15, <1>16 DEF Charged

\* What was bought is what the rewards that stand have cost and what pays for none.
Books(ev, rw) ==
  /\ ev \in Seq(Row) /\ rw \in Seq(Reward)
  /\ SplitSound(ev) /\ Conserved(ev) /\ Charged(ev, rw)
Balanced(ev, rw) ==
  /\ Qty(ev, Roots(ev)) \in Int /\ Qty(ev, Unspent(ev)) \in Int
  /\ Cardinality(InStatus(rw, "earned")) \in Nat /\ Cardinality(InStatus(rw, "redeemed")) \in Nat
  /\ Qty(ev, Roots(ev)) = Qty(ev, Unspent(ev))
       + Required * (Cardinality(InStatus(rw, "earned")) + Cardinality(InStatus(rw, "redeemed")))

LEMMA BooksBalance ==
  ASSUME NEW ev, NEW rw, Books(ev, rw)
  PROVE  Balanced(ev, rw)
<1>1. ev \in Seq(Row) /\ rw \in Seq(Reward)
  BY DEF Books
<1>2. Leaves(ev) = Unspent(ev) \cup Spent(ev) /\ Unspent(ev) \cap Spent(ev) = {}
  BY DEF Books, SplitSound, Carried, Leaves, Unspent, Spent
<1>3. Qty(ev, Unspent(ev) \cup Spent(ev)) = Qty(ev, Unspent(ev)) + Qty(ev, Spent(ev))
  BY <1>1, <1>2, QtyUnion
<1>4. Qty(ev, Roots(ev)) = Qty(ev, Leaves(ev))
      /\ Qty(ev, Spent(ev)) = Required * Cardinality(Stand(rw))
  BY DEF Books, Conserved, Charged
<1>5. /\ Cardinality(InStatus(rw, "earned")) \in Nat /\ Cardinality(InStatus(rw, "redeemed")) \in Nat
      /\ Cardinality(Stand(rw)) = Cardinality(InStatus(rw, "earned"))
                                  + Cardinality(InStatus(rw, "redeemed"))
  BY <1>1, Numbers
<1>6. Qty(ev, Roots(ev)) \in Int /\ Qty(ev, Unspent(ev)) \in Int
  BY <1>1, EventsQty
<1> QED
  BY <1>2, <1>3, <1>4, <1>5, <1>6 DEF Balanced

CardInv ==
  /\ Conserved(events) /\ Charged(events, rewards)
  /\ tx # Idle => Conserved(saved.events) /\ Charged(saved.events, saved.rewards)

\* No transaction under the advisory lock redeems or revokes a reward.
LEMMA BehindStands ==
  ASSUME NEW old, NEW new, Behind(old, new)
  PROVE  InStatus(new, "redeemed") = InStatus(old, "redeemed")
BY DEF Behind, InStatus

\* A purchase or a return is a row that is neither locked nor a child.
LEMMA CardRecord ==
  ASSUME LedgerInv, SplitInv, CardInv, NEW row \in Row, row.parent = 0, row.reward = 0
  PROVE  /\ Append(events, row) \in Seq(Row) /\ Sound(Append(events, row), rewards)
         /\ Conserved(Append(events, row)) /\ Charged(Append(events, row), rewards)
<1>1. events \in Seq(Row) /\ rewards \in Seq(Reward) /\ Sound(events, rewards)
  BY DEF LedgerInv, Typed
<1>2. Append(events, row) \in Seq(Row) /\ Sound(Append(events, row), rewards)
  BY <1>1, SoundAppend
<1>3. /\ Conserved(Append(events, row))
      /\ Qty(Append(events, row), Spent(Append(events, row))) = Qty(events, Spent(events))
  BY <1>1, ConservedAppend DEF SplitInv, CardInv
<1> QED
  BY <1>2, <1>3 DEF CardInv, Charged

\* A reward that is not in progress is revoked.
LEMMA CardRevoke ==
  ASSUME NEW ev \in Seq(Row), NEW rw \in Seq(Reward), Sound(ev, rw), Conserved(ev),
         Charged(ev, rw), NEW r \in Ids(rw), rw[r].status # "in_progress"
  PROVE  Conserved(Unlock(ev, r)) /\ Charged(Unlock(ev, r), SetStatus(rw, r, "revoked"))
BY UnlockSame, ConservedRelocked, ChargedRevoke

LEMMA CardReturn ==
  ASSUME LedgerInv, SplitInv, CardInv, tx # Idle, NEW t \in tx.todo, RecordReturn(t)
  PROVE  Conserved(events') /\ Charged(events', rewards')
<1>1. Typed /\ Sound(events, rewards)
  BY DEF LedgerInv
<1>2. CASE ~(t.item \in Qualifying /\ ~Recorded(t))
  BY <1>1, <1>2, ReturnAppends DEF CardInv
<1>3. CASE t.item \in Qualifying /\ ~Recorded(t)
  <2>1. PICK wend \in Int : /\ NewRow(t, -t.qty, wend) \in Row
                           /\ NewRow(t, -t.qty, wend).reward = 0
                           /\ events' = Append(events, NewRow(t, -t.qty, wend))
    BY <1>1, <1>3, ReturnAppends
  <2>2. rewards' = rewards
    BY <1>1, ReturnAppends
  <2>3. NewRow(t, -t.qty, wend).parent = 0
    BY DEF NewRow
  <2> QED
    BY <2>1, <2>2, <2>3, CardRecord
<1> QED
  BY <1>2, <1>3

LEMMA CardProgress ==
  ASSUME LedgerInv, SplitInv, CardInv, UpdateProgress
  PROVE  Conserved(events') /\ Charged(events', rewards')
<1>1. rewards \in Seq(Reward) /\ events' = events
  BY DEF LedgerInv, Typed, UpdateProgress
<1>2. CASE rewards' = rewards
  BY <1>1, <1>2 DEF CardInv
<1>3. CASE rewards' = Append(rewards, NewReward)
  <2>1. NewReward.status = "in_progress" /\ NewReward \in Reward
    BY DEF NewReward, Reward, Statuses
  <2>2. /\ Ids(rewards') = 1..(Len(rewards) + 1) /\ Ids(rewards) = 1..Len(rewards)
        /\ Len(rewards) \in Nat /\ rewards'[Len(rewards) + 1] = NewReward
        /\ \A q \in 1..Len(rewards) : rewards'[q] = rewards[q]
    BY <1>1, <1>3, <2>1 DEF Ids
  <2>3. \A st \in {"earned", "redeemed"} : InStatus(rewards', st) = InStatus(rewards, st)
    BY <2>1, <2>2 DEF InStatus
  <2>4. Stand(rewards') = Stand(rewards)
    BY <2>3 DEF Stand
  <2> QED
    BY <1>1, <2>4 DEF CardInv, Charged
<1> QED
  BY <1>2, <1>3 DEF UpdateProgress

LEMMA CardRedeem ==
  ASSUME NEW ev \in Seq(Row), NEW rw \in Seq(Reward), Charged(ev, rw), NEW r \in InStatus(rw, "earned")
  PROVE  LET new == SetStatus(rw, r, "redeemed")
         IN  /\ Charged(ev, new)
             /\ InStatus(new, "earned") = InStatus(rw, "earned") \ {r}
             /\ InStatus(new, "redeemed") = InStatus(rw, "redeemed") \cup {r}
<1> DEFINE new == SetStatus(rw, r, "redeemed")
<1>1. /\ Ids(new) = Ids(rw) /\ r \in Ids(rw)
      /\ \A q \in Ids(rw) : new[q].status = IF q = r THEN "redeemed" ELSE rw[q].status
  BY SetStatusType DEF Statuses, InStatus
<1> HIDE DEF new
<1>2. /\ InStatus(new, "earned") = InStatus(rw, "earned") \ {r}
      /\ InStatus(new, "redeemed") = InStatus(rw, "redeemed") \cup {r}
  BY <1>1 DEF InStatus
<1>3. Stand(new) = Stand(rw)
  BY <1>2 DEF Stand
<1> QED
  BY <1>2, <1>3 DEF Charged, new

\* A redemption or a revocation keeps the books.
LEMMA CardVisit ==
  ASSUME NEW ev \in Seq(Row), NEW rw \in Seq(Reward), Sound(ev, rw), Conserved(ev),
         Charged(ev, rw), NEW r \in Ids(rw), NEW to \in {"redeemed", "revoked"},
         rw[r].status # "in_progress", to = "redeemed" => rw[r].status = "earned"
  PROVE  Conserved(EventsAfter(ev, r, to)) /\ Charged(EventsAfter(ev, r, to), SetStatus(rw, r, to))
<1>1. CASE to = "redeemed"
  BY <1>1, CardRedeem DEF EventsAfter, InStatus
<1>2. CASE to = "revoked"
  BY <1>2, CardRevoke DEF EventsAfter
<1> QED
  BY <1>1, <1>2

\* What may be done to a reward that an open redemption or revocation holds.
LEMMA VisitOf ==
  ASSUME NEW rw, Expirable(rw), NEW s \in visits, s \in Visit
  PROVE  /\ s.reward \in Ids(rw) /\ s.to \in {"redeemed", "revoked"}
         /\ rw[s.reward].status # "in_progress"
         /\ s.to = "redeemed" => rw[s.reward].status = "earned"
<1>1. s.to \in {"redeemed", "revoked"}
  BY DEF Visit
<1> QED
  BY <1>1 DEF Expirable, Clear

\* Which steps write the two tables.
LEMMA Writers ==
  ASSUME [Next]_vars
  PROVE  \/ events' = events /\ rewards' = rewards
         \/ \E t \in tx.todo : tx # Idle /\ (RecordPurchase(t) \/ RecordReturn(t))
         \/ UpdateProgress \/ EarnReward \/ Rollback
         \/ \E s \in visits : Ending(s)
<1>1. \A r : BeginRedeem(r) \/ BeginRevoke(r) => events' = events /\ rewards' = rewards
  BY DEF BeginRedeem, BeginRevoke, BeginVisit, tables
<1>2. \A s : RedeemFails(s) => events' = events /\ rewards' = rewards
  BY DEF RedeemFails, tables
<1>3. \A s : Redeem(s) \/ ExpireApply(s) => Ending(s)
  BY EndingSteps
<1> QED
  BY <1>1, <1>2, <1>3 DEF Next, CheckOrder, SkipOrder, BeginOrder, BeginReturns, BeginManual,
     ReadSummary, WriteSummary, Commit, BeginExpire, ExpireScan, ExpireAbort, Tick, vars, tables

\* Every step keeps the books.
LEMMA CardTables ==
  ASSUME LedgerInv, SplitInv, CardInv, [Next]_vars
  PROVE  Conserved(events') /\ Charged(events', rewards')
<1>0. /\ Typed /\ events \in Seq(Row) /\ rewards \in Seq(Reward) /\ Sound(events, rewards)
      /\ Conserved(events) /\ Charged(events, rewards)
  BY DEF LedgerInv, Typed, CardInv
<1>1. CASE events' = events /\ rewards' = rewards
  BY <1>0, <1>1
<1>2. ASSUME NEW t \in tx.todo, tx # Idle, RecordPurchase(t)
      PROVE  Conserved(events') /\ Charged(events', rewards')
  <2>1. tx \in Tx /\ t \in Todo
    BY <1>0, <1>2, OpenTx DEF Tx
  <2>2. tx.at + Window \in Int /\ t.qty \in Int
    BY <2>1, TimeAssumption DEF Tx, Todo
  <2> DEFINE row == NewRow(t, t.qty, tx.at + Window)
  <2>3. row \in Row /\ row.reward = 0
    BY <2>1, <2>2, NewRowType
  <2>4. row.parent = 0
    BY DEF NewRow
  <2>5. (events' = events \/ events' = Append(events, row)) /\ rewards' = rewards
    BY <1>2 DEF RecordPurchase
  <2> HIDE DEF row
  <2>6. Conserved(Append(events, row)) /\ Charged(Append(events, row), rewards)
    BY <2>3, <2>4, CardRecord
  <2> QED
    BY <1>0, <2>5, <2>6
<1>3. CASE EarnReward
  <2>1. Conserved(events')
    BY <1>0, <1>3, ConservedEarn DEF SplitInv
  <2> QED
    BY <1>0, <1>3, <2>1, ChargedEarn DEF SplitInv
<1>4. CASE Rollback
  BY <1>4 DEF Rollback, CardInv
<1>5. ASSUME NEW s \in visits, Ending(s) PROVE Conserved(events') /\ Charged(events', rewards')
  <2>1. /\ events' = EventsAfter(events, s.reward, s.to)
        /\ rewards' = SetStatus(rewards, s.reward, s.to)
    BY <1>5 DEF Ending, EndVisit
  <2>2. Expirable(rewards) /\ s \in Visit
    BY <1>0 DEF LedgerInv, Typed
  <2>3. /\ s.reward \in Ids(rewards) /\ s.to \in {"redeemed", "revoked"}
        /\ rewards[s.reward].status # "in_progress"
        /\ s.to = "redeemed" => rewards[s.reward].status = "earned"
    BY <2>2, VisitOf
  <2> QED
    BY <1>0, <2>1, <2>3, CardVisit
<1>6. CASE UpdateProgress
  BY <1>6, CardProgress
<1>7. CASE \E t \in tx.todo : tx # Idle /\ (RecordPurchase(t) \/ RecordReturn(t))
  BY <1>2, <1>7, CardReturn
<1>8. CASE \E s \in visits : Ending(s)
  BY <1>5, <1>8
<1> QED
  BY <1>1, <1>3, <1>4, <1>6, <1>7, <1>8, Writers

\* The invariant of the next state, as facts about its tables.
LEMMA CardNext ==
  ASSUME LedgerInv, SplitInv, CardInv, [Next]_vars
  PROVE  /\ Books(events', rewards')
         /\ tx' # Idle => Books(saved'.events, saved'.rewards)
<1>1. LedgerInv' /\ SplitInv'
  BY LedgerStep, SplitStep
<1>2. events' \in Seq(Row) /\ rewards' \in Seq(Reward)
  BY <1>1 DEF LedgerInv, Typed
<1>3. SplitSound(events') /\ (tx' # Idle => SplitSound(saved'.events))
  BY <1>1 DEF SplitInv, SplitSound, Superseded, Carried, Children, Qty, Ids
<1>4. Books(events', rewards')
  BY <1>2, <1>3, CardTables DEF Books
<1>5. /\ saved.events \in Seq(Row) /\ saved.rewards \in Seq(Reward)
      /\ saved'.events \in Seq(Row) /\ saved'.rewards \in Seq(Reward)
  BY <1>1 DEF LedgerInv, Typed, Tables
<1>6. CASE tx = Idle /\ saved' = Snapshot
  <2>1. saved'.events = events /\ saved'.rewards = rewards
    BY <1>6 DEF Snapshot
  <2>2. Books(events, rewards)
    BY DEF Books, LedgerInv, Typed, SplitInv, CardInv
  <2> QED
    BY <1>4, <2>1, <2>2
<1>7. CASE tx # Idle /\ saved' = saved
  <2>1. Books(saved.events, saved.rewards)
    BY <1>5, <1>7 DEF Books, SplitInv, CardInv
  <2> QED
    BY <1>4, <1>7, <2>1
<1>8. ASSUME tx' # Idle, tx # Idle, NEW s \in visits, Ending(s)
      PROVE  Books(saved'.events, saved'.rewards)
  <2>1. /\ saved'.events = EventsAfter(saved.events, s.reward, s.to)
        /\ saved'.rewards = SetStatus(saved.rewards, s.reward, s.to)
    BY <1>8, SavedEnd DEF LedgerInv
  <2>2. Expirable(saved.rewards) /\ Sound(saved.events, saved.rewards) /\ s \in Visit
    BY <1>8 DEF LedgerInv, Typed
  <2>3. /\ s.reward \in Ids(saved.rewards) /\ s.to \in {"redeemed", "revoked"}
        /\ saved.rewards[s.reward].status # "in_progress"
        /\ s.to = "redeemed" => saved.rewards[s.reward].status = "earned"
    BY <2>2, VisitOf
  <2>4. Conserved(saved.events) /\ Charged(saved.events, saved.rewards)
    BY <1>8 DEF CardInv
  <2>5. Conserved(saved'.events) /\ Charged(saved'.events, saved'.rewards)
    BY <1>5, <2>1, <2>2, <2>3, <2>4, CardVisit
  <2> QED
    BY <1>3, <1>5, <1>8, <2>5 DEF Books
<1>9. ASSUME tx' # Idle PROVE Books(saved'.events, saved'.rewards)
  <2>1. \/ tx = Idle /\ saved' = Snapshot
        \/ tx # Idle /\ saved' = saved
        \/ tx # Idle /\ \E s \in visits : Ending(s)
    BY <1>9, SavedSteps
  <2> QED
    BY <1>6, <1>7, <1>8, <1>9, <2>1
<1> QED
  BY <1>4, <1>9

LEMMA CardStep == LedgerInv /\ SplitInv /\ CardInv /\ [Next]_vars => CardInv'
<1> SUFFICES ASSUME LedgerInv, SplitInv, CardInv, [Next]_vars PROVE CardInv'
  OBVIOUS
<1>1. /\ Conserved(events') /\ Charged(events', rewards')
      /\ tx' # Idle => Conserved(saved'.events) /\ Charged(saved'.events, saved'.rewards)
  BY CardNext DEF Books
<1> QED
  BY <1>1 DEF CardInv, Conserved, Charged, Roots, Leaves, Spent, Stand, Superseded, InStatus, Qty, Ids

\* The books of the committed tables balance before and after each step.
LEMMA CommittedBooks ==
  ASSUME LedgerInv, SplitInv, CardInv
  PROVE  Balanced(Committed.events, Committed.rewards)
<1>1. CASE tx = Idle
  <2>1. Books(events, rewards)
    BY DEF Books, LedgerInv, Typed, SplitInv, CardInv
  <2> QED
    BY <1>1, <2>1, BooksBalance DEF Committed, Snapshot
<1>2. CASE tx # Idle
  <2>1. Books(saved.events, saved.rewards)
    BY <1>2 DEF Books, LedgerInv, Typed, Tables, SplitInv, CardInv
  <2> QED
    BY <1>2, <2>1, BooksBalance DEF Committed
<1> QED
  BY <1>1, <1>2

\* Units bought and returned, units that pay for no reward, and rewards, of a pair of tables.
Units(s) == Qty(s.events, Roots(s.events))
Left(s)  == Qty(s.events, Unspent(s.events))
Have(s, st) == Cardinality(InStatus(s.rewards, st))

\* One step of the card, from the tables s to the tables t.
CardMove(s, t) ==
  \/ /\ Have(t, "earned") \in Nat
     /\ Units(t) - Units(s) = (Left(t) - Left(s)) + Required * (Have(t, "earned") - Have(s, "earned"))
     /\ Have(t, "redeemed") = Have(s, "redeemed")
  \/ /\ Have(s, "earned") > 0
     /\ Have(t, "earned") = Have(s, "earned") - 1
     /\ Have(t, "redeemed") = Have(s, "redeemed") + 1
     /\ Units(t) = Units(s) /\ Left(t) = Left(s)
  \/ /\ Have(s, "redeemed") > 0 /\ Have(t, "redeemed") = Have(s, "redeemed") - 1
     /\ Have(t, "earned") = Have(s, "earned")
     /\ Left(t) = Left(s) + Required
     /\ Units(t) = Units(s)

\* With balanced books, every step that redeems nothing and revokes nothing that was
\* redeemed is a trade.
LEMMA TradeMove ==
  ASSUME NEW s, NEW t, Balanced(s.events, s.rewards), Balanced(t.events, t.rewards),
         InStatus(t.rewards, "redeemed") = InStatus(s.rewards, "redeemed")
  PROVE  CardMove(s, t)
<1>1. Required \in Nat
  BY RequiredAssumption
<1>2. /\ Units(s) \in Int /\ Left(s) \in Int /\ Have(s, "earned") \in Nat /\ Have(s, "redeemed") \in Nat
      /\ Units(s) = Left(s) + Required * (Have(s, "earned") + Have(s, "redeemed"))
      /\ Units(t) \in Int /\ Left(t) \in Int /\ Have(t, "earned") \in Nat /\ Have(t, "redeemed") \in Nat
      /\ Units(t) = Left(t) + Required * (Have(t, "earned") + Have(t, "redeemed"))
      /\ Have(t, "redeemed") = Have(s, "redeemed")
  BY DEF Balanced, Units, Left, Have
<1>3. /\ Required * (Have(s, "earned") + Have(s, "redeemed")) =
           Required * Have(s, "earned") + Required * Have(s, "redeemed")
      /\ Required * (Have(t, "earned") + Have(t, "redeemed")) =
           Required * Have(t, "earned") + Required * Have(t, "redeemed")
      /\ Required * (Have(t, "earned") - Have(s, "earned")) =
           Required * Have(t, "earned") - Required * Have(s, "earned")
      /\ Required * Have(s, "earned") \in Int /\ Required * Have(s, "redeemed") \in Int
      /\ Required * Have(t, "earned") \in Int /\ Required * Have(t, "redeemed") \in Int
  BY <1>1, <1>2
<1> QED
  BY <1>2, <1>3 DEF CardMove

LEMMA UseMove ==
  ASSUME NEW s, NEW t, Balanced(s.events, s.rewards), s.rewards \in Seq(Reward),
         t.events = s.events, NEW r \in InStatus(s.rewards, "earned"),
         InStatus(t.rewards, "earned") = InStatus(s.rewards, "earned") \ {r},
         InStatus(t.rewards, "redeemed") = InStatus(s.rewards, "redeemed") \cup {r}
  PROVE  CardMove(s, t)
<1>1. /\ IsFiniteSet(InStatus(s.rewards, "earned")) /\ Have(s, "earned") \in Nat
      /\ IsFiniteSet(InStatus(s.rewards, "redeemed")) /\ Have(s, "redeemed") \in Nat
  BY Numbers DEF Have
<1>2. r \notin InStatus(s.rewards, "redeemed")
  BY DEF InStatus
<1>3. Have(t, "earned") = Have(s, "earned") - 1
  BY <1>1, FS_RemoveElement DEF Have
<1>4. Have(t, "redeemed") = Have(s, "redeemed") + 1
  BY <1>1, <1>2, FS_AddElement DEF Have
<1>5. Have(s, "earned") # 0
  BY <1>1, FS_EmptySet DEF Have
<1>6. Units(t) = Units(s) /\ Left(t) = Left(s)
  BY DEF Units, Left
<1> QED
  BY <1>1, <1>3, <1>4, <1>5, <1>6 DEF CardMove

LEMMA LapseMove ==
  ASSUME NEW s, NEW t, Balanced(s.events, s.rewards), Balanced(t.events, t.rewards),
         s.rewards \in Seq(Reward), Units(t) = Units(s), NEW r \in InStatus(s.rewards, "redeemed"),
         InStatus(t.rewards, "earned") = InStatus(s.rewards, "earned"),
         InStatus(t.rewards, "redeemed") = InStatus(s.rewards, "redeemed") \ {r}
  PROVE  CardMove(s, t)
<1>1. /\ IsFiniteSet(InStatus(s.rewards, "redeemed")) /\ Have(s, "redeemed") \in Nat
      /\ Required \in Nat
  BY Numbers, RequiredAssumption DEF Have
<1>2. Have(t, "redeemed") = Have(s, "redeemed") - 1
  BY <1>1, FS_RemoveElement DEF Have
<1>3. Have(s, "redeemed") # 0
  BY <1>1, FS_EmptySet DEF Have
<1>4. Have(t, "earned") = Have(s, "earned") /\ Have(s, "earned") \in Nat
  BY DEF Have, Balanced
<1>5. /\ Units(s) \in Int /\ Left(s) \in Int /\ Left(t) \in Int
      /\ Units(s) = Left(s) + Required * (Have(s, "earned") + Have(s, "redeemed"))
      /\ Units(s) = Left(t) + Required * (Have(s, "earned") + Have(s, "redeemed") - 1)
  <2>1. Units(t) = Left(t) + Required * (Have(t, "earned") + Have(t, "redeemed"))
    BY DEF Balanced, Units, Left, Have
  <2>2. Have(t, "earned") + Have(t, "redeemed") = Have(s, "earned") + Have(s, "redeemed") - 1
    BY <1>1, <1>2, <1>4
  <2> QED
    BY <2>1, <2>2 DEF Balanced, Units, Left, Have
<1>6. Required * (Have(s, "earned") + Have(s, "redeemed") - 1) =
        Required * (Have(s, "earned") + Have(s, "redeemed")) - Required
  BY <1>1, <1>4
<1>7. Required * (Have(s, "earned") + Have(s, "redeemed")) \in Int
  BY <1>1, <1>4
<1>8. Left(t) = Left(s) + Required
  BY <1>1, <1>5, <1>6, <1>7
<1> QED
  BY <1>1, <1>2, <1>3, <1>4, <1>8 DEF CardMove

\* A transaction ends with its commit or its rollback.
LEMMA Closing ==
  ASSUME LedgerInv, [Next]_vars, tx # Idle, tx' = Idle
  PROVE  Commit \/ Rollback
<1>1. tx \in Tx
  BY OpenTx DEF LedgerInv
<1>2. ~UpdateProgress /\ ~EarnReward /\ ~ReadSummary /\ ~WriteSummary
  BY <1>1 DEF UpdateProgress, EarnReward, ReadSummary, WriteSummary, Tx, Idle
<1>3. \A t : ~RecordPurchase(t) /\ ~RecordReturn(t)
  BY <1>1 DEF RecordPurchase, RecordReturn, Handled, Tx, Idle
<1>4. \A r : ~BeginRedeem(r) /\ ~BeginRevoke(r)
  BY DEF BeginRedeem, BeginRevoke, BeginVisit
<1>5. \A s : ~Redeem(s) /\ ~RedeemFails(s) /\ ~ExpireApply(s)
  BY DEF Redeem, RedeemFails, ExpireApply, EndVisit
<1> QED
  BY <1>2, <1>3, <1>4, <1>5 DEF Next, CheckOrder, SkipOrder, BeginOrder, MayClaim, BeginReturns,
     BeginManual, BeginExpire, ExpireScan, ExpireAbort, Tick, vars

\* A redemption uses a reward; a revocation is a trade, or takes back what was used.
LEMMA VisitMove ==
  ASSUME NEW a, NEW b, Balanced(a.events, a.rewards), Balanced(b.events, b.rewards),
         a.events \in Seq(Row), a.rewards \in Seq(Reward), Sound(a.events, a.rewards),
         Charged(a.events, a.rewards), NEW s \in visits, s \in Visit, Expirable(a.rewards),
         b.events = EventsAfter(a.events, s.reward, s.to),
         b.rewards = SetStatus(a.rewards, s.reward, s.to)
  PROVE  CardMove(a, b)
<1> DEFINE r == s.reward
<1>0. /\ r \in Ids(a.rewards) /\ s.to \in {"redeemed", "revoked"}
      /\ a.rewards[r].status # "in_progress"
      /\ s.to = "redeemed" => a.rewards[r].status = "earned"
  BY VisitOf
<1> HIDE DEF r
<1>1. CASE s.to = "redeemed"
  <2>1. r \in InStatus(a.rewards, "earned") /\ b.events = a.events
    BY <1>0, <1>1 DEF EventsAfter, InStatus
  <2>2. /\ InStatus(b.rewards, "earned") = InStatus(a.rewards, "earned") \ {r}
        /\ InStatus(b.rewards, "redeemed") = InStatus(a.rewards, "redeemed") \cup {r}
    BY <1>1, <2>1, CardRedeem DEF r
  <2> QED
    BY <2>1, <2>2, UseMove
<1>2. CASE s.to = "revoked"
  <2>1. b.events = Unlock(a.events, r) /\ b.rewards = SetStatus(a.rewards, r, "revoked")
    BY <1>2 DEF EventsAfter, r
  <2>2. \A st \in {"earned", "redeemed"} : InStatus(b.rewards, st) = InStatus(a.rewards, st) \ {r}
    BY <1>0, <2>1, ChargedRevoke
  <2>3. CASE r \notin InStatus(a.rewards, "redeemed")
    BY <2>2, <2>3, TradeMove
  <2>4. CASE r \in InStatus(a.rewards, "redeemed")
    <3>1. r \notin InStatus(a.rewards, "earned")
      BY <2>4 DEF InStatus
    <3>2. SameRecords(a.events, b.events)
      BY <2>1, UnlockSame
    <3>3. Units(b) = Units(a)
      <4>1. b.events \in Seq(Row) /\ Len(b.events) = Len(a.events)
        BY <3>2 DEF SameRecords
      <4>2. IsTable(a.events, Row) /\ IsTable(b.events, Row)
        BY <4>1, RowTable
      <4>3. \A i \in 1..Len(a.events) : /\ i \in Roots(a.events) <=> i \in Roots(b.events)
                                        /\ a.events[i].qty = b.events[i].qty
        BY <3>2, <4>1 DEF Roots, SameRecords, SameRecord, Ids
      <4> QED
        BY <4>1, <4>2, <4>3, QtySame DEF Units
    <3>4. /\ InStatus(b.rewards, "earned") = InStatus(a.rewards, "earned")
          /\ InStatus(b.rewards, "redeemed") = InStatus(a.rewards, "redeemed") \ {r}
      BY <2>2, <3>1
    <3> QED
      BY <2>4, <3>3, <3>4, LapseMove
  <2> QED
    BY <2>3, <2>4
<1> QED
  BY <1>0, <1>1, <1>2

\* Every step of the ledger leaves the committed tables as they are or moves the card.
LEMMA CardMoves ==
  ASSUME LedgerInv, SplitInv, CardInv, [Next]_vars
  PROVE  Committed' = Committed \/ CardMove(Committed, Committed')
<1> DEFINE a == Committed
           b == Committed'
<1>0. /\ Typed /\ events \in Seq(Row) /\ rewards \in Seq(Reward)
      /\ saved.events \in Seq(Row) /\ saved.rewards \in Seq(Reward)
  BY DEF LedgerInv, Typed, Tables
<1>1. Balanced(a.events, a.rewards)
  BY CommittedBooks
<1>2. Balanced(b.events, b.rewards)
  <2>1. CASE tx' = Idle
    BY <2>1, CardNext, BooksBalance DEF Committed, Snapshot
  <2>2. CASE tx' # Idle
    BY <2>2, CardNext, BooksBalance DEF Committed
  <2> QED
    BY <2>1, <2>2
<1>3. tx = Idle => a.events = events /\ a.rewards = rewards
  BY DEF Committed, Snapshot
<1>4. tx # Idle => a.events = saved.events /\ a.rewards = saved.rewards
  BY DEF Committed
<1>5. tx' = Idle => b.events = events' /\ b.rewards = rewards'
  BY DEF Committed, Snapshot
<1>6. tx' # Idle => b.events = saved'.events /\ b.rewards = saved'.rewards
  BY DEF Committed
<1>7. /\ tx = Idle /\ tx' # Idle /\ saved' = Snapshot => b = a
      /\ tx # Idle /\ tx' # Idle /\ saved' = saved => b = a
  BY DEF Committed
<1> HIDE DEF a, b
<1>8. ASSUME InStatus(b.rewards, "redeemed") = InStatus(a.rewards, "redeemed")
      PROVE  CardMove(a, b)
  BY <1>1, <1>2, <1>8, TradeMove
<1>9. ASSUME NEW s \in visits, Ending(s) PROVE CardMove(a, b)
  <2>1. tx' = tx /\ s \in Visit
    BY <1>0, <1>9 DEF Ending, EndVisit, Typed
  <2>2. CASE tx = Idle
    <3>1. /\ events' = EventsAfter(events, s.reward, s.to)
          /\ rewards' = SetStatus(rewards, s.reward, s.to)
      BY <1>9 DEF Ending, EndVisit
    <3>2. Sound(events, rewards) /\ Charged(events, rewards) /\ Expirable(rewards)
      BY DEF LedgerInv, CardInv
    <3> QED
      BY <1>0, <1>1, <1>2, <1>3, <1>5, <2>1, <2>2, <3>1, <3>2, VisitMove
  <2>3. CASE tx # Idle
    <3>1. /\ saved'.events = EventsAfter(saved.events, s.reward, s.to)
          /\ saved'.rewards = SetStatus(saved.rewards, s.reward, s.to)
      BY <1>0, <1>9, <2>3, SavedEnd
    <3>2. /\ Sound(saved.events, saved.rewards) /\ Charged(saved.events, saved.rewards)
          /\ Expirable(saved.rewards)
      BY <2>3 DEF LedgerInv, CardInv
    <3> QED
      BY <1>0, <1>1, <1>2, <1>4, <1>6, <2>1, <2>3, <3>1, <3>2, VisitMove
  <2> QED
    BY <2>2, <2>3
<1>10. CASE tx' # Idle
  <2>1. \/ tx = Idle /\ saved' = Snapshot
        \/ tx # Idle /\ saved' = saved
        \/ tx # Idle /\ \E s \in visits : Ending(s)
    BY <1>10, SavedSteps
  <2> QED
    BY <1>7, <1>9, <1>10, <2>1 DEF a, b
<1>11. CASE tx # Idle /\ tx' = Idle
  <2>1. \/ rewards' = rewards \/ rewards' = saved.rewards
    <3>1. Commit \/ Rollback
      BY <1>11, Closing
    <3> QED
      BY <3>1 DEF Commit, Rollback
  <2>2. InStatus(rewards, "redeemed") = InStatus(saved.rewards, "redeemed")
    BY <1>11, BehindStands DEF LedgerInv
  <2>3. CardMove(a, b)
    BY <1>4, <1>5, <1>8, <1>11, <2>1, <2>2
  <2> QED
    BY <2>3 DEF a, b
<1>12. CASE tx = Idle /\ tx' = Idle
  <2>1. rewards' = rewards \/ \E s \in visits : Ending(s)
    BY <1>12, Writers DEF UpdateProgress, EarnReward, Rollback
  <2>2. CardMove(a, b)
    BY <1>3, <1>5, <1>8, <1>9, <1>12, <2>1
  <2> QED
    BY <2>2 DEF a, b
<1> QED
  BY <1>10, <1>11, <1>12

LEMMA CardInit == Init => CardInv /\ SplitInv /\ Card!Init
<1> SUFFICES ASSUME Init PROVE CardInv /\ SplitInv /\ Card!Init
  OBVIOUS
<1>1. Ids(<<>>) = {} /\ <<>> \in Seq(Row) /\ <<>> \in Seq(Reward)
  BY DEF Ids
<1>2. /\ Roots(<<>>) = {} /\ Leaves(<<>>) = {} /\ Spent(<<>>) = {} /\ Unspent(<<>>) = {}
      /\ Stand(<<>>) = {} /\ \A st : InStatus(<<>>, st) = {}
  BY <1>1 DEF Roots, Leaves, Spent, Unspent, Stand, InStatus
<1>3. Qty(<<>>, {}) = 0 /\ Cardinality({}) = 0
  BY <1>1, QtyNone, FS_EmptySet
<1>4. Required * 0 = 0
  BY RequiredAssumption
<1>5. Conserved(<<>>) /\ Charged(<<>>, <<>>) /\ SplitSound(<<>>)
  BY <1>1, <1>2, <1>3, <1>4 DEF Conserved, Charged, SplitSound
<1>6. events = <<>> /\ rewards = <<>> /\ tx = Idle
  BY DEF Init
<1>7. Committed.events = <<>> /\ Committed.rewards = <<>>
  BY <1>6 DEF Committed, Snapshot
<1> QED
  BY <1>2, <1>3, <1>5, <1>6, <1>7 DEF CardInv, SplitInv, Card!Init, Number

LEMMA CardAlways == Spec => [](LedgerInv /\ SplitInv /\ CardInv)
BY CardInit, SplitStep, CardStep, LedgerInit, LedgerStep, PTL DEF Spec

LEMMA CardNextMoves ==
  LedgerInv /\ SplitInv /\ CardInv /\ [Next]_vars => (Committed' = Committed \/ Card!Next)
<1> SUFFICES ASSUME LedgerInv, SplitInv, CardInv, [Next]_vars, Committed' # Committed
             PROVE  Card!Next
  OBVIOUS
<1>1. CardMove(Committed, Committed')
  BY CardMoves
<1> QED
  BY <1>1 DEF CardMove, Units, Left, Have, Card!Next, Card!Trade, Card!Use, Card!Lapse, Number,
     Roots, Unspent, InStatus, Qty, Superseded, Ids

\* The committed tables keep a punch card: each step of the ledger leaves them as they
\* are, or trades, uses or gives back whole rewards.  Splits of splits, returns, rewards
\* that expire, redemptions next to a purchase and rollbacks included (reward-progress-service.js,
\* reward-split-service.js, expiration-service.js).
THEOREM CardKept == Spec => KeepsCard
<1>1. Spec => [][Committed' = Committed \/ Card!Next]_vars
  BY CardNextMoves, CardAlways, PTL DEF Spec
<1> QED
  BY <1>1, CardInit, PTL DEF Spec, KeepsCard

\* The ledger implements the punch card.
THEOREM ImplementsCard == Spec => Card!Spec
<1>1. LedgerInv /\ SplitInv /\ CardInv /\ [Next]_vars
        => [Card!Next]_<<Qty(Committed.events, Roots(Committed.events)),
                        Qty(Committed.events, Unspent(Committed.events)),
                        Number("earned"), Number("redeemed")>>
  <2> SUFFICES ASSUME Committed' = Committed
               PROVE  UNCHANGED <<Qty(Committed.events, Roots(Committed.events)),
                                  Qty(Committed.events, Unspent(Committed.events)),
                                  Number("earned"), Number("redeemed")>>
    BY CardNextMoves
  <2> QED
    BY DEF Number, Roots, Unspent, InStatus, Qty, Superseded, Ids
<1> QED
  BY <1>1, CardAlways, CardInit, PTL DEF Spec, Card!Spec

\* No unit is made or lost: in the committed tables, what was bought and not returned is
\* what pays for no reward, plus Required units for each reward that stands.
THEOREM UnitsAccountedFor ==
  Spec => [](Qty(Committed.events, Roots(Committed.events)) =
               Qty(Committed.events, Unspent(Committed.events))
               + Required * (Number("earned") + Number("redeemed")))
<1>1. LedgerInv /\ SplitInv /\ CardInv =>
        Qty(Committed.events, Roots(Committed.events)) =
          Qty(Committed.events, Unspent(Committed.events))
          + Required * (Number("earned") + Number("redeemed"))
  BY CommittedBooks DEF Balanced, Number
<1> QED
  BY <1>1, CardAlways, PTL
=============================================================================
