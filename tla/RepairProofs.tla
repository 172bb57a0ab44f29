----------------------------- MODULE RepairProofs -----------------------------
(***************************************************************************)
(* What the two daily jobs repair.  A reconciliation of the committed      *)
(* inventory that nothing disturbs leaves rows and counts exact, and an    *)
(* application of the expiry discounts leaves what Square discounts and    *)
(* the prices recorded as the tiers say, whatever webhooks, failures and   *)
(* restarts left behind; and neither undoes what it has repaired.  For all *)
(* invoices, items, variations, tiers, workers and runners.                *)
(***************************************************************************)
EXTENDS Expiry, FiniteSetTheorems, WellFoundedInduction, TLAPS

CONSTANTS Invoices, Stocked, Workers, NoInvoice
VARIABLES square, committed, reserved, tasks

Stock == INSTANCE CommittedInventory WITH Items <- Stocked
-----------------------------------------------------------------------------
(* Numbers *)

LEMMA Least ==
  ASSUME NEW T, T \subseteq Nat, T # {}
  PROVE  \E m \in T : \A k \in T : m <= k
<1> DEFINE Less == OpToRel(<, Nat)
<1>1. IsWellFoundedOn(Less, Nat)
  BY NatLessThanWellFounded
<1> HIDE DEF Less
<1>2. PICK m \in T : \A k \in T : ~(<<k, m>> \in Less)
  BY <1>1, WFMin
<1>3. ASSUME NEW k \in T PROVE m <= k
  <2>1. <<k, m>> \in Nat \X Nat
    OBVIOUS
  <2>2. ~(k < m)
    BY <2>1, <1>2 DEF Less, OpToRel
  <2> QED
    BY <2>2
<1> QED
  BY <1>3

-----------------------------------------------------------------------------
(* The sums of the counts *)

\* The sum over s, which takes p[s] out of s first.
Sum(f, x, p, s) == IF s = {} THEN 0 ELSE x[p[s]] + f[s \ {p[s]}]

\* f[s] is the sum of x over s, for the subsets of S with at most n elements.
Sums(f, x, p, S, n) ==
  \A s \in SUBSET S : Cardinality(s) <= n => f[s] = Sum(f, x, p, s)

Picks(p, S) == \A s \in SUBSET S : s # {} => p[s] \in s

LEMMA Smaller ==
  ASSUME NEW S, IsFiniteSet(S), NEW s \in SUBSET S, NEW p, Picks(p, S)
  PROVE  /\ Cardinality(s) \in Nat
         /\ Cardinality(S) \in Nat /\ Cardinality(s) <= Cardinality(S)
         /\ s = {} <=> Cardinality(s) = 0
         /\ s # {} => /\ p[s] \in S /\ s \ {p[s]} \in SUBSET S
                      /\ Cardinality(s \ {p[s]}) = Cardinality(s) - 1
<1>1. IsFiniteSet(s) /\ Cardinality(s) <= Cardinality(S)
  BY FS_Subset
<1>2. s # {} => p[s] \in s
  BY DEF Picks
<1> QED
  BY <1>1, <1>2, FS_CardinalityType, FS_RemoveElement, FS_EmptySet

LEMMA SumsExist ==
  ASSUME NEW S, IsFiniteSet(S), NEW x \in [S -> Nat], NEW p, Picks(p, S)
  PROVE  \E f : Sums(f, x, p, S, Cardinality(S))
<1> DEFINE Bad == {n \in Nat : ~ \E f \in [SUBSET S -> Nat] : Sums(f, x, p, S, n)}
<1>1. SUFFICES ASSUME Bad # {} PROVE FALSE
  <2>1. Cardinality(S) \in Nat
    BY FS_CardinalityType
  <2> QED
    BY <1>1, <2>1
<1>2. PICK m \in Bad : \A k \in Bad : m <= k
  BY <1>1, Least
<1>3. m # 0
  <2> DEFINE z == [s \in SUBSET S |-> 0]
  <2>1. z \in [SUBSET S -> Nat]
    OBVIOUS
  <2>2. ASSUME NEW s \in SUBSET S, Cardinality(s) <= 0
        PROVE  z[s] = Sum(z, x, p, s)
    <3>1. s = {}
      <4>1. Cardinality(s) \in Nat /\ (s = {} <=> Cardinality(s) = 0)
        BY Smaller
      <4> QED
        BY <4>1, <2>2
    <3> QED
      BY <3>1 DEF Sum
  <2>3. Sums(z, x, p, S, 0)
    BY <2>2 DEF Sums
  <2> HIDE DEF z
  <2> QED
    BY <2>1, <2>3, <1>2
<1>4. PICK f \in [SUBSET S -> Nat] : Sums(f, x, p, S, m - 1)
  <2>1. m - 1 \in Nat /\ ~ (m <= m - 1)
    BY <1>2, <1>3
  <2>2. m - 1 \notin Bad
    <3> HIDE DEF Bad
    <3> QED
      BY <2>1, <1>2
  <2> QED
    BY <2>1, <2>2
<1> DEFINE g == [s \in SUBSET S |-> Sum(f, x, p, s)]
<1>5. ASSUME NEW s \in SUBSET S PROVE Sum(f, x, p, s) \in Nat
  <2>1. s # {} => p[s] \in S /\ s \ {p[s]} \in SUBSET S
    BY DEF Picks
  <2> QED
    BY <2>1 DEF Sum
<1>6. g \in [SUBSET S -> Nat] /\ \A s \in SUBSET S : g[s] = Sum(f, x, p, s)
  BY <1>5
<1> HIDE DEF g
<1>7. ASSUME NEW s \in SUBSET S, Cardinality(s) <= m
      PROVE  g[s] = Sum(g, x, p, s)
  <2>1. CASE s = {}
    BY <2>1, <1>6 DEF Sum
  <2>2. CASE s # {}
    <3> DEFINE r == s \ {p[s]}
    <3>1. r \in SUBSET S /\ Cardinality(r) <= m - 1
      BY <2>2, <1>2, <1>7, Smaller
    <3>2. g[r] = f[r]
      BY <3>1, <1>4, <1>6 DEF Sums
    <3> QED
      BY <3>2, <2>2, <1>6 DEF Sum
  <2> QED
    BY <2>1, <2>2
<1>8. Sums(g, x, p, S, m)
  BY <1>7 DEF Sums
<1> QED
  BY <1>2, <1>6, <1>8

LEMMA SumsAreNat ==
  ASSUME NEW S, IsFiniteSet(S), NEW x \in [S -> Nat], NEW p, Picks(p, S),
         NEW f, Sums(f, x, p, S, Cardinality(S)), NEW s \in SUBSET S
  PROVE  f[s] \in Nat
<1> DEFINE Bad == {n \in Nat : \E r \in SUBSET S : Cardinality(r) = n /\ f[r] \notin Nat}
<1>1. SUFFICES ASSUME Bad # {} PROVE FALSE
  BY <1>1, Smaller
<1>2. PICK m \in Bad : \A k \in Bad : m <= k
  BY <1>1, Least
<1>3. PICK r \in SUBSET S : Cardinality(r) = m /\ f[r] \notin Nat
  BY <1>2
<1>4. f[r] = Sum(f, x, p, r)
  BY Smaller DEF Sums
<1>5. r # {}
  BY <1>3, <1>4 DEF Sum
<1>6. /\ p[r] \in S /\ r \ {p[r]} \in SUBSET S
      /\ Cardinality(r \ {p[r]}) = m - 1 /\ m - 1 \in Nat
  BY <1>3, <1>5, Smaller
<1>7. f[r \ {p[r]}] \in Nat
  BY <1>2, <1>6
<1> QED
  BY <1>3, <1>4, <1>5, <1>6, <1>7 DEF Sum

\* f sums the units of item v, in rows c, over sets of invoices, as the fold does.
Adds(f, c, v) ==
  f = [s \in SUBSET Invoices |->
         IF s = {} THEN 0
         ELSE LET i == CHOOSE i \in s : TRUE IN c[i][v] + f[s \ {i}]]

SumOf(c, v) == (CHOOSE f : Adds(f, c, v))[Invoices]

LEMMA TotalIs == \A v : Stock!Total(v) = SumOf(committed, v)
BY DEF Stock!Total, Stock!MapThenSumSet, Stock!MapThenFoldSet, SumOf, Adds

LEMMA SumIsNat ==
  ASSUME IsFiniteSet(Invoices), NEW v \in Stocked,
         NEW c \in [Invoices -> [Stocked -> Nat]]
  PROVE  SumOf(c, v) \in Nat
<1> DEFINE x == [i \in Invoices |-> c[i][v]]
           p == [s \in SUBSET Invoices |-> CHOOSE i \in s : TRUE]
<1>1. x \in [Invoices -> Nat] /\ Picks(p, Invoices)
  BY DEF Picks
<1>2. ASSUME NEW f, NEW s \in SUBSET Invoices
      PROVE  Sum(f, x, p, s) = IF s = {} THEN 0
                               ELSE LET i == CHOOSE i \in s : TRUE IN c[i][v] + f[s \ {i}]
  BY DEF Sum
<1> HIDE DEF x, p
<1>3. ASSUME NEW f, Adds(f, c, v)
      PROVE  Sums(f, x, p, Invoices, Cardinality(Invoices))
  <2>1. ASSUME NEW s \in SUBSET Invoices
        PROVE  f[s] = Sum(f, x, p, s)
    BY <1>2, <1>3, SMTT(30) DEF Adds
  <2> QED
    BY <2>1 DEF Sums
<1>4. PICK f : Sums(f, x, p, Invoices, Cardinality(Invoices))
  BY <1>1, SumsExist
<1> DEFINE g == [s \in SUBSET Invoices |-> Sum(f, x, p, s)]
<1>5. Adds(g, c, v)
  <2>1. ASSUME NEW s \in SUBSET Invoices PROVE g[s] = f[s]
    BY <1>1, <1>4, Smaller DEF Sums
  <2>2. ASSUME NEW s \in SUBSET Invoices PROVE Sum(g, x, p, s) = g[s]
    <3>1. s # {} => s \ {p[s]} \in SUBSET Invoices
      OBVIOUS
    <3> QED
      BY <2>1, <3>1 DEF Sum
  <2> QED
    BY <1>2, <2>2 DEF Adds
<1> DEFINE sum == CHOOSE h : Adds(h, c, v)
<1>6. Adds(sum, c, v)
  BY <1>5
<1>7. SumOf(c, v) = sum[Invoices]
  BY DEF SumOf
<1> HIDE DEF sum
<1> QED
  BY <1>1, <1>3, <1>6, <1>7, SumsAreNat

-----------------------------------------------------------------------------
(* Types of the committed inventory *)

LEMMA MoveType ==
  ASSUME Stock!TypeOK, NEW w \in Workers, NEW t \in Stock!Task, NEW W, NEW S,
         Stock!Move(w, t, W, S)
  PROVE  tasks' \in [Workers -> Stock!Task]
<1>1. ASSUME NEW u \in Workers
      PROVE  [tasks[u] EXCEPT !.sees = @ \ S] \in Stock!Task
  BY DEF Stock!TypeOK, Stock!Task
<1> QED
  BY <1>1 DEF Stock!Move, Stock!TypeOK

LEMMA StockIdle == Stock!Idle \in Stock!Task /\ Stock!Zero \in [Stocked -> Nat]
BY DEF Stock!Idle, Stock!Task, Stock!Steps, Stock!Zero

LEMMA StockTypesStep ==
  ASSUME IsFiniteSet(Invoices), Stock!TypeOK, [Stock!Next]_(Stock!vars)
  PROVE  Stock!TypeOK'
<1> USE StockIdle
<1>1. ASSUME NEW w \in Workers
      PROVE  tasks[w] \in Stock!Task
  BY DEF Stock!TypeOK
<1>2. CASE UNCHANGED Stock!vars
  BY <1>2 DEF Stock!TypeOK, Stock!vars
<1>3. ASSUME NEW i \in Invoices, Stock!Issue(i) \/ Stock!Amend(i) \/ Stock!Settle(i)
      PROVE  Stock!TypeOK'
  BY <1>3 DEF Stock!Issue, Stock!Amend, Stock!Settle, Stock!TypeOK
<1>4. ASSUME NEW v \in Stocked, Stock!SyncInventory(v)
      PROVE  Stock!TypeOK'
  BY <1>4 DEF Stock!SyncInventory, Stock!TypeOK
<1>5. ASSUME NEW w \in Workers, NEW i \in Invoices, Stock!OpenWebhook(w, i)
      PROVE  Stock!TypeOK'
  <2> DEFINE t == [Stock!Idle EXCEPT !.do = "write", !.inv = i, !.lines = square[i].lines]
  <2>1. t \in Stock!Task
    BY DEF Stock!TypeOK, Stock!Task, Stock!Steps, Stock!Idle, Stock!Zero
  <2> HIDE DEF t
  <2> QED
    BY <1>5, <2>1, MoveType DEF Stock!OpenWebhook, Stock!Proceed, Stock!TypeOK, t
<1>6. ASSUME NEW w \in Workers, NEW i \in Invoices, Stock!ClosedWebhook(w, i)
      PROVE  Stock!TypeOK'
  <2> DEFINE t == [Stock!Idle EXCEPT !.do = "clear"]
  <2>1. t \in Stock!Task
    BY DEF Stock!Task, Stock!Steps, Stock!Idle, Stock!Zero
  <2> HIDE DEF t
  <2> QED
    BY <1>6, <2>1, MoveType DEF Stock!ClosedWebhook, Stock!TypeOK, t
<1>7. ASSUME NEW w \in Workers, NEW i \in Invoices, Stock!FetchFails(w, i)
      PROVE  Stock!TypeOK'
  <2> DEFINE t == [tasks[w] EXCEPT !.todo = @ \ {i}]
  <2>1. t \in Stock!Task
    BY <1>1 DEF Stock!Task
  <2> HIDE DEF t
  <2> QED
    BY <1>7, <2>1, MoveType DEF Stock!FetchFails, Stock!Proceed, Stock!TypeOK, t
<1>8. ASSUME NEW w \in Workers, Stock!ListInvoices(w)
      PROVE  Stock!TypeOK'
  <2> DEFINE t == [Stock!Idle EXCEPT !.do = "stale", !.todo = Stock!Open]
  <2>1. t \in Stock!Task
    BY DEF Stock!Task, Stock!Steps, Stock!Idle, Stock!Zero, Stock!Open
  <2> HIDE DEF t
  <2> QED
    BY <1>8, <2>1, MoveType DEF Stock!ListInvoices, Stock!Proceed, Stock!TypeOK, t
<1>9. ASSUME NEW w \in Workers, Stock!Stop(w)
      PROVE  Stock!TypeOK'
  BY <1>9, MoveType DEF Stock!Stop, Stock!Proceed, Stock!TypeOK
<1>10. ASSUME NEW w \in Workers, Stock!DeleteStale(w)
       PROVE  Stock!TypeOK'
  <2> DEFINE t == [tasks[w] EXCEPT !.do = "fetch"]
  <2>1. t \in Stock!Task
    BY <1>1 DEF Stock!Task, Stock!Steps
  <2> HIDE DEF t
  <2>2. tasks' \in [Workers -> Stock!Task]
    BY <1>10, <2>1, MoveType DEF Stock!DeleteStale, t
  <2> QED
    BY <1>10, <2>2 DEF Stock!DeleteStale, Stock!TypeOK
<1>11. ASSUME NEW w \in Workers, Stock!Listed(w)
       PROVE  Stock!TypeOK'
  <2> DEFINE t == [Stock!Idle EXCEPT !.do = "clear"]
  <2>1. t \in Stock!Task
    BY DEF Stock!Task, Stock!Steps, Stock!Idle, Stock!Zero
  <2> HIDE DEF t
  <2> QED
    BY <1>11, <2>1, MoveType DEF Stock!Listed, Stock!Proceed, Stock!TypeOK, t
<1>12. ASSUME NEW w \in Workers, Stock!BeginWrite(w)
       PROVE  Stock!TypeOK'
  <2> DEFINE i == tasks[w].inv
             t == [tasks[w] EXCEPT !.do = "insert", !.sees = Stock!Committing(i),
                                   !.holds = Stock!Held(Stock!Writing(w, i)) = {}]
  <2>1. t \in Stock!Task
    BY <1>1 DEF Stock!Task, Stock!Steps, Stock!Committing
  <2> HIDE DEF t
  <2> QED
    BY <1>12, <2>1, MoveType DEF Stock!BeginWrite, Stock!Proceed, Stock!TypeOK, t
<1>13. ASSUME NEW w \in Workers, Stock!EndWrite(w)
       PROVE  Stock!TypeOK'
  <2> DEFINE t == IF tasks[w].todo = {} THEN [Stock!Idle EXCEPT !.do = "clear"]
                  ELSE [Stock!Idle EXCEPT !.do = "fetch", !.todo = tasks[w].todo]
  <2>1. t \in Stock!Task
    BY <1>1 DEF Stock!Task, Stock!Steps, Stock!Idle, Stock!Zero
  <2> HIDE DEF t
  <2>2. tasks' \in [Workers -> Stock!Task]
    BY <1>13, <2>1, MoveType DEF Stock!EndWrite, t
  <2>3. tasks[w].inv \in Invoices =>
          [v \in Stocked |-> Stock!Units(w, v)] \in [Stocked -> Nat]
    BY DEF Stock!TypeOK, Stock!Units
  <2>4. committed' \in [Invoices -> [Stocked -> Nat]]
    BY <1>13, <2>3 DEF Stock!EndWrite, Stock!TypeOK
  <2> QED
    BY <1>13, <2>2, <2>4 DEF Stock!EndWrite, Stock!TypeOK
<1>14. ASSUME NEW w \in Workers, Stock!Clear(w)
       PROVE  Stock!TypeOK'
  <2> DEFINE t == [tasks[w] EXCEPT !.do = "fill", !.sees = {v \in Stocked : reserved[v] > 0},
                                   !.holds = Stock!Held(Stock!Rebuilding(w)) = {}]
  <2>1. t \in Stock!Task
    BY <1>1 DEF Stock!Task, Stock!Steps
  <2> HIDE DEF t
  <2> QED
    BY <1>14, <2>1, MoveType DEF Stock!Clear, Stock!Proceed, Stock!TypeOK, t
<1>15. ASSUME NEW w \in Workers, Stock!Fill(w)
       PROVE  Stock!TypeOK'
  <2> DEFINE t == [tasks[w] EXCEPT !.do = "commit", !.sums = [v \in Stocked |-> Stock!Total(v)]]
  <2>1. [v \in Stocked |-> Stock!Total(v)] \in [Stocked -> Nat]
    BY TotalIs, SumIsNat DEF Stock!TypeOK
  <2>2. t \in Stock!Task
    BY <1>1, <2>1 DEF Stock!Task, Stock!Steps
  <2> HIDE DEF t
  <2> QED
    BY <1>15, <2>2, MoveType DEF Stock!Fill, Stock!Proceed, Stock!TypeOK, t
<1>16. ASSUME NEW w \in Workers, Stock!Commit(w)
       PROVE  Stock!TypeOK'
  <2>1. tasks' \in [Workers -> Stock!Task]
    BY <1>16, MoveType DEF Stock!Commit
  <2>2. tasks[w].sums \in [Stocked -> Nat]
    BY <1>1 DEF Stock!Task
  <2>3. reserved' \in [Stocked -> Nat]
    BY <1>16, <2>2 DEF Stock!Commit, Stock!TypeOK
  <2> QED
    BY <1>16, <2>1, <2>3 DEF Stock!Commit, Stock!TypeOK
<1>17. ASSUME NEW w \in Workers, NEW i \in Invoices, Stock!FetchOrder(w, i)
       PROVE  Stock!TypeOK'
  <2> DEFINE t == IF square[i].lines = {} THEN [tasks[w] EXCEPT !.todo = @ \ {i}]
                  ELSE [tasks[w] EXCEPT !.do = "write", !.todo = @ \ {i}, !.inv = i,
                                        !.lines = square[i].lines]
  <2>1. square[i].lines \in SUBSET Stocked
    BY DEF Stock!TypeOK
  <2>2. t \in Stock!Task
    BY <1>1, <2>1 DEF Stock!Task, Stock!Steps
  <2> HIDE DEF t
  <2> QED
    BY <1>17, <2>2, MoveType DEF Stock!FetchOrder, Stock!Proceed, Stock!TypeOK, t
<1> QED
  BY <1>2, <1>3, <1>4, <1>5, <1>6, <1>7, <1>8, <1>9, <1>10, <1>11, <1>12, <1>13, <1>14,
     <1>15, <1>16, <1>17 DEF Stock!Next, Stock!Work

\* The rows, counts and tasks of the committed inventory have their types; a sum of units
\* is a number, however many invoices there are.
THEOREM StockTypes ==
  ASSUME IsFiniteSet(Invoices)
  PROVE  Stock!Spec => []Stock!TypeOK
<1>1. Stock!Init => Stock!TypeOK
  BY StockIdle DEF Stock!Init, Stock!TypeOK
<1>2. Stock!TypeOK /\ [Stock!Next]_(Stock!vars) => Stock!TypeOK'
  BY StockTypesStep
<1> QED
  BY <1>1, <1>2, PTL DEF Stock!Spec

-----------------------------------------------------------------------------
(* A reconciliation that nothing disturbs *)

\* The rows of invoice i are those of an open invoice, or none.
RightRows(i) ==
  /\ square[i].status = "open" =>
       \/ square[i].lines = {}
       \/ \A v \in Stocked : committed[i][v] = IF v \in square[i].lines THEN 1 ELSE 0
  /\ square[i].status # "open" => committed[i] = Stock!Zero

Listing(w) ==
  tasks[w] = [Stock!Idle EXCEPT !.do = "stale", !.todo = Stock!Open]

\* What a reconciliation has read is what is there, and what it has left is right.
TaskFits(w) ==
  LET t == tasks[w] IN
  /\ t.do = "stale" => Listing(w)
  /\ t.do \in {"fetch", "write", "insert"} => t.todo \subseteq Stock!Open
  /\ t.do = "fetch" => \A i \in Invoices \ t.todo : RightRows(i)
  /\ t.do \in {"write", "insert"} =>
       /\ t.inv \in Stock!Open \ t.todo
       /\ t.lines = square[t.inv].lines /\ t.lines # {}
       /\ \A i \in Invoices \ (t.todo \cup {t.inv}) : RightRows(i)
  /\ t.do = "insert" => t.sees = Stock!Committing(t.inv)
  /\ t.do \in {"clear", "fill", "commit"} => \A i \in Invoices : RightRows(i)
  /\ t.do \in {"fill", "commit"} => t.sees = {v \in Stocked : reserved[v] > 0}
  /\ t.do = "commit" => t.sums = [v \in Stocked |-> Stock!Total(v)]

Resting == \A w \in Workers : tasks[w].do = "idle"
OneTask == \A u, w \in Workers : tasks[u].do # "idle" /\ tasks[w].do # "idle" => u = w

RepairInv ==
  /\ Stock!TypeOK
  /\ OneTask
  /\ \A w \in Workers : TaskFits(w)
  /\ Resting => Stock!Exact

\* A worker that is alone goes on with its task, and waits for nobody.
LEMMA AloneMoves ==
  ASSUME Stock!TypeOK, OneTask, NEW w \in Workers, tasks[w].do # "idle",
         NEW W, NEW S, NEW t
  PROVE  /\ \A i : Stock!Writing(w, i) = {}
         /\ Stock!Rebuilding(w) = {}
         /\ Stock!Move(w, t, W, S) /\ W = {} => tasks' = [tasks EXCEPT ![w] = t]
<1>1. \A u \in Workers \ {w} : tasks[u].do = "idle"
  BY DEF OneTask
<1> QED
  BY <1>1 DEF Stock!Writing, Stock!Rebuilding, Stock!Move, Stock!TypeOK

\* What a step of w has to show, when w is the only one at work.
LEMMA AloneGoesOn ==
  ASSUME RepairInv, NEW w \in Workers, tasks[w].do # "idle", Stock!TypeOK',
         NEW t, t.do # "idle", tasks' = [tasks EXCEPT ![w] = t], TaskFits(w)'
  PROVE  RepairInv'
<1>1. \A u \in Workers \ {w} : tasks[u].do = "idle" /\ tasks'[u] = tasks[u]
  BY DEF RepairInv, OneTask, Stock!TypeOK
<1>2. tasks'[w] = t
  BY DEF RepairInv, Stock!TypeOK
<1>3. \A u \in Workers : TaskFits(u)'
  BY <1>1 DEF TaskFits
<1>4. OneTask'
  BY <1>1 DEF OneTask
<1>5. ~ Resting'
  BY <1>2 DEF Resting
<1> QED
  BY <1>3, <1>4, <1>5 DEF RepairInv

LEMMA SameRows ==
  ASSUME NEW i \in Invoices, square' = square, committed'[i] = committed[i]
  PROVE  RightRows(i)' <=> RightRows(i)
BY DEF RightRows, Stock!Zero

LEMMA TotalSame ==
  ASSUME committed' = committed
  PROVE  \A v : Stock!Total(v)' = Stock!Total(v)
<1>1. \A v : Stock!Total(v) = SumOf(committed, v)
  BY TotalIs
<1>2. \A v : Stock!Total(v)' = SumOf(committed', v)
  BY DEF Stock!Total, Stock!MapThenSumSet, Stock!MapThenFoldSet, SumOf, Adds
<1> QED
  BY <1>1, <1>2

\* A step of a task that writes nothing leaves all that is said of the tables.
LEMMA SameTables ==
  ASSUME UNCHANGED <<square, committed, reserved>>
  PROVE  /\ \A v : Stock!Total(v)' = Stock!Total(v)
         /\ Stock!Exact' <=> Stock!Exact
         /\ \A i \in Invoices : RightRows(i)' <=> RightRows(i)
         /\ Stock!Open' = Stock!Open
         /\ \A i : Stock!Committing(i)' = Stock!Committing(i)
<1>1. \A v : Stock!Total(v)' = Stock!Total(v)
  BY TotalSame
<1>2. Stock!Exact' <=> Stock!Exact
  BY <1>1 DEF Stock!Exact, Stock!Zero
<1> QED
  BY <1>1, <1>2, SameRows DEF Stock!Open, Stock!Committing

\* Every step of a calm system keeps the invariant; one that starts right stays right.
LEMMA RepairStep ==
  ASSUME IsFiniteSet(Invoices), RepairInv, [Stock!Calm]_(Stock!vars)
  PROVE  RepairInv' /\ (Stock!Exact => Stock!Exact')
<1> DEFINE Goal == RepairInv' /\ (Stock!Exact => Stock!Exact')
<1>0. Stock!TypeOK /\ Stock!TypeOK'
  <2>1. [Stock!Next]_(Stock!vars)
    BY DEF Stock!Calm, Stock!Next
  <2> QED
    BY <2>1, StockTypesStep DEF RepairInv
<1>1. CASE UNCHANGED Stock!vars
  <2>1. \A w \in Workers : TaskFits(w)'
    BY <1>1, SameTables DEF RepairInv, TaskFits, Listing, Stock!vars
  <2> QED
    BY <1>0, <1>1, <2>1, SameTables DEF RepairInv, OneTask, Resting, Stock!vars
<1>2. ASSUME NEW w \in Workers, Resting, Stock!ListInvoices(w)
      PROVE  Goal
  <2> DEFINE t == [Stock!Idle EXCEPT !.do = "stale", !.todo = Stock!Open]
  <2>1. tasks' = [tasks EXCEPT ![w] = t]
    BY <1>2 DEF Stock!ListInvoices, Stock!Proceed, Stock!Move, RepairInv, Stock!TypeOK
  <2>2. UNCHANGED <<square, committed, reserved>>
    BY <1>2 DEF Stock!ListInvoices
  <2>3. tasks'[w] = t /\ \A u \in Workers \ {w} : tasks'[u].do = "idle"
    BY <1>0, <1>2, <2>1 DEF Stock!TypeOK, Resting
  <2>4. t.do = "stale"
    BY DEF Stock!Idle
  <2>5. t = [Stock!Idle EXCEPT !.do = "stale", !.todo = Stock!Open']
    BY <2>2 DEF Stock!Open
  <2> HIDE DEF t
  <2>6. TaskFits(w)'
    BY <2>3, <2>4, <2>5 DEF TaskFits, Listing
  <2>7. \A u \in Workers : TaskFits(u)'
    BY <2>3, <2>6 DEF TaskFits
  <2>8. OneTask' /\ ~ Resting'
    BY <2>3, <2>4 DEF OneTask, Resting
  <2> QED
    BY <1>0, <2>2, <2>7, <2>8, SameTables DEF RepairInv
<1>3. ASSUME NEW w \in Workers, Stock!DeleteStale(w)
      PROVE  Goal
  <2> DEFINE t == [tasks[w] EXCEPT !.do = "fetch"]
  <2>1. tasks[w].do = "stale" /\ Listing(w)
    BY <1>3 DEF Stock!DeleteStale, RepairInv, TaskFits
  <2>2. tasks[w].todo = Stock!Open /\ t.do = "fetch" /\ t.todo = Stock!Open
    BY <2>1 DEF Listing, Stock!Idle
  <2> HIDE DEF t
  <2>3. \A u \in Workers \ {w} : tasks[u].do = "idle"
    BY <2>1 DEF RepairInv, OneTask
  <2>4. tasks' = [tasks EXCEPT ![w] = t]
    BY <1>0, <1>3, <2>3 DEF Stock!DeleteStale, Stock!Move, Stock!TypeOK, t
  <2>5. /\ UNCHANGED <<square, reserved>>
        /\ committed' = [i \in Invoices |-> IF i \in Invoices \ Stock!Open THEN Stock!Zero
                                            ELSE committed[i]]
    BY <1>3, <2>2 DEF Stock!DeleteStale
  <2>6. tasks'[w] = t /\ Stock!Open' = Stock!Open
    BY <1>0, <2>4, <2>5 DEF Stock!TypeOK, Stock!Open
  <2>7. ASSUME NEW i \in Invoices \ Stock!Open PROVE RightRows(i)'
    BY <2>5 DEF RightRows, Stock!Open, Stock!Zero
  <2>8. TaskFits(w)'
    BY <2>2, <2>6, <2>7 DEF TaskFits
  <2>9. RepairInv'
    BY <1>0, <2>1, <2>2, <2>4, <2>8, AloneGoesOn
  <2>10. ASSUME Stock!Exact PROVE Stock!Exact'
    <3>1. \A i \in Invoices \ Stock!Open : committed[i] = Stock!Zero
      BY <2>10 DEF Stock!Exact, Stock!Open
    <3>2. committed' = committed
      BY <1>0, <2>5, <3>1 DEF Stock!TypeOK
    <3>3. \A v : Stock!Total(v)' = Stock!Total(v)
      BY <3>2, TotalSame
    <3> QED
      BY <2>5, <2>10, <3>2, <3>3 DEF Stock!Exact, Stock!Zero
  <2> QED
    BY <2>9, <2>10
<1>4. ASSUME NEW w \in Workers, NEW i \in Invoices, Stock!FetchOrder(w, i)
      PROVE  Goal
  <2> DEFINE t == IF square[i].lines = {} THEN [tasks[w] EXCEPT !.todo = @ \ {i}]
                  ELSE [tasks[w] EXCEPT !.do = "write", !.todo = @ \ {i}, !.inv = i,
                                        !.lines = square[i].lines]
  <2>1. /\ tasks[w].do # "idle" /\ TaskFits(w)
        /\ UNCHANGED <<square, committed, reserved>>
    BY <1>4 DEF Stock!FetchOrder, RepairInv
  <2>2. tasks' = [tasks EXCEPT ![w] = t]
    BY <1>0, <1>4, <2>1, AloneMoves DEF Stock!FetchOrder, Stock!Proceed, RepairInv
  <2>3. tasks'[w] = t
    BY <1>0, <2>2 DEF Stock!TypeOK
  <2>4. /\ t.do \in {"fetch", "write"}
        /\ t.todo = tasks[w].todo \ {i}
        /\ t.do = "fetch" => square[i].lines = {}
        /\ t.do = "write" => t.inv = i /\ t.lines = square[i].lines /\ t.lines # {}
    BY <1>0, <1>4 DEF Stock!FetchOrder, Stock!TypeOK, Stock!Task
  <2>7. /\ tasks[w].todo \subseteq Stock!Open /\ i \in tasks[w].todo
        /\ \A j \in Invoices \ tasks[w].todo : RightRows(j)
    BY <1>4, <2>1 DEF Stock!FetchOrder, TaskFits
  <2>8. square[i].lines = {} => RightRows(i)
    BY <2>7 DEF RightRows, Stock!Open
  <2> HIDE DEF t
  <2>5. TaskFits(w)'
    BY <2>1, <2>3, <2>4, <2>7, <2>8, SameTables DEF TaskFits
  <2>6. RepairInv'
    BY <1>0, <2>1, <2>2, <2>4, <2>5, AloneGoesOn
  <2> QED
    BY <2>1, <2>6, SameTables
<1>5. ASSUME NEW w \in Workers, Stock!Listed(w)
      PROVE  Goal
  <2> DEFINE t == [Stock!Idle EXCEPT !.do = "clear"]
  <2>1. /\ tasks[w].do # "idle" /\ TaskFits(w)
        /\ UNCHANGED <<square, committed, reserved>>
    BY <1>5 DEF Stock!Listed, RepairInv
  <2>2. tasks' = [tasks EXCEPT ![w] = t]
    BY <1>0, <1>5, <2>1, AloneMoves DEF Stock!Listed, Stock!Proceed, RepairInv
  <2>3. tasks'[w] = t
    BY <1>0, <2>2 DEF Stock!TypeOK
  <2>4. t.do = "clear"
    BY DEF Stock!Idle
  <2>7. \A i \in Invoices : RightRows(i)
    BY <1>5, <2>1 DEF Stock!Listed, TaskFits
  <2> HIDE DEF t
  <2>5. TaskFits(w)'
    BY <2>1, <2>3, <2>4, <2>7, SameTables DEF TaskFits
  <2>6. RepairInv'
    BY <1>0, <2>1, <2>2, <2>4, <2>5, AloneGoesOn
  <2> QED
    BY <2>1, <2>6, SameTables
<1>6. ASSUME NEW w \in Workers, Stock!BeginWrite(w)
      PROVE  Goal
  <2> DEFINE t == [tasks[w] EXCEPT !.do = "insert", !.sees = Stock!Committing(tasks[w].inv),
                                 !.holds = Stock!Held(Stock!Writing(w, tasks[w].inv)) = {}]
  <2>1. /\ tasks[w].do # "idle" /\ TaskFits(w)
        /\ UNCHANGED <<square, committed, reserved>>
    BY <1>6 DEF Stock!BeginWrite, RepairInv
  <2>2. tasks' = [tasks EXCEPT ![w] = t]
    BY <1>0, <1>6, <2>1, AloneMoves DEF Stock!BeginWrite, Stock!Proceed, RepairInv
  <2>3. tasks'[w] = t
    BY <1>0, <2>2 DEF Stock!TypeOK
  <2>4. /\ t.do = "insert" /\ t.todo = tasks[w].todo /\ t.inv = tasks[w].inv
        /\ t.lines = tasks[w].lines /\ t.sees = Stock!Committing(t.inv)
    BY <1>0 DEF Stock!TypeOK, Stock!Task
  <2>7. tasks[w].do = "write"
    BY <1>6 DEF Stock!BeginWrite
  <2> HIDE DEF t
  <2>5. TaskFits(w)'
    BY <2>1, <2>3, <2>4, <2>7, SameTables DEF TaskFits
  <2>6. RepairInv'
    BY <1>0, <2>1, <2>2, <2>4, <2>5, AloneGoesOn
  <2> QED
    BY <2>1, <2>6, SameTables
<1>7. ASSUME NEW w \in Workers, Stock!EndWrite(w)
      PROVE  Goal
  <2> DEFINE t == IF tasks[w].todo = {} THEN [Stock!Idle EXCEPT !.do = "clear"]
                  ELSE [Stock!Idle EXCEPT !.do = "fetch", !.todo = tasks[w].todo]
  <2>1. tasks[w].do = "insert" /\ TaskFits(w)
    BY <1>7 DEF Stock!EndWrite, RepairInv
  <2>6. PICK i \in Invoices : i = tasks[w].inv
    BY <2>1 DEF TaskFits, Stock!Open
  <2>2. /\ i \in Stock!Open \ tasks[w].todo /\ tasks[w].todo \subseteq Stock!Open
        /\ tasks[w].lines = square[i].lines /\ tasks[w].lines # {}
        /\ tasks[w].sees = Stock!Committing(i)
        /\ \A j \in Invoices \ (tasks[w].todo \cup {i}) : RightRows(j)
    BY <2>6, <2>1 DEF TaskFits
  <2>3. tasks' = [tasks EXCEPT ![w] = t]
    BY <1>0, <1>7, <2>1, AloneMoves DEF Stock!EndWrite, RepairInv
  <2>4. tasks'[w] = t
    BY <1>0, <2>3 DEF Stock!TypeOK
  <2>5. /\ t.do \in {"clear", "fetch"}
        /\ t.do = "clear" => tasks[w].todo = {}
        /\ t.do = "fetch" => t.todo = tasks[w].todo
    BY DEF Stock!Idle
  <2> HIDE DEF t
  <2>7. ASSUME NEW v \in Stocked
        PROVE  Stock!Units(w, v) = IF v \in square[i].lines THEN 1 ELSE 0
    BY <1>0, <2>6, <2>2 DEF Stock!Units, Stock!Committing, Stock!TypeOK
  <2>8. /\ UNCHANGED <<square, reserved>>
        /\ committed' = [committed EXCEPT ![i] = [v \in Stocked |-> Stock!Units(w, v)]]
    BY <1>7, <2>6 DEF Stock!EndWrite
  <2>9. RightRows(i)'
    <3>1. \A v \in Stocked : committed'[i][v] = Stock!Units(w, v)
      BY <1>0, <2>8 DEF Stock!TypeOK
    <3> QED
      BY <2>2, <2>7, <2>8, <3>1 DEF RightRows, Stock!Open
  <2>10. ASSUME NEW j \in Invoices \ {i} PROVE RightRows(j)' <=> RightRows(j)
    BY <1>0, <2>8, SameRows DEF Stock!TypeOK
  <2>11. Stock!Open' = Stock!Open
    BY <2>8 DEF Stock!Open
  <2>12. TaskFits(w)'
    <3>1. \A j \in Invoices \ tasks[w].todo : RightRows(j)'
      BY <2>2, <2>9, <2>10
    <3> QED
      BY <2>2, <2>4, <2>5, <2>11, <3>1 DEF TaskFits
  <2>13. RepairInv'
    BY <1>0, <2>1, <2>3, <2>5, <2>12, AloneGoesOn
  <2>14. ASSUME Stock!Exact PROVE Stock!Exact'
    <3>1. \A v \in Stocked : committed[i][v] = Stock!Units(w, v)
      BY <2>2, <2>7, <2>14 DEF Stock!Exact, Stock!Open
    <3>2. committed[i] = [v \in Stocked |-> Stock!Units(w, v)]
      BY <1>0, <3>1 DEF Stock!TypeOK
    <3>3. committed' = committed
      BY <1>0, <2>8, <3>2 DEF Stock!TypeOK
    <3> QED
      BY <2>8, <2>14, <3>3, SameTables
  <2> QED
    BY <2>13, <2>14
<1>8. ASSUME NEW w \in Workers, Stock!Clear(w)
      PROVE  Goal
  <2> DEFINE t == [tasks[w] EXCEPT !.do = "fill", !.sees = {v \in Stocked : reserved[v] > 0},
                                 !.holds = Stock!Held(Stock!Rebuilding(w)) = {}]
  <2>1. /\ tasks[w].do # "idle" /\ TaskFits(w)
        /\ UNCHANGED <<square, committed, reserved>>
    BY <1>8 DEF Stock!Clear, RepairInv
  <2>2. tasks' = [tasks EXCEPT ![w] = t]
    BY <1>0, <1>8, <2>1, AloneMoves DEF Stock!Clear, Stock!Proceed, RepairInv
  <2>3. tasks'[w] = t
    BY <1>0, <2>2 DEF Stock!TypeOK
  <2>4. t.do = "fill" /\ t.sees = {v \in Stocked : reserved[v] > 0}
    BY <1>0 DEF Stock!TypeOK, Stock!Task
  <2>7. tasks[w].do = "clear"
    BY <1>8 DEF Stock!Clear
  <2> HIDE DEF t
  <2>5. TaskFits(w)'
    BY <2>1, <2>3, <2>4, <2>7, SameTables DEF TaskFits
  <2>6. RepairInv'
    BY <1>0, <2>1, <2>2, <2>4, <2>5, AloneGoesOn
  <2> QED
    BY <2>1, <2>6, SameTables
<1>9. ASSUME NEW w \in Workers, Stock!Fill(w)
      PROVE  Goal
  <2> DEFINE t == [tasks[w] EXCEPT !.do = "commit", !.sums = [v \in Stocked |-> Stock!Total(v)]]
  <2>1. /\ tasks[w].do # "idle" /\ TaskFits(w)
        /\ UNCHANGED <<square, committed, reserved>>
    BY <1>9 DEF Stock!Fill, RepairInv
  <2>2. tasks' = [tasks EXCEPT ![w] = t]
    BY <1>0, <1>9, <2>1, AloneMoves DEF Stock!Fill, Stock!Proceed, RepairInv
  <2>3. tasks'[w] = t
    BY <1>0, <2>2 DEF Stock!TypeOK
  <2>4. /\ t.do = "commit" /\ t.sees = tasks[w].sees
        /\ t.sums = [v \in Stocked |-> Stock!Total(v)]
    BY <1>0 DEF Stock!TypeOK, Stock!Task
  <2>7. tasks[w].do = "fill"
    BY <1>9 DEF Stock!Fill
  <2> HIDE DEF t
  <2>5. TaskFits(w)'
    BY <2>1, <2>3, <2>4, <2>7, SameTables DEF TaskFits
  <2>6. RepairInv'
    BY <1>0, <2>1, <2>2, <2>4, <2>5, AloneGoesOn
  <2> QED
    BY <2>1, <2>6, SameTables
<1>10. ASSUME NEW w \in Workers, Stock!Commit(w)
      PROVE  Goal
  <2>1. tasks[w].do = "commit" /\ TaskFits(w)
    BY <1>10 DEF Stock!Commit, RepairInv
  <2>2. /\ tasks[w].sees = {v \in Stocked : reserved[v] > 0}
        /\ tasks[w].sums = [v \in Stocked |-> Stock!Total(v)]
        /\ \A i \in Invoices : RightRows(i)
    BY <2>1 DEF TaskFits
  <2>3. tasks' = [tasks EXCEPT ![w] = Stock!Idle]
    BY <1>0, <1>10, <2>1, AloneMoves DEF Stock!Commit, RepairInv
  <2>4. UNCHANGED <<square, committed>>
    BY <1>10 DEF Stock!Commit
  <2>5. ASSUME NEW v \in Stocked
        PROVE  Stock!Total(v) \in Nat /\ Stock!Total(v)' = Stock!Total(v)
    BY <1>0, <2>4, TotalIs, TotalSame, SumIsNat DEF Stock!TypeOK
  <2>6. ASSUME NEW v \in Stocked
        PROVE  reserved'[v] = Stock!Total(v)
    BY <1>0, <1>10, <2>2, <2>5 DEF Stock!Commit, Stock!TypeOK
  <2>7. \A i \in Invoices : RightRows(i)'
    BY <2>2, <2>4, SameRows
  <2>8. Stock!Exact'
    BY <2>5, <2>6, <2>7 DEF Stock!Exact, RightRows
  <2>9. \A u \in Workers : tasks'[u].do = "idle"
    BY <1>0, <2>1, <2>3 DEF RepairInv, OneTask, Stock!TypeOK, Stock!Idle
  <2>10. OneTask' /\ \A u \in Workers : TaskFits(u)'
    BY <2>9 DEF OneTask, TaskFits
  <2> QED
    BY <1>0, <2>8, <2>10 DEF RepairInv
<1> QED
  BY <1>1, <1>2, <1>3, <1>4, <1>5, <1>6, <1>7, <1>8, <1>9, <1>10
  DEF Stock!Calm, Stock!Work, Resting

\* Whatever webhooks and failures left in the tables: when the worker w has just listed
\* the invoices and nothing but reconciliations goes on, rows and counts are exact as soon
\* as nobody is at work (the safety half of Converges).
THEOREM ReconciliationRepairs ==
  ASSUME IsFiniteSet(Invoices), NEW w \in Workers
  PROVE  /\ Stock!TypeOK /\ Listing(w) /\ \A u \in Workers \ {w} : tasks[u].do = "idle"
         /\ [][Stock!Calm]_(Stock!vars)
         => [](Resting => Stock!Exact)
<1>1. Stock!TypeOK /\ Listing(w) /\ (\A u \in Workers \ {w} : tasks[u].do = "idle")
        => RepairInv
  <2> SUFFICES ASSUME Stock!TypeOK, Listing(w), \A u \in Workers \ {w} : tasks[u].do = "idle"
               PROVE  RepairInv
    OBVIOUS
  <2>1. tasks[w].do = "stale"
    BY DEF Listing, Stock!Idle
  <2> QED
    BY <2>1 DEF RepairInv, OneTask, TaskFits, Resting
<1>2. RepairInv /\ [Stock!Calm]_(Stock!vars) => RepairInv'
  BY RepairStep
<1>3. RepairInv => (Resting => Stock!Exact)
  BY DEF RepairInv
<1> QED
  BY <1>1, <1>2, <1>3, PTL

\* And reconciliations leave what is exact exact, also while they are under way.
THEOREM ExactStays ==
  ASSUME IsFiniteSet(Invoices)
  PROVE  /\ Stock!TypeOK /\ Resting /\ Stock!Exact
         /\ [][Stock!Calm]_(Stock!vars)
         => []Stock!Exact
<1>1. Stock!TypeOK /\ Resting /\ Stock!Exact => RepairInv /\ Stock!Exact
  BY DEF RepairInv, OneTask, TaskFits, Resting
<1>2. RepairInv /\ Stock!Exact /\ [Stock!Calm]_(Stock!vars) => (RepairInv /\ Stock!Exact)'
  BY RepairStep
<1> QED
  BY <1>1, <1>2, PTL

-----------------------------------------------------------------------------
(* Tiers, product sets and the types of Expiry *)

LEMMA MostUrgent ==
  ASSUME NEW ts \in SUBSET AutoTiers, ts # {}
  PROVE  Urgent(ts) \in ts
<1> DEFINE From == {Expired - t : t \in ts}
<1>1. \A t \in ts : t \in Nat /\ Expired - t \in Nat /\ Expired \in Nat
  BY TierAssumption
<1>2. From \subseteq Nat /\ From # {}
  BY <1>1
<1>3. PICK m \in From : \A k \in From : m <= k
  BY <1>2, Least
<1>4. PICK t \in ts : m = Expired - t
  BY <1>3
<1>5. \A u \in ts : u <= t
  <2> SUFFICES ASSUME NEW u \in ts PROVE u <= t
    OBVIOUS
  <2>1. Expired - u \in From
    OBVIOUS
  <2>2. Expired - t <= Expired - u
    BY <2>1, <1>3, <1>4
  <2> QED
    BY <2>2, <1>1
<1> QED
  BY <1>5 DEF Urgent

LEMMA Removed ==
  ASSUME NEW S, NEW q \in Seq(S), NEW n \in 1 .. Len(q)
  PROVE  /\ RemoveAt(q, n) \in Seq(S)
         /\ Len(RemoveAt(q, n)) = Len(q) - 1
         /\ \A i \in 1 .. (Len(q) - 1) : \E j \in 1 .. Len(q) : RemoveAt(q, n)[i] = q[j]
<1> DEFINE a == SubSeq(q, 1, n - 1)
           b == SubSeq(q, n + 1, Len(q))
<1>1. a \in Seq(S) /\ Len(a) = n - 1 /\ \A i \in 1 .. (n - 1) : a[i] = q[i]
  OBVIOUS
<1>2. b \in Seq(S) /\ Len(b) = Len(q) - n /\ \A i \in 1 .. (Len(q) - n) : b[i] = q[n + i]
  OBVIOUS
<1>3. RemoveAt(q, n) = a \o b
  BY DEF RemoveAt
<1> HIDE DEF a, b
<1>4. a \o b \in Seq(S) /\ Len(a \o b) = Len(q) - 1
  <2>1. Len(q) \in Nat /\ n \in Nat
    OBVIOUS
  <2>2. a \in Seq(S) /\ b \in Seq(S)
    BY <1>1, <1>2
  <2>3. a \o b \in Seq(S)
    BY <2>2
  <2>4. Len(a \o b) = Len(a) + Len(b)
    BY <2>2
  <2> QED
    BY <1>1, <1>2, <2>1, <2>3, <2>4
<1>5. ASSUME NEW i \in 1 .. (Len(q) - 1)
      PROVE  \E j \in 1 .. Len(q) : (a \o b)[i] = q[j]
  <2>1. CASE i <= n - 1
    BY <2>1, <1>1, <1>2
  <2>2. CASE i >= n
    <3>1. (a \o b)[i] = b[i - (n - 1)] /\ i - (n - 1) \in 1 .. (Len(q) - n)
      BY <2>2, <1>1, <1>2
    <3>2. (a \o b)[i] = q[n + (i - (n - 1))] /\ n + (i - (n - 1)) \in 1 .. Len(q)
      BY <3>1, <1>2
    <3> QED
      BY <3>2
  <2>3. i <= n - 1 \/ i >= n
    OBVIOUS
  <2> QED
    BY <2>1, <2>2, <2>3
<1> QED
  BY <1>3, <1>4, <1>5

AtTier(r) == runs[r].do \in {"search", "write", "record"}

\* A runner that is at a tier has one.
Typed == TypeOK /\ \A r \in Runners : AtTier(r) => runs[r].todo # {}

LEMMA ExpiryIdle == /\ Idle \in Run /\ Idle.do = "idle"
                    /\ Applying \in Run /\ Applying.do = "read" /\ Applying.todo = AutoTiers
                    /\ Applying.plan = Plain /\ Idle.plan = Plain
BY DEF Idle, Applying, Run, Plain

LEMMA VerdictType ==
  ASSUME TypeOK, NEW v \in Variations
  PROVE  Verdict(v) \in Tiers \cup {Keep, Regress}
BY DEF Verdict, TypeOK

\* The outcome of a step of one runner that writes no more than prices, and rows.
LEMMA SetTyped ==
  ASSUME Typed, NEW r \in Runners, NEW run \in Run, Set(r, run),
         run.do \in {"search", "write", "record"} => run.todo # {}
  PROVE  /\ runs' \in [Runners -> Run] /\ runs'[r] = run
         /\ \A u \in Runners \ {r} : runs'[u] = runs[u]
         /\ \A u \in Runners : AtTier(u)' => runs'[u].todo # {}
BY DEF Typed, TypeOK, AtTier, Set

LEMMA DoneRun ==
  ASSUME NEW run \in Run
  PROVE  /\ Done(run) \in Run /\ Done(run).do = "read"
         /\ Done(run).todo = run.todo \ {Urgent(run.todo)} /\ Done(run).plan = run.plan
BY DEF Done, Run

LEMMA RunnerSteps ==
  ASSUME Typed, NEW r \in Runners,
         \/ \E then \in BOOLEAN : Evaluate(r, then)
         \/ EvaluateRow(r) \/ Apply(r) \/ ReadTier(r) \/ Search(r)
         \/ SearchFails(r) \/ TierFails(r) \/ Record(r) \/ Sweep(r) \/ Crash(r)
  PROVE  Typed'
<1> USE ExpiryIdle
<1>0. runs[r] \in Run /\ TypeOK
  BY DEF Typed, TypeOK
<1>1. ASSUME NEW then \in BOOLEAN, Evaluate(r, then) PROVE Typed'
  <2> DEFINE p == [v \in Variations |-> Verdict(v)]
             run == [Idle EXCEPT !.do = "evaluate", !.then = then, !.plan = p]
  <2>1. p \in [Variations -> Tiers \cup {Keep, Regress}]
    BY <1>0, VerdictType
  <2> HIDE DEF p
  <2>2. run \in Run /\ run.do = "evaluate"
    BY <2>1 DEF Idle, Run
  <2>3. Set(r, run)
    BY <1>1 DEF Evaluate, p
  <2> HIDE DEF run
  <2> QED
    BY <1>1, <2>2, <2>3, SetTyped DEF Evaluate, Typed, TypeOK
<1>2. ASSUME EvaluateRow(r) PROVE Typed'
  <2>1. ASSUME NEW v \in Variations, runs[r].plan[v] # Keep,
               flagged' = [flagged EXCEPT ![v] = runs[r].plan[v] = Regress /\ (@ \/ tier[v] # NoTier)],
               tier' = IF runs[r].plan[v] = Regress THEN tier ELSE [tier EXCEPT ![v] = runs[r].plan[v]],
               Set(r, [runs[r] EXCEPT !.plan[v] = Keep]), runs[r].do = "evaluate"
        PROVE  Typed'
    <3> DEFINE run == [runs[r] EXCEPT !.plan[v] = Keep]
    <3>1. run \in Run /\ run.do = "evaluate"
      BY <1>0, <2>1 DEF Run
    <3>2. runs[r].plan[v] \in Tiers \cup {Regress}
      BY <1>0, <2>1 DEF Run
    <3> HIDE DEF run
    <3>3. tier' \in [Variations -> Tiers \cup {NoTier}] /\ flagged' \in [Variations -> BOOLEAN]
      BY <1>0, <2>1, <3>2 DEF TypeOK
    <3> QED
      BY <1>2, <2>1, <3>1, <3>3, SetTyped DEF EvaluateRow, Typed, TypeOK, run
  <2>2. ASSUME Set(r, IF runs[r].then THEN Applying ELSE Idle), UNCHANGED <<tier, flagged>>
        PROVE  Typed'
    <3> DEFINE run == IF runs[r].then THEN Applying ELSE Idle
    <3>1. run \in Run /\ run.do \notin {"search", "write", "record"}
      OBVIOUS
    <3> HIDE DEF run
    <3> QED
      BY <1>2, <2>2, <3>1, SetTyped DEF EvaluateRow, Typed, TypeOK, run
  <2> QED
    BY <1>2, <2>1, <2>2 DEF EvaluateRow
<1>3. ASSUME Apply(r) PROVE Typed'
  BY <1>3, SetTyped DEF Apply, Typed, TypeOK
<1>4. ASSUME ReadTier(r) PROVE Typed'
  <2> DEFINE run == IF runs[r].todo = {} THEN [runs[r] EXCEPT !.do = "sweep"]
                    ELSE [runs[r] EXCEPT !.do = "search", !.items = InTier(Urgent(runs[r].todo))]
  <2>1. run \in Run /\ (run.do \in {"search", "write", "record"} => run.todo # {})
    BY <1>0 DEF Run, InTier
  <2> HIDE DEF run
  <2> QED
    BY <1>4, <2>1, SetTyped DEF ReadTier, Typed, TypeOK, run
<1>5. ASSUME Search(r) PROVE Typed'
  <2> DEFINE t == Urgent(runs[r].todo)
             run == [runs[r] EXCEPT !.do = "write", !.valid = runs[r].items,
                                    !.found = Len(rules[t]), !.fresh = TRUE]
  <2>1. runs[r].todo # {} /\ runs[r].todo \in SUBSET AutoTiers
    BY <1>0, <1>5 DEF Search, Typed, AtTier, Run
  <2>2. Len(rules[t]) \in Nat
    BY <1>0, <2>1, MostUrgent DEF TypeOK
  <2>3. run \in Run /\ run.todo = runs[r].todo
    BY <1>0, <2>2 DEF Run
  <2> HIDE DEF run
  <2> QED
    BY <1>5, <2>1, <2>3, SetTyped DEF Search, Typed, TypeOK, run
<1>6. ASSUME SearchFails(r) PROVE Typed'
  <2> DEFINE t == Urgent(runs[r].todo)
             run(lost) == [runs[r] EXCEPT !.do = "write", !.valid = runs[r].items \ lost,
                                          !.fresh = TRUE, !.found = Len(rules[t])]
  <2>1. runs[r].todo # {} /\ runs[r].todo \in SUBSET AutoTiers
    BY <1>0, <1>6 DEF SearchFails, Typed, AtTier, Run
  <2>2. Len(rules[t]) \in Nat
    BY <1>0, <2>1, MostUrgent DEF TypeOK
  <2>3. ASSUME NEW lost PROVE run(lost) \in Run /\ run(lost).todo = runs[r].todo
    BY <1>0, <2>2 DEF Run
  <2>4. PICK lost \in SUBSET runs[r].items \ {{}}, statements \in 0 .. 2 :
          /\ live' = [v \in Variations |-> live[v] /\ (statements = 0 \/ v \notin lost)]
          /\ IF statements = 2 THEN Forget(lost) ELSE UNCHANGED <<tier, flagged, applied>>
          /\ Set(r, run(lost))
    BY <1>6 DEF SearchFails
  <2> HIDE DEF run
  <2>5. live' \in [Variations -> BOOLEAN]
    BY <1>0, <2>4 DEF TypeOK
  <2>6. /\ tier' \in [Variations -> Tiers \cup {NoTier}]
        /\ flagged' \in [Variations -> BOOLEAN]
        /\ applied' \in [Variations -> AutoTiers \cup {NoTier}]
    <3>1. CASE statements = 2
      <4>1. Forget(lost)
        BY <2>4, <3>1
      <4> QED
        BY <1>0, <4>1 DEF Forget, TypeOK
    <3>2. CASE statements # 2
      <4>1. UNCHANGED <<tier, flagged, applied>>
        BY <2>4, <3>2
      <4> QED
        BY <1>0, <4>1 DEF TypeOK
    <3> QED
      BY <3>1, <3>2
  <2>7. run(lost) \in Run /\ run(lost).todo = runs[r].todo /\ Set(r, run(lost))
    BY <2>3, <2>4
  <2>8. /\ runs' \in [Runners -> Run]
        /\ \A u \in Runners : AtTier(u)' => runs'[u].todo # {}
    BY <1>0, <2>1, <2>7, SetTyped
  <2>9. UNCHANGED <<due, attr, rules, cleared>>
    BY <1>6 DEF SearchFails
  <2> QED
    BY <1>0, <2>5, <2>6, <2>7, <2>8, <2>9 DEF Typed, TypeOK
<1>7. ASSUME TierFails(r) PROVE Typed'
  BY <1>0, <1>7, DoneRun, SetTyped DEF TierFails, Typed, TypeOK
<1>8. ASSUME Record(r) PROVE Typed'
  <2>1. Urgent(runs[r].todo) \in AutoTiers
    BY <1>0, <1>8, MostUrgent DEF Record, Typed, AtTier, Run
  <2>2. applied' \in [Variations -> AutoTiers \cup {NoTier}]
    BY <1>0, <1>8, <2>1 DEF Record, TypeOK
  <2> QED
    BY <1>0, <1>8, <2>2, DoneRun, SetTyped DEF Record, Typed, TypeOK
<1>9. ASSUME Sweep(r) PROVE Typed'
  <2>1. applied' \in [Variations -> AutoTiers \cup {NoTier}]
    BY <1>0, <1>9 DEF Sweep, TypeOK
  <2> QED
    BY <1>9, <2>1, SetTyped DEF Sweep, Typed, TypeOK
<1>10. ASSUME Crash(r) PROVE Typed'
  BY <1>10, SetTyped DEF Crash, Typed, TypeOK
<1> QED
  BY <1>1, <1>2, <1>3, <1>4, <1>5, <1>6, <1>7, <1>8, <1>9, <1>10

\* What a write makes of the product sets old of its tier.
Written(old, n, vs) ==
  IF vs = {} THEN IF n \in 1 .. Len(old) THEN RemoveAt(old, n) ELSE old
  ELSE IF n = 0 THEN Append(old, vs) ELSE [old EXCEPT ![n] = vs]

LEMMA WriteFacts ==
  ASSUME Typed, NEW r \in Runners, Write(r)
  PROVE  LET t == Urgent(runs[r].todo)
             q == Written(rules[t], runs[r].found, runs[r].valid)
         IN /\ t \in AutoTiers /\ runs[r].todo \in SUBSET AutoTiers /\ runs[r].todo # {}
            /\ q \in Seq(SUBSET Variations)
            /\ rules' = [rules EXCEPT ![t] = q]
            /\ rules'[t] = q /\ \A u \in AutoTiers \ {t} : rules'[u] = rules[u]
<1> DEFINE t == Urgent(runs[r].todo)
           n == runs[r].found
           vs == runs[r].valid
<1>1. /\ runs[r] \in Run /\ runs[r].todo # {} /\ runs[r].todo \in SUBSET AutoTiers
      /\ n \in Nat /\ vs \in SUBSET Variations
  BY DEF Write, Typed, TypeOK, AtTier, Run
<1>2. t \in AutoTiers
  BY <1>1, MostUrgent
<1>3. rules[t] \in Seq(SUBSET Variations)
  BY <1>2 DEF Typed, TypeOK
<1>4. Written(rules[t], n, vs) \in Seq(SUBSET Variations)
  <2>1. CASE vs = {} /\ n \in 1 .. Len(rules[t])
    BY <2>1, <1>3, Removed DEF Written
  <2>2. CASE vs # {} /\ n # 0
    BY <2>2, <1>1, <1>3 DEF Written
  <2> QED
    BY <2>1, <2>2, <1>1, <1>3 DEF Written
<1>5. rules' = [rules EXCEPT ![t] = Written(rules[t], n, vs)]
  BY DEF Write, Written
<1> QED
  BY <1>1, <1>2, <1>4, <1>5 DEF Typed, TypeOK

LEMMA WriteRuns ==
  ASSUME Typed, NEW r \in Runners, Write(r)
  PROVE  /\ runs' \in [Runners -> Run]
         /\ runs'[r].do = "record"
         /\ \A u \in Runners :
              /\ runs'[u].todo = runs[u].todo /\ runs'[u].items = runs[u].items
              /\ runs'[u].plan = runs[u].plan /\ runs'[u].valid = runs[u].valid
              /\ runs'[u].found = runs[u].found /\ runs'[u].then = runs[u].then
              /\ u # r => runs'[u].do = runs[u].do
              /\ u # r /\ runs[u].do # "write" => runs'[u] = runs[u]
<1>1. ASSUME NEW u \in Runners
      PROVE  /\ runs[u] \in Run
             /\ \A b \in BOOLEAN : [runs[u] EXCEPT !.fresh = b] \in Run
             /\ [runs[u] EXCEPT !.do = "record"] \in Run
  BY DEF Typed, TypeOK, Run
<1>2. \A u \in Runners : (runs[r].found = 0 /\ runs[u].found = 0) \in BOOLEAN
  OBVIOUS
<1>3. runs' \in [Runners -> Run]
  BY <1>1, <1>2 DEF Write
<1>4. runs'[r] = [runs[r] EXCEPT !.do = "record"]
  BY DEF Write
<1>5. ASSUME NEW u \in Runners \ {r}
      PROVE  runs'[u] = runs[u] \/ /\ runs[u].do = "write"
                                   /\ \E b \in BOOLEAN : runs'[u] = [runs[u] EXCEPT !.fresh = b]
  BY <1>2 DEF Write
<1>6. ASSUME NEW u \in Runners \ {r}
      PROVE  /\ runs'[u].todo = runs[u].todo /\ runs'[u].items = runs[u].items
             /\ runs'[u].plan = runs[u].plan /\ runs'[u].valid = runs[u].valid
             /\ runs'[u].found = runs[u].found /\ runs'[u].then = runs[u].then
             /\ runs'[u].do = runs[u].do
             /\ runs[u].do # "write" => runs'[u] = runs[u]
  <2>1. runs[u] \in Run
    BY <1>1
  <2>2. CASE runs'[u] = runs[u]
    BY <2>2
  <2>3. ASSUME NEW b \in BOOLEAN, runs'[u] = [runs[u] EXCEPT !.fresh = b], runs[u].do = "write"
        PROVE  /\ runs'[u].todo = runs[u].todo /\ runs'[u].items = runs[u].items
               /\ runs'[u].plan = runs[u].plan /\ runs'[u].valid = runs[u].valid
               /\ runs'[u].found = runs[u].found /\ runs'[u].then = runs[u].then
               /\ runs'[u].do = runs[u].do
    BY <2>1, <2>3 DEF Run
  <2> QED
    BY <2>2, <2>3, <1>5
<1>7. /\ runs'[r].do = "record"
      /\ runs'[r].todo = runs[r].todo /\ runs'[r].items = runs[r].items
      /\ runs'[r].plan = runs[r].plan /\ runs'[r].valid = runs[r].valid
      /\ runs'[r].found = runs[r].found /\ runs'[r].then = runs[r].then
  BY <1>1, <1>4 DEF Run
<1> QED
  BY <1>3, <1>6, <1>7

LEMMA WriteTyped ==
  ASSUME Typed, NEW r \in Runners, Write(r)
  PROVE  Typed'
<1>1. rules' \in [AutoTiers -> Seq(SUBSET Variations)]
  BY WriteFacts DEF Typed, TypeOK
<1>2. runs' \in [Runners -> Run]
  BY WriteRuns
<1>3. ASSUME NEW u \in Runners, AtTier(u)' PROVE runs'[u].todo # {}
  <2>1. runs'[u].todo = runs[u].todo /\ (u # r => runs'[u].do = runs[u].do)
    BY WriteRuns
  <2> QED
    BY <1>3, <2>1, WriteFacts DEF Typed, AtTier
<1> QED
  BY <1>1, <1>2, <1>3 DEF Write, Typed, TypeOK

LEMMA ExpiryTypesStep ==
  ASSUME Typed, [Next]_vars
  PROVE  Typed'
<1>1. CASE UNCHANGED vars
  BY <1>1 DEF Typed, TypeOK, AtTier, vars
<1>2. ASSUME NEW v \in Variations,
             \/ \E d \in Tiers : SaveDate(v, d)
             \/ SaveNoDate(v) \/ SaveNever(v) \/ SyncCatalog(v) \/ Reorder(v)
             \/ AskForReview(v) \/ Resolve(v) \/ Age(v)
      PROVE  Typed'
  <2>0. Expired \in Nat /\ Tiers \subseteq Int /\ 0 \in Tiers /\ Expired \in Tiers
    BY TierAssumption DEF Tiers
  <2>1. ASSUME NEW d \in Tiers, SaveDate(v, d) PROVE Typed'
    BY <2>1 DEF SaveDate, Typed, TypeOK, AtTier, Dates
  <2>2. ASSUME SaveNoDate(v) PROVE Typed'
    BY <2>0, <2>2 DEF SaveNoDate, Typed, TypeOK, AtTier, Dates
  <2>3. ASSUME SaveNever(v) PROVE Typed'
    BY <2>3 DEF SaveNever, Forget, Typed, TypeOK, AtTier, Dates
  <2>4. ASSUME SyncCatalog(v) PROVE Typed'
    BY <2>4 DEF SyncCatalog, Typed, TypeOK, AtTier
  <2>5. ASSUME Reorder(v) PROVE Typed'
    BY <2>0, <2>5 DEF Reorder, Typed, TypeOK, AtTier, Dates
  <2>6. ASSUME AskForReview(v) PROVE Typed'
    BY <2>6 DEF AskForReview, Typed, TypeOK, AtTier
  <2>7. ASSUME Resolve(v) PROVE Typed'
    BY <2>7 DEF Resolve, Typed, TypeOK, AtTier
  <2>8. ASSUME Age(v) PROVE Typed'
    <3>1. PICK d \in {due[v], attr[v]} \cap 0 .. (Expired - 1) :
            /\ due' = [due EXCEPT ![v] = IF @ = d THEN d + 1 ELSE @]
            /\ attr' = [attr EXCEPT ![v] = IF @ = d THEN d + 1 ELSE @]
            /\ UNCHANGED <<tier, flagged, applied, live, rules, runs, cleared>>
      BY <2>8 DEF Age
    <3>2. d + 1 \in Dates
      BY <2>0, <3>1 DEF Dates, Tiers
    <3> QED
      BY <3>1, <3>2 DEF Typed, TypeOK, AtTier
  <2> QED
    BY <1>2, <2>1, <2>2, <2>3, <2>4, <2>5, <2>6, <2>7, <2>8
<1> QED
  BY <1>1, <1>2, RunnerSteps, WriteTyped DEF Next, Work

\* Dates, tiers, product sets and runs have their types, and a run that works on a tier
\* has one left to work on: for all variations, runners and tiers.
THEOREM ExpiryTypes == Spec => []TypeOK
<1>1. Init => Typed
  BY ExpiryIdle, TierAssumption
  DEF Init, Typed, TypeOK, AtTier, Dates, Tiers, NoDate, NoTier
<1>2. Typed /\ [Next]_vars => Typed'
  BY ExpiryTypesStep
<1>3. Typed => TypeOK
  BY DEF Typed
<1> QED
  BY <1>1, <1>2, <1>3, PTL DEF Spec

-----------------------------------------------------------------------------
(* What always holds of prices and product sets *)

NoRowNoPrice == \A v \in Variations : tier[v] = NoTier => applied[v] = NoTier

LEMMA PriceStep ==
  ASSUME Typed, NoRowNoPrice, [Next]_vars
  PROVE  NoRowNoPrice'
<1>0. NoTier \notin Tiers /\ Expired \in Nat /\ 0 \in Tiers
  BY TierAssumption DEF NoTier, Tiers
<1>1. CASE UNCHANGED <<tier, applied>>
  BY <1>1 DEF NoRowNoPrice
<1>2. ASSUME NEW v \in Variations, NEW d \in Tiers, SaveDate(v, d) PROVE NoRowNoPrice'
  BY <1>0, <1>2 DEF SaveDate, NoRowNoPrice, Typed, TypeOK
<1>3. ASSUME NEW v \in Variations, SaveNever(v) PROVE NoRowNoPrice'
  BY <1>3 DEF SaveNever, Forget, NoRowNoPrice
<1>4. ASSUME NEW v \in Variations, Reorder(v) PROVE NoRowNoPrice'
  BY <1>0, <1>4 DEF Reorder, NoRowNoPrice, Typed, TypeOK
<1>5. ASSUME NEW v \in Variations, Resolve(v) PROVE NoRowNoPrice'
  BY <1>0, <1>5 DEF Resolve, NoRowNoPrice, Typed, TypeOK
<1>6. ASSUME NEW r \in Runners, EvaluateRow(r) PROVE NoRowNoPrice'
  <2>1. runs[r].plan \in [Variations -> Tiers \cup {Keep, Regress}]
    BY DEF Typed, TypeOK, Run
  <2>2. applied' = applied
    BY <1>6 DEF EvaluateRow
  <2>3. ASSUME NEW v \in Variations, NEW to, runs[r].plan[v] = to, to # Keep, to # Regress,
               tier' = [tier EXCEPT ![v] = to]
        PROVE  NoRowNoPrice'
    BY <1>0, <2>1, <2>2, <2>3 DEF NoRowNoPrice, Typed, TypeOK
  <2> QED
    BY <1>1, <1>6, <2>2, <2>3 DEF EvaluateRow
<1>7. ASSUME NEW r \in Runners, SearchFails(r) PROVE NoRowNoPrice'
  BY <1>7 DEF SearchFails, Forget, NoRowNoPrice
<1>8. ASSUME NEW r \in Runners, Record(r) PROVE NoRowNoPrice'
  BY <1>8 DEF Record, NoRowNoPrice
<1>9. ASSUME NEW r \in Runners, Sweep(r) PROVE NoRowNoPrice'
  BY <1>9 DEF Sweep, NoRowNoPrice
<1>10. ASSUME NEW v \in Variations,
              SaveNoDate(v) \/ SyncCatalog(v) \/ AskForReview(v) \/ Age(v)
       PROVE  UNCHANGED <<tier, applied>>
  BY <1>10 DEF SaveNoDate, SyncCatalog, AskForReview, Age
<1>11. ASSUME NEW r \in Runners,
              \/ \E then \in BOOLEAN : Evaluate(r, then)
              \/ Apply(r) \/ ReadTier(r) \/ Search(r) \/ Write(r) \/ TierFails(r) \/ Crash(r)
       PROVE  UNCHANGED <<tier, applied>>
  BY <1>11 DEF Evaluate, Apply, ReadTier, Search, Write, TierFails, Crash
<1>12. CASE UNCHANGED vars
  BY <1>1, <1>12 DEF vars
<1> QED
  BY <1>1, <1>2, <1>3, <1>4, <1>5, <1>6, <1>7, <1>8, <1>9, <1>10, <1>11, <1>12
  DEF Next, Work

\* A discounted price is recorded only where there is a row for it, although the record of
\* a tier writes the rows it read some time ago.
THEOREM PricesHaveRows == Spec => []NoRowNoPrice
<1>1. Init => Typed /\ NoRowNoPrice
  BY ExpiryIdle, TierAssumption
  DEF Init, Typed, TypeOK, AtTier, Dates, Tiers, NoDate, NoTier, NoRowNoPrice
<1>2. Typed /\ NoRowNoPrice /\ [Next]_vars => (Typed /\ NoRowNoPrice)'
  BY ExpiryTypesStep, PriceStep
<1> QED
  BY <1>1, <1>2, PTL DEF Spec

OneSet == \A t \in AutoTiers : Len(rules[t]) <= 1

\* With one runner, what a run has found of its tier is what is there.
OneSetInv ==
  /\ Typed
  /\ OneSet
  /\ \A r \in Runners :
       runs[r].do = "write" => runs[r].found = Len(rules[Urgent(runs[r].todo)])

LEMMA OneWritten ==
  ASSUME NEW old \in Seq(SUBSET Variations), NEW n \in {0, 1}, Len(old) = n,
         NEW vs \in SUBSET Variations
  PROVE  Len(Written(old, n, vs)) <= 1
<1>1. CASE vs = {} /\ n = 1
  <2>1. n \in 1 .. Len(old)
    BY <1>1
  <2>2. Len(RemoveAt(old, n)) = Len(old) - 1
    BY <2>1, Removed
  <2> QED
    BY <1>1, <2>1, <2>2 DEF Written
<1>2. CASE vs # {} /\ n = 0
  <2>1. Len(Append(old, vs)) = 1
    BY <1>2
  <2> QED
    BY <1>2, <2>1 DEF Written
<1>3. CASE vs # {} /\ n = 1
  <2>1. Len([old EXCEPT ![n] = vs]) = 1
    BY <1>3
  <2>2. Written(old, n, vs) = [old EXCEPT ![n] = vs]
    BY <1>3 DEF Written
  <2> QED
    BY <2>1, <2>2
<1>4. CASE vs = {} /\ n = 0
  BY <1>4 DEF Written
<1> QED
  BY <1>1, <1>2, <1>3, <1>4

LEMMA OneSetStep ==
  ASSUME \A r, u \in Runners : r = u, OneSetInv, [Next]_vars
  PROVE  OneSetInv'
<1>0. Typed /\ Typed'
  BY ExpiryTypesStep DEF OneSetInv
<1>1. ASSUME rules' = rules,
             \A r \in Runners : runs'[r] = runs[r] \/ runs'[r].do # "write"
      PROVE  OneSetInv'
  BY <1>0, <1>1 DEF OneSetInv, OneSet
<1>2. ASSUME NEW r \in Runners, Search(r) \/ SearchFails(r) PROVE OneSetInv'
  <2>1. runs[r] \in Run /\ rules' = rules
    BY <1>0, <1>2 DEF Typed, TypeOK, Search, SearchFails
  <2>2. runs'[r].found = Len(rules[Urgent(runs[r].todo)]) /\ runs'[r].todo = runs[r].todo
    <3> DEFINE n == Len(rules[Urgent(runs[r].todo)])
    <3>1. PICK vs : \/ runs'[r] = [runs[r] EXCEPT !.do = "write", !.valid = vs,
                                                  !.found = n, !.fresh = TRUE]
                    \/ runs'[r] = [runs[r] EXCEPT !.do = "write", !.valid = vs,
                                                  !.fresh = TRUE, !.found = n]
      BY <1>0, <1>2 DEF Search, SearchFails, Set, Typed, TypeOK
    <3> HIDE DEF n
    <3>2. runs'[r].found = n /\ runs'[r].todo = runs[r].todo
      BY <2>1, <3>1 DEF Run
    <3> QED
      BY <3>2 DEF n
  <2> QED
    BY <1>0, <2>1, <2>2 DEF OneSetInv, OneSet
<1>3. ASSUME NEW r \in Runners, Write(r) PROVE OneSetInv'
  <2> DEFINE t == Urgent(runs[r].todo)
             n == runs[r].found
             vs == runs[r].valid
  <2>1. n = Len(rules[t]) /\ n <= 1 /\ t \in AutoTiers
    <3>1. runs[r].do = "write" /\ Typed
      BY <1>0, <1>3 DEF Write
    <3>2. t \in AutoTiers
      BY <1>3, <3>1, WriteFacts
    <3> QED
      BY <1>0, <3>1, <3>2 DEF OneSetInv, OneSet
  <2>2. rules[t] \in Seq(SUBSET Variations) /\ n \in Nat
    BY <1>0, <2>1 DEF Typed, TypeOK
  <2>3. Len(Written(rules[t], n, vs)) <= 1
    <3>1. vs \in SUBSET Variations
      BY <1>0 DEF Typed, TypeOK, Run
    <3> HIDE DEF n, vs, t
    <3>2. n \in {0, 1}
      <4>1. n \in Nat /\ n <= 1
        BY <2>1, <2>2
      <4> QED
        BY <4>1
    <3> QED
      BY <2>1, <2>2, <3>1, <3>2, OneWritten
  <2>4. OneSet'
    BY <1>0, <1>3, <2>3, WriteFacts DEF OneSetInv, OneSet
  <2>5. runs'[r].do = "record"
    BY <1>0, <1>3, WriteRuns
  <2> QED
    BY <1>0, <2>4, <2>5 DEF OneSetInv
<1>4. ASSUME NEW v \in Variations,
             \/ \E d \in Tiers : SaveDate(v, d)
             \/ SaveNoDate(v) \/ SaveNever(v) \/ SyncCatalog(v) \/ Reorder(v)
             \/ AskForReview(v) \/ Resolve(v) \/ Age(v)
      PROVE  OneSetInv'
  <2>1. UNCHANGED <<rules, runs>>
    BY <1>4 DEF SaveDate, SaveNoDate, SaveNever, SyncCatalog, Reorder, AskForReview,
                Resolve, Age
  <2> QED
    BY <1>1, <2>1
<1>5. ASSUME NEW r \in Runners,
             \/ \E then \in BOOLEAN : Evaluate(r, then)
             \/ EvaluateRow(r) \/ Apply(r) \/ ReadTier(r) \/ TierFails(r)
             \/ Record(r) \/ Sweep(r) \/ Crash(r)
      PROVE  OneSetInv'
  <2>1. runs[r] \in Run
    BY <1>0 DEF Typed, TypeOK
  <2>2. rules' = rules
    BY <1>5 DEF Evaluate, EvaluateRow, Apply, ReadTier, TierFails, Record, Sweep, Crash
  <2>3. \E run : Set(r, run) /\ run.do # "write"
    <3>1. ASSUME NEW then \in BOOLEAN, Evaluate(r, then)
          PROVE  \E run : Set(r, run) /\ run.do # "write"
      <4> DEFINE p == [v \in Variations |-> Verdict(v)]
                 run == [Idle EXCEPT !.do = "evaluate", !.then = then, !.plan = p]
      <4> HIDE DEF p
      <4>1. run.do # "write"
        BY DEF Idle
      <4> HIDE DEF run
      <4>2. Set(r, run)
        BY <3>1 DEF Evaluate, run, p
      <4> QED
        BY <4>1, <4>2
    <3>2. ASSUME EvaluateRow(r)
          PROVE  \E run : Set(r, run) /\ run.do # "write"
      <4>1. \A v \in Variations : [runs[r] EXCEPT !.plan[v] = Keep].do = runs[r].do
        BY <2>1 DEF Run
      <4> QED
        BY <3>2, <4>1, ExpiryIdle DEF EvaluateRow
    <3>3. ASSUME ReadTier(r)
          PROVE  \E run : Set(r, run) /\ run.do # "write"
      <4>1. /\ [runs[r] EXCEPT !.do = "sweep"].do # "write"
            /\ \A vs : [runs[r] EXCEPT !.do = "search", !.items = vs].do # "write"
        BY <2>1 DEF Run
      <4> QED
        BY <3>3, <4>1 DEF ReadTier
    <3>4. ASSUME Apply(r) \/ TierFails(r) \/ Record(r) \/ Sweep(r) \/ Crash(r)
          PROVE  \E run : Set(r, run) /\ run.do # "write"
      BY <3>4, <2>1, ExpiryIdle, DoneRun DEF Apply, TierFails, Record, Sweep, Crash
    <3> QED
      BY <1>5, <3>1, <3>2, <3>3, <3>4
  <2> QED
    BY <1>0, <1>1, <2>2, <2>3 DEF Set, Typed, TypeOK
<1>6. CASE UNCHANGED vars
  BY <1>1, <1>6 DEF vars
<1> QED
  BY <1>2, <1>3, <1>4, <1>5, <1>6 DEF Next, Work

\* A run creates the product set of a tier when it finds none by its name.  As long as
\* there is one runner, no tier ever gets a second set, which no later run would empty.
THEOREM OneRunnerOneSet ==
  ASSUME \A r, u \in Runners : r = u
  PROVE  Spec => []OneSet
<1>1. Init => OneSetInv
  BY ExpiryIdle, TierAssumption
  DEF Init, OneSetInv, OneSet, Typed, TypeOK, AtTier, Dates, Tiers, NoDate, NoTier
<1>2. OneSetInv /\ [Next]_vars => OneSetInv'
  BY OneSetStep
<1>3. OneSetInv => OneSet
  BY DEF OneSetInv
<1> QED
  BY <1>1, <1>2, <1>3, PTL DEF Spec

-----------------------------------------------------------------------------
(* What one write makes of the product sets of its tier *)

LEMMA WrittenSets ==
  ASSUME NEW old \in Seq(SUBSET Variations), NEW n \in Nat, NEW vs \in SUBSET Variations
  PROVE  \A i \in 1 .. Len(Written(old, n, vs)) :
           \/ Written(old, n, vs)[i] = vs
           \/ \E j \in 1 .. Len(old) : Written(old, n, vs)[i] = old[j]
<1>1. CASE vs = {} /\ n \in 1 .. Len(old)
  <2>1. /\ Len(RemoveAt(old, n)) = Len(old) - 1
        /\ \A i \in 1 .. (Len(old) - 1) : \E j \in 1 .. Len(old) : RemoveAt(old, n)[i] = old[j]
    BY <1>1, Removed
  <2>2. Written(old, n, vs) = RemoveAt(old, n)
    BY <1>1 DEF Written
  <2> QED
    BY <2>1, <2>2
<1>2. CASE vs = {} /\ n \notin 1 .. Len(old)
  BY <1>2 DEF Written
<1>3. CASE vs # {} /\ n = 0
  <2>1. Written(old, n, vs) = Append(old, vs)
    BY <1>3 DEF Written
  <2>2. ASSUME NEW i \in 1 .. Len(Append(old, vs))
        PROVE  Append(old, vs)[i] = vs \/ \E j \in 1 .. Len(old) : Append(old, vs)[i] = old[j]
    OBVIOUS
  <2> QED
    BY <2>1, <2>2
<1>4. CASE vs # {} /\ n # 0
  <2>1. Written(old, n, vs) = [old EXCEPT ![n] = vs]
    BY <1>4 DEF Written
  <2>2. Len([old EXCEPT ![n] = vs]) = Len(old)
    OBVIOUS
  <2>3. ASSUME NEW i \in 1 .. Len(old)
        PROVE  [old EXCEPT ![n] = vs][i] = vs \/ [old EXCEPT ![n] = vs][i] = old[i]
    OBVIOUS
  <2> QED
    BY <2>1, <2>2, <2>3
<1> QED
  BY <1>1, <1>2, <1>3, <1>4

LEMMA WrittenHolds ==
  ASSUME NEW old \in Seq(SUBSET Variations), NEW n \in Nat, n <= Len(old),
         NEW vs \in SUBSET Variations, vs # {}
  PROVE  /\ Len(Written(old, n, vs)) >= Len(old)
         /\ \E i \in 1 .. Len(Written(old, n, vs)) : Written(old, n, vs)[i] = vs
         /\ n # 0 => Len(Written(old, n, vs)) = Len(old) /\ Written(old, n, vs)[n] = vs
<1>1. CASE n = 0
  <2>1. Written(old, n, vs) = Append(old, vs)
    BY <1>1 DEF Written
  <2>2. /\ Len(Append(old, vs)) = Len(old) + 1 /\ Append(old, vs)[Len(old) + 1] = vs
        /\ Len(old) \in Nat
    OBVIOUS
  <2> HIDE DEF Written
  <2> QED
    BY <1>1, <2>1, <2>2
<1>2. CASE n # 0
  <2>1. Written(old, n, vs) = [old EXCEPT ![n] = vs]
    BY <1>2 DEF Written
  <2>2. n \in 1 .. Len(old) /\ Len(old) \in Nat
    BY <1>2
  <2>3. Len([old EXCEPT ![n] = vs]) = Len(old) /\ [old EXCEPT ![n] = vs][n] = vs
    BY <2>2
  <2> QED
    BY <2>1, <2>2, <2>3
<1> QED
  BY <1>1, <1>2

Union(q) == UNION {q[i] : i \in 1 .. Len(q)}

\* Sets that held no other items still do after a write of vs.
LEMMA WrittenUnion ==
  ASSUME NEW old \in Seq(SUBSET Variations), NEW n \in Nat, NEW vs \in SUBSET Variations,
         vs # {} => n <= Len(old),
         \A j \in 1 .. Len(old) : old[j] \subseteq vs
  PROVE  Union(Written(old, n, vs)) = vs
<1> DEFINE q == Written(old, n, vs)
<1>1. \A i \in 1 .. Len(q) : q[i] \subseteq vs
  BY WrittenSets
<1>2. vs # {} => \E i \in 1 .. Len(q) : q[i] = vs
  BY WrittenHolds
<1> HIDE DEF q
<1> QED
  BY <1>1, <1>2 DEF Union, q

-----------------------------------------------------------------------------
(* Runs that nothing disturbs *)

InSync(t) == Discounted(t) = InTier(t)
Priced(t) == \A v \in InTier(t) : applied[v] = t
Unmoved   == \A v \in Variations : Verdict(v) \in {Keep, Regress}

\* What a run has read is what is there, and it moves no item.
RunFits(r) ==
  LET run == runs[r]
      t   == Urgent(run.todo)
  IN /\ run.do = "evaluate" => \A v \in Variations : run.plan[v] \in {Keep, Regress}
     /\ AtTier(r) => run.items = InTier(t)
     /\ run.do = "write" => /\ run.valid = run.items
                            /\ run.items # {} => run.found <= Len(rules[t])
     /\ run.do = "sweep" => run.todo = {}

CalmInv == Typed /\ NoRowNoPrice /\ Unmoved /\ \A r \in Runners : RunFits(r)

LEMMA CalmSame ==
  ASSUME CalmInv, [Calm]_vars
  PROVE  /\ UNCHANGED <<due, tier, live>>
         /\ \A t : InTier(t)' = InTier(t)
         /\ Unmoved' /\ Typed' /\ NoRowNoPrice'
<1>1. ASSUME NEW r \in Runners, EvaluateRow(r) PROVE tier' = tier
  BY <1>1 DEF EvaluateRow, CalmInv, RunFits
<1>2. UNCHANGED <<due, tier, live>>
  BY <1>1 DEF Calm, Work, Evaluate, EvaluateRow, Apply, ReadTier, Search, Write, Record,
              Sweep, vars
<1>3. Typed' /\ NoRowNoPrice'
  <2>1. [Next]_vars
    BY DEF Calm, Next
  <2> QED
    BY <2>1, ExpiryTypesStep, PriceStep DEF CalmInv
<1>4. \A t : InTier(t)' = InTier(t)
  BY <1>2 DEF InTier
<1>5. Unmoved'
  BY <1>2 DEF CalmInv, Unmoved, Verdict
<1> QED
  BY <1>2, <1>3, <1>4, <1>5

\* A write under such a run, and the sets it finds and leaves.
LEMMA CalmWrite ==
  ASSUME CalmInv, NEW r \in Runners, Write(r)
  PROVE  LET t  == Urgent(runs[r].todo)
             n  == runs[r].found
             q  == Written(rules[t], n, InTier(t))
         IN /\ t \in AutoTiers /\ n \in Nat /\ InTier(t) \in SUBSET Variations
            /\ rules[t] \in Seq(SUBSET Variations)
            /\ InTier(t) # {} => n <= Len(rules[t])
            /\ rules'[t] = q /\ \A u \in AutoTiers \ {t} : rules'[u] = rules[u]
<1>1. /\ runs[r].do = "write" /\ AtTier(r)
      /\ runs[r].valid = runs[r].items /\ runs[r].items = InTier(Urgent(runs[r].todo))
      /\ runs[r].items # {} => runs[r].found <= Len(rules[Urgent(runs[r].todo)])
  BY DEF Write, AtTier, CalmInv, RunFits
<1>2. runs[r] \in Run /\ rules \in [AutoTiers -> Seq(SUBSET Variations)] /\ Typed
  BY DEF CalmInv, Typed, TypeOK
<1>3. runs[r].found \in Nat /\ runs[r].items \in SUBSET Variations
  BY <1>2 DEF Run
<1> QED
  BY <1>1, <1>2, <1>3, WriteFacts

\* A step that leaves the sets of the tiers and the other runs alone.
LEMMA FitsOn ==
  ASSUME CalmInv, [Calm]_vars, NEW u \in Runners, runs'[u] = runs[u], rules' = rules
  PROVE  RunFits(u)'
BY CalmSame DEF CalmInv, RunFits, AtTier

\* What every step of a run but the write makes of the run.
LEMMA RunnerMoves ==
  ASSUME Typed, NEW r \in Runners
  PROVE  /\ \A then \in BOOLEAN : Evaluate(r, then) =>
              /\ runs'[r].do = "evaluate" /\ runs'[r].then = then
              /\ runs'[r].plan = [v \in Variations |-> Verdict(v)]
         /\ EvaluateRow(r) =>
              /\ runs[r].do = "evaluate"
              /\ \/ /\ runs'[r].do = "evaluate" /\ runs'[r].then = runs[r].then
                    /\ \E v \in Variations :
                         /\ runs[r].plan[v] # Keep
                         /\ runs'[r].plan = [runs[r].plan EXCEPT ![v] = Keep]
                 \/ /\ \A v \in Variations : runs[r].plan[v] = Keep
                    /\ runs'[r] = IF runs[r].then THEN Applying ELSE Idle
         /\ Apply(r) => runs[r].do = "idle" /\ runs'[r] = Applying
         /\ ReadTier(r) =>
              /\ runs[r].do = "read" /\ runs'[r].todo = runs[r].todo
              /\ IF runs[r].todo = {} THEN runs'[r].do = "sweep"
                 ELSE /\ runs'[r].do = "search"
                      /\ runs'[r].items = InTier(Urgent(runs[r].todo))
         /\ Search(r) =>
              /\ runs[r].do = "search" /\ runs'[r].do = "write"
              /\ runs'[r].todo = runs[r].todo /\ runs'[r].items = runs[r].items
              /\ runs'[r].valid = runs[r].items
              /\ runs'[r].found = Len(rules[Urgent(runs[r].todo)])
         /\ Record(r) =>
              /\ runs[r].do = "record" /\ runs'[r].do = "read"
              /\ runs'[r].todo = runs[r].todo \ {Urgent(runs[r].todo)}
         /\ Sweep(r) => runs[r].do = "sweep" /\ runs'[r] = Idle
         /\ \/ \E then \in BOOLEAN : Evaluate(r, then)
            \/ EvaluateRow(r) \/ Apply(r) \/ ReadTier(r) \/ Search(r) \/ Record(r) \/ Sweep(r)
            => rules' = rules /\ \A u \in Runners \ {r} : runs'[u] = runs[u]
<1>0. runs[r] \in Run /\ TypeOK
  BY DEF Typed, TypeOK
<1>1. ASSUME NEW run, Set(r, run)
      PROVE  runs'[r] = run /\ \A u \in Runners \ {r} : runs'[u] = runs[u]
  BY <1>0, <1>1 DEF Set, TypeOK
<1>2. ASSUME NEW then \in BOOLEAN, Evaluate(r, then)
      PROVE  /\ runs'[r].do = "evaluate" /\ runs'[r].then = then
             /\ runs'[r].plan = [v \in Variations |-> Verdict(v)]
             /\ rules' = rules /\ \A u \in Runners \ {r} : runs'[u] = runs[u]
  <2> DEFINE p == [v \in Variations |-> Verdict(v)]
  <2> HIDE DEF p
  <2> DEFINE run == [Idle EXCEPT !.do = "evaluate", !.then = then, !.plan = p]
  <2>1. run.do = "evaluate" /\ run.then = then /\ run.plan = p
    BY DEF Idle
  <2> HIDE DEF run
  <2>2. Set(r, run)
    BY <1>2 DEF Evaluate, p, run
  <2> QED
    BY <1>1, <1>2, <2>1, <2>2 DEF Evaluate, p
<1>3. ASSUME EvaluateRow(r)
      PROVE  /\ runs[r].do = "evaluate"
             /\ \/ /\ runs'[r].do = "evaluate" /\ runs'[r].then = runs[r].then
                   /\ \E v \in Variations :
                        /\ runs[r].plan[v] # Keep
                        /\ runs'[r].plan = [runs[r].plan EXCEPT ![v] = Keep]
                \/ /\ \A v \in Variations : runs[r].plan[v] = Keep
                   /\ runs'[r] = IF runs[r].then THEN Applying ELSE Idle
             /\ rules' = rules /\ \A u \in Runners \ {r} : runs'[u] = runs[u]
  <2>1. runs[r].do = "evaluate" /\ rules' = rules
    BY <1>3 DEF EvaluateRow
  <2>2. \/ \E v \in Variations : /\ runs[r].plan[v] # Keep
                                 /\ Set(r, [runs[r] EXCEPT !.plan[v] = Keep])
        \/ /\ \A v \in Variations : runs[r].plan[v] = Keep
           /\ Set(r, IF runs[r].then THEN Applying ELSE Idle)
    BY <1>3 DEF EvaluateRow
  <2>3. ASSUME NEW v \in Variations
        PROVE  LET run == [runs[r] EXCEPT !.plan[v] = Keep]
               IN /\ run.do = runs[r].do /\ run.then = runs[r].then
                  /\ run.plan = [runs[r].plan EXCEPT ![v] = Keep]
    BY <1>0 DEF Run
  <2>4. ASSUME NEW run, Set(r, run)
        PROVE  runs'[r] = run /\ \A u \in Runners \ {r} : runs'[u] = runs[u]
    BY <1>1, <2>4
  <2>5. CASE /\ \A v \in Variations : runs[r].plan[v] = Keep
             /\ Set(r, IF runs[r].then THEN Applying ELSE Idle)
    BY <2>1, <2>4, <2>5
  <2>6. ASSUME NEW v \in Variations, runs[r].plan[v] # Keep,
               Set(r, [runs[r] EXCEPT !.plan[v] = Keep])
        PROVE  /\ runs'[r].do = "evaluate" /\ runs'[r].then = runs[r].then
               /\ runs'[r].plan = [runs[r].plan EXCEPT ![v] = Keep]
               /\ \A u \in Runners \ {r} : runs'[u] = runs[u]
    BY <2>1, <2>3, <2>4, <2>6
  <2> QED
    BY <2>1, <2>2, <2>5, <2>6
<1>4. ASSUME ReadTier(r)
      PROVE  /\ runs[r].do = "read" /\ runs'[r].todo = runs[r].todo
             /\ IF runs[r].todo = {} THEN runs'[r].do = "sweep"
                ELSE /\ runs'[r].do = "search"
                     /\ runs'[r].items = InTier(Urgent(runs[r].todo))
  <2>1. \A vs : LET run == [runs[r] EXCEPT !.do = "search", !.items = vs]
                IN run.do = "search" /\ run.items = vs /\ run.todo = runs[r].todo
    BY <1>0 DEF Run
  <2>2. LET run == [runs[r] EXCEPT !.do = "sweep"]
        IN run.do = "sweep" /\ run.todo = runs[r].todo
    BY <1>0 DEF Run
  <2> DEFINE run == IF runs[r].todo = {} THEN [runs[r] EXCEPT !.do = "sweep"]
                    ELSE [runs[r] EXCEPT !.do = "search", !.items = InTier(Urgent(runs[r].todo))]
  <2>3. runs[r].do = "read" /\ Set(r, run)
    BY <1>4 DEF ReadTier
  <2>4. runs'[r] = run
    BY <1>1, <2>3
  <2>5. CASE runs[r].todo = {}
    BY <2>2, <2>3, <2>4, <2>5
  <2>6. CASE runs[r].todo # {}
    BY <2>1, <2>3, <2>4, <2>6
  <2> QED
    BY <2>5, <2>6
<1>5. ASSUME Search(r)
      PROVE  /\ runs[r].do = "search" /\ runs'[r].do = "write"
             /\ runs'[r].todo = runs[r].todo /\ runs'[r].items = runs[r].items
             /\ runs'[r].valid = runs[r].items
             /\ runs'[r].found = Len(rules[Urgent(runs[r].todo)])
  <2>1. \A n : LET run == [runs[r] EXCEPT !.do = "write", !.valid = runs[r].items,
                                          !.found = n, !.fresh = TRUE]
               IN /\ run.do = "write" /\ run.todo = runs[r].todo
                  /\ run.items = runs[r].items /\ run.valid = runs[r].items
                  /\ run.found = n
    BY <1>0 DEF Run
  <2> DEFINE n == Len(rules[Urgent(runs[r].todo)])
  <2>2. /\ runs[r].do = "search"
        /\ Set(r, [runs[r] EXCEPT !.do = "write", !.valid = runs[r].items,
                                  !.found = n, !.fresh = TRUE])
    BY <1>5 DEF Search
  <2> HIDE DEF n
  <2>3. runs'[r] = [runs[r] EXCEPT !.do = "write", !.valid = runs[r].items,
                                   !.found = n, !.fresh = TRUE]
    BY <1>1, <2>2
  <2> QED
    BY <2>1, <2>2, <2>3 DEF n
<1>6. \/ EvaluateRow(r) \/ Apply(r) \/ ReadTier(r) \/ Search(r) \/ Record(r) \/ Sweep(r)
      => rules' = rules
  BY DEF EvaluateRow, Apply, ReadTier, Search, Record, Sweep
<1>7. \/ Apply(r) \/ ReadTier(r) \/ Search(r) \/ Record(r) \/ Sweep(r)
      => \E run : Set(r, run)
  BY DEF Apply, ReadTier, Search, Record, Sweep
<1>8. Apply(r) => runs[r].do = "idle" /\ runs'[r] = Applying
  BY <1>1 DEF Apply
<1>9. Record(r) =>
        /\ runs[r].do = "record" /\ runs'[r].do = "read"
        /\ runs'[r].todo = runs[r].todo \ {Urgent(runs[r].todo)}
  BY <1>0, <1>1, DoneRun DEF Record
<1>10. Sweep(r) => runs[r].do = "sweep" /\ runs'[r] = Idle
  BY <1>1 DEF Sweep
<1> QED
  BY <1>1, <1>2, <1>3, <1>4, <1>5, <1>6, <1>7, <1>8, <1>9, <1>10

LEMMA FitsStep ==
  ASSUME CalmInv, [Calm]_vars
  PROVE  CalmInv'
<1> USE ExpiryIdle
<1>0. /\ Typed /\ TypeOK /\ \A r \in Runners : runs[r] \in Run /\ RunFits(r)
      /\ \A t : InTier(t)' = InTier(t)
      /\ Unmoved /\ Unmoved' /\ Typed' /\ NoRowNoPrice'
  BY CalmSame DEF CalmInv, Typed, TypeOK
<1>1. SUFFICES \A u \in Runners : RunFits(u)'
  BY <1>0 DEF CalmInv
<1>2. CASE UNCHANGED vars
  BY <1>2, FitsOn DEF vars
<1>3. ASSUME NEW r \in Runners, RunFits(r)',
             \/ \E then \in BOOLEAN : Evaluate(r, then)
             \/ EvaluateRow(r) \/ Apply(r) \/ ReadTier(r) \/ Search(r) \/ Record(r) \/ Sweep(r)
      PROVE  \A u \in Runners : RunFits(u)'
  BY <1>0, <1>3, RunnerMoves, FitsOn
<1>4. ASSUME NEW r \in Runners, NEW then \in BOOLEAN, Evaluate(r, then)
      PROVE  RunFits(r)'
  <2>1. runs'[r].do = "evaluate" /\ runs'[r].plan = [v \in Variations |-> Verdict(v)]
    BY <1>0, <1>4, RunnerMoves
  <2> QED
    BY <1>0, <2>1 DEF RunFits, AtTier, Unmoved
<1>5. ASSUME NEW r \in Runners, EvaluateRow(r)
      PROVE  RunFits(r)'
  <2>1. runs[r].plan \in [Variations -> Tiers \cup {Keep, Regress}]
    BY <1>0 DEF Run
  <2>2. \A v \in Variations : runs[r].plan[v] \in {Keep, Regress}
    BY <1>0, <1>5, RunnerMoves DEF RunFits
  <2>3. CASE runs'[r].do = "evaluate"
    <3>1. ASSUME NEW v \in Variations, runs'[r].plan = [runs[r].plan EXCEPT ![v] = Keep]
          PROVE  \A w \in Variations : runs'[r].plan[w] \in {Keep, Regress}
      BY <2>1, <2>2, <3>1
    <3> QED
      BY <1>0, <1>5, <2>3, <3>1, RunnerMoves DEF RunFits, AtTier
  <2>4. CASE runs'[r] = Applying \/ runs'[r] = Idle
    BY <2>4 DEF RunFits, AtTier
  <2> QED
    BY <1>0, <1>5, <2>3, <2>4, RunnerMoves
<1>6. ASSUME NEW r \in Runners, Apply(r)
      PROVE  RunFits(r)'
  BY <1>0, <1>6, RunnerMoves DEF RunFits, AtTier
<1>7. ASSUME NEW r \in Runners, ReadTier(r)
      PROVE  RunFits(r)'
  BY <1>0, <1>7, RunnerMoves DEF RunFits, AtTier
<1>8. ASSUME NEW r \in Runners, Search(r)
      PROVE  RunFits(r)'
  <2>1. rules' = rules /\ AtTier(r) /\ runs[r].todo # {} /\ runs[r].todo \in SUBSET AutoTiers
    BY <1>0, <1>8, RunnerMoves DEF AtTier, Typed, Run
  <2>2. Len(rules[Urgent(runs[r].todo)]) \in Nat
    BY <1>0, <2>1, MostUrgent DEF TypeOK
  <2> QED
    BY <1>0, <1>8, <2>1, <2>2, RunnerMoves DEF RunFits, AtTier
<1>9. ASSUME NEW r \in Runners, Record(r)
      PROVE  RunFits(r)'
  BY <1>0, <1>9, RunnerMoves DEF RunFits, AtTier
<1>10. ASSUME NEW r \in Runners, Sweep(r)
       PROVE  RunFits(r)'
  BY <1>0, <1>10, RunnerMoves DEF RunFits, AtTier
<1>11. ASSUME NEW r \in Runners, Write(r)
       PROVE  \A u \in Runners : RunFits(u)'
  <2> DEFINE t == Urgent(runs[r].todo)
             n == runs[r].found
  <2>1. /\ t \in AutoTiers /\ n \in Nat /\ InTier(t) \in SUBSET Variations
        /\ rules[t] \in Seq(SUBSET Variations)
        /\ InTier(t) # {} => n <= Len(rules[t])
        /\ rules'[t] = Written(rules[t], n, InTier(t))
        /\ \A x \in AutoTiers \ {t} : rules'[x] = rules[x]
    BY <1>11, CalmWrite
  <2>2. runs[r].do = "write"
    BY <1>11 DEF Write
  <2> HIDE DEF t, n
  <2>3. InTier(t) # {} => Len(rules'[t]) >= Len(rules[t])
    BY <2>1, WrittenHolds
  <2>4. ASSUME NEW u \in Runners PROVE RunFits(u)'
    <3> DEFINE x == Urgent(runs[u].todo)
    <3>1. /\ runs'[u].todo = runs[u].todo /\ runs'[u].items = runs[u].items
          /\ runs'[u].plan = runs[u].plan /\ runs'[u].valid = runs[u].valid
          /\ runs'[u].found = runs[u].found
          /\ runs'[u].do = IF u = r THEN "record" ELSE runs[u].do
      BY <1>0, <1>11, WriteRuns
    <3>2. AtTier(u)' => AtTier(u)
      BY <2>2, <3>1 DEF AtTier
    <3>3. CASE runs'[u].do = "write"
      <4>1. /\ runs[u].do = "write" /\ AtTier(u) /\ runs[u].valid = runs[u].items
            /\ runs[u].items = InTier(x)
            /\ InTier(x) # {} => runs[u].found <= Len(rules[x])
        BY <1>0, <3>1, <3>3 DEF AtTier, RunFits
      <4>2. runs[u].todo # {} /\ runs[u].todo \in SUBSET AutoTiers
        BY <1>0, <4>1 DEF Typed, Run
      <4>3. x \in AutoTiers
        BY <4>2, MostUrgent
      <4>4. /\ runs[u].found \in Nat
            /\ Len(rules[x]) \in Nat /\ Len(rules'[x]) \in Nat
        BY <1>0, <4>3 DEF Run, Typed, TypeOK
      <4> HIDE DEF x
      <4>5. InTier(x) # {} => Len(rules'[x]) >= Len(rules[x])
        BY <2>1, <2>3, <4>3, <4>4
      <4>6. InTier(x) # {} => runs[u].found <= Len(rules'[x])
        BY <4>1, <4>4, <4>5
      <4>7. Urgent(runs'[u].todo) = x
        BY <3>1 DEF x
      <4> QED
        BY <1>0, <3>1, <3>3, <4>1, <4>6, <4>7 DEF RunFits
    <3>4. CASE runs'[u].do # "write"
      BY <1>0, <3>1, <3>2, <3>4 DEF RunFits
    <3> QED
      BY <3>3, <3>4
  <2> QED
    BY <2>4
<1> QED
  BY <1>2, <1>3, <1>4, <1>5, <1>6, <1>7, <1>8, <1>9, <1>10, <1>11 DEF Calm, Work

\* Which steps write the product sets, and which the prices.
LEMMA CalmWrites ==
  ASSUME CalmInv, [Calm]_vars
  PROVE  \/ UNCHANGED <<rules, applied>>
         \/ applied' = applied /\ \E r \in Runners : Write(r)
         \/ /\ rules' = rules
            /\ \E r \in Runners :
                 LET t == Urgent(runs[r].todo)
                 IN /\ Record(r) /\ t \in AutoTiers
                    /\ applied' = [v \in Variations |-> IF v \in InTier(t) THEN t ELSE applied[v]]
         \/ /\ rules' = rules
            /\ \E r \in Runners : Sweep(r)
            /\ applied' = [v \in Variations |-> IF tier[v] \in Tiers \ AutoTiers THEN NoTier
                                                 ELSE applied[v]]
<1>1. ASSUME NEW r \in Runners, Record(r)
      PROVE  LET t == Urgent(runs[r].todo)
             IN /\ t \in AutoTiers
                /\ applied' = [v \in Variations |-> IF v \in InTier(t) THEN t ELSE applied[v]]
  <2> DEFINE t == Urgent(runs[r].todo)
  <2>1. AtTier(r) /\ runs[r].items = InTier(t) /\ runs[r] \in Run /\ runs[r].todo # {}
    BY <1>1 DEF Record, CalmInv, RunFits, AtTier, Typed, TypeOK
  <2>2. t \in AutoTiers /\ t # NoTier
    BY <2>1, MostUrgent, TierAssumption DEF Run, NoTier
  <2> HIDE DEF t
  <2>3. applied' = [v \in Variations |-> IF v \in InTier(t) /\ tier[v] # NoTier THEN t
                                          ELSE applied[v]]
    BY <1>1, <2>1 DEF Record, t
  <2>4. \A v \in InTier(t) : tier[v] # NoTier
    BY <2>2 DEF InTier
  <2> QED
    BY <2>2, <2>3, <2>4 DEF t
<1>2. ASSUME NEW r \in Runners,
             \/ \E then \in BOOLEAN : Evaluate(r, then)
             \/ EvaluateRow(r) \/ Apply(r) \/ ReadTier(r) \/ Search(r)
      PROVE  UNCHANGED <<rules, applied>>
  BY <1>2 DEF Evaluate, EvaluateRow, Apply, ReadTier, Search
<1>3. ASSUME NEW r \in Runners, Write(r) PROVE applied' = applied
  BY <1>3 DEF Write
<1>4. ASSUME NEW r \in Runners, Record(r) PROVE rules' = rules
  BY <1>4 DEF Record
<1>5. ASSUME NEW r \in Runners, Sweep(r)
      PROVE  /\ rules' = rules
             /\ applied' = [v \in Variations |-> IF tier[v] \in Tiers \ AutoTiers THEN NoTier
                                                  ELSE applied[v]]
  BY <1>5 DEF Sweep
<1>6. CASE UNCHANGED vars
  BY <1>6 DEF vars
<1> QED
  BY <1>1, <1>2, <1>3, <1>4, <1>5, <1>6 DEF Calm, Work

LEMMA DiscountedUnion == \A t : Discounted(t) = Union(rules[t]) /\ Discounted(t)' = Union(rules'[t])
BY DEF Discounted, Union

\* A tier in sync stays in sync, whatever the version and the number of sets found.
LEMMA SyncStays ==
  ASSUME CalmInv, [Calm]_vars, NEW t \in AutoTiers, InSync(t)
  PROVE  InSync(t)'
<1>1. InTier(t)' = InTier(t)
  BY CalmSame
<1>2. CASE rules' = rules
  BY <1>1, <1>2 DEF InSync, Discounted
<1>3. ASSUME NEW r \in Runners, Write(r)
      PROVE  InSync(t)'
  <2> DEFINE x == Urgent(runs[r].todo)
             n == runs[r].found
  <2>1. /\ n \in Nat /\ InTier(x) \in SUBSET Variations
        /\ rules[x] \in Seq(SUBSET Variations)
        /\ InTier(x) # {} => n <= Len(rules[x])
        /\ rules'[x] = Written(rules[x], n, InTier(x))
        /\ \A y \in AutoTiers \ {x} : rules'[y] = rules[y]
    BY <1>3, CalmWrite
  <2> HIDE DEF x, n
  <2>2. CASE t = x
    <3>1. \A j \in 1 .. Len(rules[t]) : rules[t][j] \subseteq InTier(t)
      BY DEF InSync, Discounted
    <3>2. Union(rules'[t]) = InTier(t)
      BY <2>1, <2>2, <3>1, WrittenUnion
    <3> QED
      BY <1>1, <3>2, DiscountedUnion DEF InSync
  <2>3. CASE t # x
    BY <1>1, <2>1, <2>3, DiscountedUnion DEF InSync
  <2> QED
    BY <2>2, <2>3
<1> QED
  BY <1>2, <1>3, CalmWrites

LEMMA PricedStays ==
  ASSUME CalmInv, [Calm]_vars, NEW t \in AutoTiers, Priced(t)
  PROVE  Priced(t)'
<1>1. InTier(t)' = InTier(t) /\ InTier(t) \subseteq Variations /\ \A v \in InTier(t) : tier[v] = t
  BY CalmSame DEF InTier
<1>2. \A x : x # t => InTier(x) \cap InTier(t) = {}
  BY DEF InTier
<1> QED
  BY <1>1, <1>2, CalmWrites DEF Priced

LEMMA FollowsStep ==
  ASSUME CalmInv, [Calm]_vars, Follows
  PROVE  Follows'
<1>1. tier' = tier /\ live' = live
  BY CalmSame
<1>2. \A t \in AutoTiers : InSync(t)'
  BY SyncStays DEF Follows, InSync
<1>3. ASSUME NEW v \in Variations, live[v]
      PROVE  applied'[v] = IF tier[v] \in AutoTiers THEN tier[v] ELSE NoTier
  <2>1. applied[v] = IF tier[v] \in AutoTiers THEN tier[v] ELSE NoTier
    BY <1>3 DEF Follows
  <2>2. \A t : v \in InTier(t) => tier[v] = t
    BY DEF InTier
  <2> QED
    BY <2>1, <2>2, CalmWrites
<1> QED
  BY <1>1, <1>2, <1>3 DEF Follows, InSync

AllIdle == \A r \in Runners : runs[r].do = "idle"

\* Once what Square discounts and the prices recorded follow the tiers, no run undoes it as
\* long as nothing is to be moved: for any number of runners at any step of each other, and
\* any number of product sets of a tier (the part of SquareFollows that says it lasts).
THEOREM FollowingStays ==
  /\ TypeOK /\ NoRowNoPrice /\ Unmoved /\ AllIdle /\ Follows
  /\ [][Calm]_vars
  => []Follows
<1>1. TypeOK /\ NoRowNoPrice /\ Unmoved /\ AllIdle => CalmInv
  BY DEF CalmInv, Typed, AllIdle, AtTier, RunFits
<1>2. CalmInv /\ Follows /\ [Calm]_vars => (CalmInv /\ Follows)'
  BY FitsStep, FollowsStep
<1> QED
  BY <1>1, <1>2, PTL

-----------------------------------------------------------------------------
(* An application of the discounts *)

\* The product sets of the tier all hold its items.
Uniform(t) == \A i \in 1 .. Len(rules[t]) : rules[t][i] = InTier(t)

\* A tier has one set at most, or sets that runs have made of its present items; who is
\* about to write has found the one set there is, or no stale one is left.
Tidy ==
  /\ \A t \in AutoTiers : Len(rules[t]) <= 1 \/ Uniform(t)
  /\ \A r \in Runners :
       LET t == Urgent(runs[r].todo)
       IN runs[r].do = "write" => Uniform(t) \/ (Len(rules[t]) = 1 /\ runs[r].found = 1)

\* How far an application has come.
Reaches(r) ==
  /\ runs[r].do \in {"read", "search", "write", "record", "sweep"}
  /\ \A t \in AutoTiers \ runs[r].todo : InSync(t) /\ Priced(t)
  /\ runs[r].do = "record" => InSync(Urgent(runs[r].todo))

\* A write leaves the sets of its tier uniform, and the tier in sync.
LEMMA WriteLands ==
  ASSUME CalmInv, Tidy, NEW r \in Runners, Write(r),
         NEW t \in AutoTiers, t = Urgent(runs[r].todo)
  PROVE  InSync(t)' /\ Uniform(t)'
<1> DEFINE n == runs[r].found
           vs == InTier(t)
           old == rules[t]
           q == Written(old, n, vs)
<1>1. /\ n \in Nat /\ vs \in SUBSET Variations /\ old \in Seq(SUBSET Variations)
      /\ vs # {} => n <= Len(old)
      /\ rules'[t] = q
  BY CalmWrite
<1>2. (\A i \in 1 .. Len(old) : old[i] = vs) \/ (Len(old) = 1 /\ n = 1)
  BY DEF Tidy, Write, Uniform
<1>3. InTier(t)' = vs
  BY DEF Write, InTier
<1> HIDE DEF n, vs, old
<1>4. \A i \in 1 .. Len(q) : q[i] = vs
  <2>1. CASE \A i \in 1 .. Len(old) : old[i] = vs
    BY <1>1, <2>1, WrittenSets
  <2>2. CASE Len(old) = 1 /\ n = 1 /\ vs = {}
    <3>1. n \in 1 .. Len(old)
      BY <2>2
    <3>2. q = RemoveAt(old, n)
      BY <2>2, <3>1 DEF Written
    <3>3. Len(q) = Len(old) - 1
      BY <1>1, <3>1, <3>2, Removed
    <3>4. Len(q) = 0
      BY <2>2, <3>3
    <3> QED
      BY <3>4
  <2>3. CASE Len(old) = 1 /\ n = 1 /\ vs # {}
    <3>1. n <= Len(old) /\ n # 0
      BY <2>3
    <3>2. Len(q) = Len(old) /\ q[n] = vs
      BY <1>1, <2>3, <3>1, WrittenHolds
    <3> HIDE DEF q
    <3> QED
      BY <2>3, <3>2
  <2> QED
    BY <1>2, <2>1, <2>2, <2>3
<1>5. vs # {} => \E i \in 1 .. Len(q) : q[i] = vs
  BY <1>1, WrittenHolds
<1> HIDE DEF q
<1>6. Union(q) = vs
  BY <1>4, <1>5 DEF Union
<1> QED
  BY <1>1, <1>3, <1>4, <1>6, DiscountedUnion DEF InSync, Uniform

LEMMA TidyStep ==
  ASSUME CalmInv, Tidy, [Calm]_vars
  PROVE  Tidy'
<1>0. Typed /\ CalmInv' /\ \A t : InTier(t)' = InTier(t)
  BY CalmSame, FitsStep DEF CalmInv
<1>1. CASE UNCHANGED vars
  BY <1>0, <1>1 DEF Tidy, Uniform, vars
<1>2. ASSUME NEW r \in Runners, rules' = rules,
             \A u \in Runners \ {r} : runs'[u] = runs[u],
             runs'[r].do = "write" =>
               \E t \in AutoTiers : /\ t = Urgent(runs'[r].todo)
                                    /\ Uniform(t) \/ (Len(rules[t]) = 1 /\ runs'[r].found = 1)
      PROVE  Tidy'
  <2>1. \A t : Uniform(t)' <=> Uniform(t)
    BY <1>0, <1>2 DEF Uniform
  <2> QED
    BY <1>2, <2>1 DEF Tidy
<1>3. ASSUME NEW r \in Runners, Search(r)
      PROVE  Tidy'
  <2>1. /\ runs'[r].todo = runs[r].todo /\ rules' = rules
        /\ runs'[r].found = Len(rules[Urgent(runs[r].todo)])
        /\ \A u \in Runners \ {r} : runs'[u] = runs[u]
    BY <1>0, <1>3, RunnerMoves
  <2>2. AtTier(r) /\ runs[r].todo # {} /\ runs[r].todo \in SUBSET AutoTiers
    BY <1>0, <1>3 DEF Search, AtTier, Typed, TypeOK, Run
  <2>3. PICK t \in AutoTiers : t = Urgent(runs[r].todo)
    BY <2>2, MostUrgent
  <2>4. PICK n \in Nat : n = Len(rules[t])
    BY <1>0 DEF Typed, TypeOK
  <2>5. n <= 1 \/ Uniform(t)
    BY <2>4 DEF Tidy
  <2>6. n = 0 => Uniform(t)
    BY <2>4 DEF Uniform
  <2>7. Uniform(t) \/ n = 1
    BY <2>5, <2>6
  <2> QED
    BY <1>2, <2>1, <2>3, <2>4, <2>7
<1>4. ASSUME NEW r \in Runners, Write(r)
      PROVE  Tidy'
  <2>1. PICK t \in AutoTiers : t = Urgent(runs[r].todo)
    BY <1>0, <1>4, WriteFacts
  <2>2. Uniform(t)' /\ \A x \in AutoTiers \ {t} : rules'[x] = rules[x]
    BY <1>0, <1>4, <2>1, WriteLands, WriteFacts
  <2>3. ASSUME NEW x \in AutoTiers \ {t} PROVE Uniform(x)' <=> Uniform(x)
    BY <1>0, <2>2 DEF Uniform
  <2>4. ASSUME NEW u \in Runners, runs'[u].do = "write"
        PROVE  \E x \in AutoTiers :
                 /\ x = Urgent(runs'[u].todo)
                 /\ Uniform(x)' \/ (Len(rules'[x]) = 1 /\ runs'[u].found = 1)
    <3>1. /\ u # r /\ runs[u].do = "write" /\ runs'[u].todo = runs[u].todo
          /\ runs'[u].found = runs[u].found
      BY <1>0, <1>4, <2>4, WriteRuns
    <3>2. runs[u].todo # {} /\ runs[u].todo \in SUBSET AutoTiers
      BY <1>0, <3>1 DEF AtTier, Typed, TypeOK, Run
    <3>3. PICK x \in AutoTiers : x = Urgent(runs[u].todo)
      BY <3>2, MostUrgent
    <3>4. Uniform(x) \/ (Len(rules[x]) = 1 /\ runs[u].found = 1)
      BY <3>1, <3>3 DEF Tidy
    <3> QED
      BY <2>2, <2>3, <3>1, <3>3, <3>4
  <2>5. ASSUME NEW x \in AutoTiers PROVE Len(rules'[x]) <= 1 \/ Uniform(x)'
    BY <2>2, <2>3 DEF Tidy
  <2> QED
    BY <2>4, <2>5 DEF Tidy
<1>5. ASSUME NEW r \in Runners,
             \/ \E then \in BOOLEAN : Evaluate(r, then)
             \/ EvaluateRow(r) \/ Apply(r) \/ ReadTier(r) \/ Record(r) \/ Sweep(r)
      PROVE  Tidy'
  <2>1. runs'[r].do # "write"
    BY <1>0, <1>5, RunnerMoves, ExpiryIdle
  <2> QED
    BY <1>0, <1>2, <1>5, <2>1, RunnerMoves
<1> QED
  BY <1>1, <1>3, <1>4, <1>5 DEF Calm, Work

\* An application goes on until what it has put in order is everything.
LEMMA ReachesStep ==
  ASSUME CalmInv, Tidy, [Calm]_vars, NEW r \in Runners, Reaches(r)
  PROVE  Reaches(r)' \/ Follows'
<1>0. Typed /\ NoRowNoPrice /\ RunFits(r) /\ runs[r] \in Run
  BY DEF CalmInv, Typed, TypeOK
<1>1. /\ \A t \in AutoTiers : InSync(t) => InSync(t)'
      /\ \A t \in AutoTiers : Priced(t) => Priced(t)'
  BY SyncStays, PricedStays
<1>2. ASSUME runs'[r].do = runs[r].do, runs'[r].todo = runs[r].todo
      PROVE  Reaches(r)'
  <2>1. ASSUME runs[r].do = "record" PROVE InSync(Urgent(runs[r].todo))'
    <3>1. AtTier(r) /\ runs[r].todo # {} /\ runs[r].todo \in SUBSET AutoTiers
      BY <1>0, <2>1 DEF AtTier, Typed, Run
    <3>2. PICK t \in AutoTiers : t = Urgent(runs[r].todo)
      BY <3>1, MostUrgent
    <3>3. InSync(t)'
      BY <1>1, <2>1, <3>2 DEF Reaches
    <3>4. t = Urgent(runs'[r].todo)
      BY <1>2, <3>2
    <3> QED
      BY <3>3, <3>4
  <2> QED
    BY <1>1, <1>2, <2>1 DEF Reaches
<1>3. CASE UNCHANGED vars
  BY <1>2, <1>3 DEF vars
<1>4. ASSUME NEW u \in Runners \ {r},
             \/ \E then \in BOOLEAN : Evaluate(u, then)
             \/ EvaluateRow(u) \/ Apply(u) \/ ReadTier(u) \/ Search(u) \/ Record(u) \/ Sweep(u)
      PROVE  Reaches(r)'
  BY <1>0, <1>2, <1>4, RunnerMoves
<1>5. ASSUME NEW u \in Runners \ {r}, Write(u)
      PROVE  Reaches(r)'
  BY <1>0, <1>2, <1>5, WriteRuns
<1>6. ASSUME Write(r)
      PROVE  Reaches(r)'
  <2>1. PICK t \in AutoTiers : t = Urgent(runs[r].todo)
    BY <1>0, <1>6, WriteFacts
  <2>2. InSync(t)'
    BY <1>6, <2>1, WriteLands
  <2>3. runs'[r].do = "record" /\ runs'[r].todo = runs[r].todo
    BY <1>0, <1>6, WriteRuns
  <2>4. t = Urgent(runs'[r].todo)
    BY <2>1, <2>3
  <2>5. InSync(Urgent(runs[r].todo))'
    BY <2>2, <2>4
  <2> QED
    BY <1>1, <2>3, <2>5 DEF Reaches
<1>7. ASSUME \/ \E then \in BOOLEAN : Evaluate(r, then)
             \/ EvaluateRow(r) \/ Apply(r)
      PROVE  FALSE
  BY <1>7 DEF Evaluate, EvaluateRow, Apply, Reaches
<1>8. ASSUME ReadTier(r) \/ Search(r)
      PROVE  Reaches(r)'
  <2>1. runs'[r].todo = runs[r].todo /\ runs'[r].do \in {"search", "sweep", "write"}
    BY <1>0, <1>8, RunnerMoves
  <2> QED
    BY <1>1, <2>1 DEF Reaches
<1>9. ASSUME Record(r)
      PROVE  Reaches(r)'
  <2>1. /\ runs[r].do = "record" /\ AtTier(r) /\ runs[r].todo # {}
        /\ runs[r].todo \in SUBSET AutoTiers /\ runs[r].items = InTier(Urgent(runs[r].todo))
    BY <1>0, <1>9 DEF Record, RunFits, AtTier, Typed, Run
  <2>2. PICK t \in AutoTiers : t = Urgent(runs[r].todo)
    BY <2>1, MostUrgent
  <2>3. InSync(t)'
    BY <1>1, <2>1, <2>2 DEF Reaches
  <2>4. Priced(t)'
    <3>1. t # NoTier
      BY TierAssumption DEF NoTier
    <3>2. applied' = [v \in Variations |-> IF v \in InTier(t) /\ tier[v] # NoTier THEN t
                                            ELSE applied[v]]
      BY <1>9, <2>1, <2>2 DEF Record
    <3>3. InTier(t)' = InTier(t) /\ \A v \in InTier(t) : v \in Variations /\ tier[v] = t
      BY CalmSame DEF InTier
    <3> QED
      BY <3>1, <3>2, <3>3 DEF Priced
  <2>5. runs'[r].do = "read" /\ runs'[r].todo = runs[r].todo \ {t}
    BY <1>0, <1>9, <2>2, RunnerMoves
  <2> QED
    BY <1>1, <2>3, <2>4, <2>5 DEF Reaches
<1>10. ASSUME Sweep(r)
       PROVE  Follows'
  <2>1. runs[r].todo = {}
    BY <1>0, <1>10 DEF Sweep, RunFits
  <2>2. \A t \in AutoTiers : InSync(t)' /\ Priced(t)
    BY <1>1, <2>1 DEF Reaches
  <2>3. UNCHANGED <<tier, live>>
    BY <1>10 DEF Sweep
  <2>4. ASSUME NEW v \in Variations, live[v]
        PROVE  applied'[v] = IF tier[v] \in AutoTiers THEN tier[v] ELSE NoTier
    <3>1. applied'[v] = IF tier[v] \in Tiers \ AutoTiers THEN NoTier ELSE applied[v]
      BY <1>10 DEF Sweep
    <3>2. tier[v] \in Tiers \cup {NoTier} /\ NoTier \notin AutoTiers
      BY <1>0, TierAssumption DEF Typed, TypeOK, NoTier
    <3>3. tier[v] \in AutoTiers => applied[v] = tier[v]
      BY <2>2, <2>4 DEF Priced, InTier
    <3>4. tier[v] = NoTier => applied[v] = NoTier
      BY <1>0 DEF NoRowNoPrice
    <3> QED
      BY <3>1, <3>2, <3>3, <3>4
  <2> QED
    BY <2>2, <2>3, <2>4 DEF Follows, InSync
<1> QED
  BY <1>3, <1>4, <1>5, <1>6, <1>7, <1>8, <1>9, <1>10 DEF Calm, Work

\* An application begins with every automatic tier still to do.
Begun(r) == runs[r].do = "read" /\ runs[r].todo = AutoTiers

RepairsInv(r) == CalmInv /\ Tidy /\ (Reaches(r) \/ Follows)

LEMMA RepairsStart ==
  ASSUME NEW r \in Runners, TypeOK, NoRowNoPrice, Unmoved, OneSet, Begun(r),
         \A u \in Runners \ {r} : runs[u].do = "idle"
  PROVE  RepairsInv(r)
<1>1. \A u \in Runners : runs[u].do \in {"idle", "read"}
  BY DEF Begun
<1>2. CalmInv
  BY <1>1 DEF CalmInv, Typed, AtTier, RunFits
<1> QED
  BY <1>1, <1>2 DEF RepairsInv, Tidy, OneSet, Reaches, Begun

LEMMA RepairsStep ==
  ASSUME NEW r \in Runners, RepairsInv(r), [Calm]_vars
  PROVE  RepairsInv(r)'
BY FitsStep, TidyStep, ReachesStep, FollowsStep DEF RepairsInv

\* Whatever failures, crashes and changes under a run left of the product sets and the
\* prices recorded: an application that begins when nothing is to be moved, and is not
\* disturbed by more than other runs, leaves both as the tiers say when it ends (the
\* other part of SquareFollows).  A tier may have one stale set; of two, the run would
\* update only one.
THEOREM ApplicationRepairs ==
  ASSUME NEW r \in Runners
  PROVE  /\ TypeOK /\ NoRowNoPrice /\ Unmoved /\ OneSet
         /\ Begun(r) /\ \A u \in Runners \ {r} : runs[u].do = "idle"
         /\ [][Calm]_vars
         => [](runs[r].do = "idle" => Follows)
<1>1. /\ TypeOK /\ NoRowNoPrice /\ Unmoved /\ OneSet
      /\ Begun(r) /\ (\A u \in Runners \ {r} : runs[u].do = "idle")
      => RepairsInv(r)
  BY RepairsStart
<1>2. RepairsInv(r) /\ [Calm]_vars => RepairsInv(r)'
  BY RepairsStep
<1>3. RepairsInv(r) => (runs[r].do = "idle" => Follows)
  BY DEF RepairsInv, Reaches
<1> QED
  BY <1>1, <1>2, <1>3, PTL

-----------------------------------------------------------------------------
(* An evaluation *)

\* The item is in the tier its date calls for, or up for review in a steeper one, or it
\* has no date or is deleted.
Reviewed(v) == Verdict(v) = Keep \/ (Verdict(v) = Regress /\ flagged[v])

\* What an evaluation is about to do is still what the date calls for, or done.
PlanFits(r) ==
  runs[r].do = "evaluate" =>
    \A v \in Variations :
      LET to == runs[r].plan[v]
      IN to # Keep => /\ live[v] /\ due[v] \in Tiers
                      /\ to = Regress => due[v] < tier[v]
                      /\ to # Regress => to = due[v] /\ tier[v] <= due[v]

EvalInv(r) ==
  /\ Typed
  /\ \A u \in Runners : PlanFits(u)
  /\ \A v \in Variations :
       Reviewed(v) \/ (runs[r].do = "evaluate" /\ runs[r].plan[v] = Verdict(v))

\* A row is written as planned: afterwards it is reviewed, and no plan is disturbed.
LEMMA RowWritten ==
  ASSUME Typed, \A u \in Runners : PlanFits(u), NEW r \in Runners, EvaluateRow(r),
         NEW v \in Variations, runs[r].plan[v] # Keep,
         flagged' = [flagged EXCEPT ![v] = runs[r].plan[v] = Regress /\ (@ \/ tier[v] # NoTier)],
         tier' = IF runs[r].plan[v] = Regress THEN tier ELSE [tier EXCEPT ![v] = runs[r].plan[v]],
         runs' = [runs EXCEPT ![r] = [runs[r] EXCEPT !.plan[v] = Keep]]
  PROVE  /\ UNCHANGED <<due, live>>
         /\ Reviewed(v)' /\ \A w \in Variations \ {v} : Verdict(w)' = Verdict(w)
                                                        /\ flagged'[w] = flagged[w]
         /\ \A u \in Runners : PlanFits(u)'
<1> DEFINE to == runs[r].plan[v]
<1>0. /\ runs[r].do = "evaluate" /\ runs[r] \in Run /\ to \in Tiers \cup {Regress}
      /\ tier \in [Variations -> Tiers \cup {NoTier}] /\ flagged \in [Variations -> BOOLEAN]
      /\ UNCHANGED <<due, live>>
  BY DEF EvaluateRow, Typed, TypeOK, Run
<1>1. /\ Tiers \subseteq Nat /\ Keep \notin Tiers /\ Regress \notin Tiers /\ NoTier \notin Tiers
      /\ NoTier \in Int /\ Regress # Keep
  BY TierAssumption DEF Tiers, Keep, Regress, NoTier
<1>2. /\ live[v] /\ due[v] \in Tiers
      /\ to = Regress => due[v] < tier[v]
      /\ to # Regress => to = due[v] /\ tier[v] <= due[v]
  BY <1>0 DEF PlanFits
<1>3. \A w \in Variations \ {v} : tier'[w] = tier[w] /\ flagged'[w] = flagged[w]
  BY <1>0
<1>4. \A w \in Variations \ {v} : Verdict(w)' = Verdict(w)
  BY <1>0, <1>3 DEF Verdict
<1>5. ASSUME to = Regress PROVE Reviewed(v)'
  <2>1. tier' = tier /\ flagged'[v] = TRUE
    <3>1. tier[v] # NoTier
      <4>1. due[v] \in Nat /\ due[v] < tier[v] /\ ~ (due[v] < -1)
        BY <1>1, <1>2, <1>5
      <4> QED
        BY <4>1 DEF NoTier
    <3> QED
      BY <1>0, <1>5, <3>1
  <2>2. Verdict(v)' = Regress
    <3>1. due[v] # tier[v]
      BY <1>0, <1>1, <1>2, <1>5 DEF NoTier
    <3> QED
      BY <1>0, <1>2, <1>5, <2>1, <3>1 DEF Verdict
  <2> QED
    BY <2>1, <2>2, <1>3 DEF Reviewed
<1>6. ASSUME to # Regress PROVE Reviewed(v)'
  <2>1. tier'[v] = due[v]
    BY <1>0, <1>2, <1>6
  <2>2. Verdict(v)' = Keep
    BY <1>0, <2>1 DEF Verdict
  <2> QED
    BY <2>2 DEF Reviewed
<1>7. Reviewed(v)'
  BY <1>5, <1>6
<1>8. ASSUME NEW u \in Runners PROVE PlanFits(u)'
  <2>1. /\ runs[u] \in Run
        /\ runs'[u].do = runs[u].do
        /\ \A w \in Variations : runs'[u].plan[w] \in {runs[u].plan[w], Keep}
    BY <1>0 DEF Typed, TypeOK, Run
  <2>2. ASSUME NEW w \in Variations, runs'[u].do = "evaluate", runs'[u].plan[w] # Keep
        PROVE  LET so == runs'[u].plan[w]
               IN /\ live'[w] /\ due'[w] \in Tiers
                  /\ so = Regress => due'[w] < tier'[w]
                  /\ so # Regress => so = due'[w] /\ tier'[w] <= due'[w]
    <3> DEFINE so == runs[u].plan[w]
    <3>1. /\ live[w] /\ due[w] \in Tiers
          /\ so = Regress => due[w] < tier[w]
          /\ so # Regress => so = due[w] /\ tier[w] <= due[w]
          /\ runs'[u].plan[w] = so
      BY <2>1, <2>2 DEF PlanFits
    <3>2. CASE w # v
      BY <1>0, <1>3, <3>1, <3>2
    <3>3. CASE w = v /\ to = Regress
      BY <1>0, <3>1, <3>3
    <3>4. CASE w = v /\ to # Regress
      <4>1. tier'[v] = due[v]
        BY <1>0, <1>2, <3>4
      <4>2. so # Regress
        <5>1. due[v] \in Nat /\ tier[v] \in Int /\ tier[v] <= due[v]
          BY <1>0, <1>1, <1>2, <3>4
        <5> QED
          BY <3>1, <3>4, <5>1
      <4>3. due[v] <= due[v]
        BY <1>1, <1>2
      <4> QED
        BY <1>0, <3>1, <3>4, <4>1, <4>2, <4>3
    <3> QED
      BY <3>2, <3>3, <3>4
  <2> QED
    BY <2>2 DEF PlanFits
<1> QED
  BY <1>0, <1>3, <1>4, <1>7, <1>8

\* A verdict is a plan that fits.
LEMMA VerdictFits ==
  ASSUME TypeOK, NEW v \in Variations, Verdict(v) # Keep
  PROVE  /\ live[v] /\ due[v] \in Tiers
         /\ Verdict(v) = Regress => due[v] < tier[v]
         /\ Verdict(v) # Regress => Verdict(v) = due[v] /\ tier[v] <= due[v]
<1>1. due[v] \in Tiers => due[v] \in Int /\ due[v] >= 0
  BY TierAssumption DEF Tiers
<1>2. tier[v] \in Int
  BY TierAssumption DEF TypeOK, Tiers, NoTier
<1> QED
  BY <1>1, <1>2 DEF Verdict, Regress, Keep

\* A step that leaves the rows alone, and a plan.
LEMMA PlanOn ==
  ASSUME NEW u \in Runners, PlanFits(u), UNCHANGED <<due, tier, live>>,
         runs'[u].plan = runs[u].plan, runs'[u].do = "evaluate" => runs[u].do = "evaluate"
  PROVE  PlanFits(u)'
BY DEF PlanFits

LEMMA EvalStep ==
  ASSUME NEW r \in Runners, EvalInv(r), [Calm]_vars
  PROVE  EvalInv(r)'
<1> USE ExpiryIdle
<1>0. /\ Typed /\ TypeOK /\ (\A u \in Runners : runs[u] \in Run /\ PlanFits(u))
      /\ \A v \in Variations :
           Reviewed(v) \/ (runs[r].do = "evaluate" /\ runs[r].plan[v] = Verdict(v))
  BY DEF EvalInv, Typed, TypeOK
<1>1. Typed'
  <2>1. [Next]_vars
    BY DEF Calm, Next
  <2> QED
    BY <1>0, <2>1, ExpiryTypesStep
\* The step leaves the rows alone, and every plan but those just made of them.
<1>2. ASSUME UNCHANGED <<due, tier, live, flagged>>,
             \A u \in Runners : \/ runs'[u].do = runs[u].do /\ runs'[u].plan = runs[u].plan
                                \/ runs'[u].do # "evaluate" /\ runs[u].do # "evaluate"
                                \/ \A v \in Variations : runs'[u].plan[v] = Verdict(v),
             runs[r].do = "evaluate" => runs'[r].do = "evaluate"
      PROVE  EvalInv(r)'
  <2>1. ASSUME NEW v \in Variations
        PROVE  Verdict(v)' = Verdict(v) /\ Reviewed(v)' = Reviewed(v)
    BY <1>2 DEF Verdict, Reviewed
  <2>2. ASSUME NEW u \in Runners PROVE PlanFits(u)'
    <3>1. CASE runs'[u].do = runs[u].do /\ runs'[u].plan = runs[u].plan
      BY <1>0, <1>2, <3>1, PlanOn
    <3>2. CASE runs'[u].do # "evaluate"
      BY <3>2 DEF PlanFits
    <3>3. CASE \A v \in Variations : runs'[u].plan[v] = Verdict(v)
      BY <1>0, <1>2, <3>3, VerdictFits DEF PlanFits
    <3> QED
      BY <1>2, <3>1, <3>2, <3>3
  <2> QED
    BY <1>0, <1>1, <1>2, <2>1, <2>2 DEF EvalInv
<1>3. CASE UNCHANGED vars
  BY <1>2, <1>3 DEF vars
<1>4. ASSUME NEW u \in Runners, NEW then \in BOOLEAN, Evaluate(u, then)
      PROVE  EvalInv(r)'
  <2>1. UNCHANGED <<due, tier, live, flagged>> /\ runs[u].do = "idle"
    BY <1>4 DEF Evaluate
  <2> QED
    BY <1>0, <1>2, <1>4, <2>1, RunnerMoves
<1>5. ASSUME NEW u \in Runners, EvaluateRow(u), NEW v \in Variations, runs[u].plan[v] # Keep,
             flagged' = [flagged EXCEPT ![v] = runs[u].plan[v] = Regress /\ (@ \/ tier[v] # NoTier)],
             tier' = IF runs[u].plan[v] = Regress THEN tier ELSE [tier EXCEPT ![v] = runs[u].plan[v]],
             runs' = [runs EXCEPT ![u] = [runs[u] EXCEPT !.plan[v] = Keep]]
      PROVE  EvalInv(r)'
  <2>1. /\ Reviewed(v)' /\ \A u1 \in Runners : PlanFits(u1)'
        /\ \A w \in Variations \ {v} : Verdict(w)' = Verdict(w) /\ flagged'[w] = flagged[w]
    BY <1>0, <1>5, RowWritten
  <2>2. /\ runs'[r].do = runs[r].do
        /\ \A w \in Variations \ {v} : runs'[r].plan[w] = runs[r].plan[w]
    BY <1>0, <1>5 DEF TypeOK, Run
  <2>3. ASSUME NEW w \in Variations \ {v}
        PROVE  Reviewed(w)' \/ (runs'[r].do = "evaluate" /\ runs'[r].plan[w] = Verdict(w)')
    BY <1>0, <2>1, <2>2 DEF Reviewed
  <2> QED
    BY <1>1, <2>1, <2>3 DEF EvalInv
\* The last row is written: where nothing was planned, the verdict was to keep.
<1>6. ASSUME NEW u \in Runners, EvaluateRow(u), UNCHANGED <<tier, flagged>>,
             \A v \in Variations : runs[u].plan[v] = Keep,
             runs' = [runs EXCEPT ![u] = IF runs[u].then THEN Applying ELSE Idle]
      PROVE  EvalInv(r)'
  <2>1. UNCHANGED <<due, tier, live, flagged>>
    BY <1>6 DEF EvaluateRow
  <2>2. \A v \in Variations : Verdict(v)' = Verdict(v) /\ Reviewed(v)' = Reviewed(v)
    BY <2>1 DEF Verdict, Reviewed
  <2>3. \A x \in Runners : IF x = u THEN runs'[x].do # "evaluate" ELSE runs'[x] = runs[x]
    BY <1>0, <1>6 DEF TypeOK
  <2>4. \A x \in Runners : PlanFits(x)'
    BY <1>0, <2>1, <2>3, PlanOn DEF PlanFits
  <2>5. CASE u = r
    BY <1>0, <1>1, <1>6, <2>2, <2>4, <2>5 DEF EvalInv, Reviewed
  <2>6. CASE u # r
    BY <1>0, <1>1, <2>2, <2>3, <2>4, <2>6 DEF EvalInv
  <2> QED
    BY <2>5, <2>6
<1>7. ASSUME NEW u \in Runners, EvaluateRow(u)
      PROVE  EvalInv(r)'
  BY <1>5, <1>6, <1>7 DEF EvaluateRow, Set
<1>8. ASSUME NEW u \in Runners,
             Apply(u) \/ ReadTier(u) \/ Search(u) \/ Record(u) \/ Sweep(u)
      PROVE  EvalInv(r)'
  <2>1. UNCHANGED <<due, tier, live, flagged>>
    BY <1>8 DEF Apply, ReadTier, Search, Record, Sweep
  <2>2. /\ runs[u].do # "evaluate" /\ runs'[u].do # "evaluate"
        /\ \A x \in Runners \ {u} : runs'[x] = runs[x]
    BY <1>0, <1>8, RunnerMoves
  <2> QED
    BY <1>2, <2>1, <2>2
<1>9. ASSUME NEW u \in Runners, Write(u)
      PROVE  EvalInv(r)'
  <2>1. UNCHANGED <<due, tier, live, flagged>> /\ runs[u].do = "write"
    BY <1>9 DEF Write
  <2>2. /\ runs'[u].do = "record"
        /\ \A x \in Runners : x # u => runs'[x].do = runs[x].do /\ runs'[x].plan = runs[x].plan
    BY <1>0, <1>9, WriteRuns
  <2> QED
    BY <1>2, <2>1, <2>2
<1> QED
  BY <1>3, <1>4, <1>7, <1>8, <1>9 DEF Calm, Work

LEMMA EvalStart ==
  ASSUME NEW r \in Runners, TypeOK, runs[r].do = "evaluate",
         \A v \in Variations : runs[r].plan[v] = Verdict(v),
         \A u \in Runners \ {r} : runs[u].do = "idle"
  PROVE  EvalInv(r)
<1>1. Typed
  BY DEF Typed, AtTier
<1>2. \A u \in Runners : PlanFits(u)
  BY VerdictFits DEF PlanFits
<1> QED
  BY <1>1, <1>2 DEF EvalInv

\* Whatever changed before, and whatever other runs do meanwhile: when an evaluation that
\* has read the rows ends undisturbed, every item is in the tier its date calls for, or
\* its discount is steeper and it is up for review (the other part of RegressionSeen).
THEOREM EvaluationSettles ==
  ASSUME NEW r \in Runners
  PROVE  /\ TypeOK
         /\ runs[r].do = "evaluate" /\ \A v \in Variations : runs[r].plan[v] = Verdict(v)
         /\ \A u \in Runners \ {r} : runs[u].do = "idle"
         /\ [][Calm]_vars
         => [](runs[r].do # "evaluate" => \A v \in Variations : Reviewed(v))
<1>1. /\ TypeOK
      /\ runs[r].do = "evaluate" /\ (\A v \in Variations : runs[r].plan[v] = Verdict(v))
      /\ (\A u \in Runners \ {r} : runs[u].do = "idle")
      => EvalInv(r)
  BY EvalStart
<1>2. EvalInv(r) /\ [Calm]_vars => EvalInv(r)'
  BY EvalStep
<1>3. EvalInv(r) => (runs[r].do # "evaluate" => \A v \in Variations : Reviewed(v))
  BY DEF EvalInv
<1> QED
  BY <1>1, <1>2, <1>3, PTL

-----------------------------------------------------------------------------
(* The morning run *)

\* Only this runner goes on, and nothing fails.
Alone(r) == Work(r) \/ Apply(r) \/ \E then \in BOOLEAN : Evaluate(r, then)

\* It is still evaluating and will apply the discounts, or is past that.
MorningInv(r) ==
  /\ EvalInv(r) /\ NoRowNoPrice
  /\ \A u \in Runners \ {r} : runs[u].do = "idle"
  /\ \/ OneSet /\ runs[r].do = "evaluate" /\ runs[r].then
     \/ RepairsInv(r)

LEMMA MorningStep ==
  ASSUME NEW r \in Runners
  PROVE  MorningInv(r) /\ [Alone(r)]_vars => MorningInv(r)'
<1> USE ExpiryIdle
<1>1. (/\ TypeOK /\ NoRowNoPrice /\ Unmoved /\ OneSet
       /\ Begun(r) /\ \A u \in Runners \ {r} : runs[u].do = "idle"
       => RepairsInv(r))'
  <2>1. /\ TypeOK /\ NoRowNoPrice /\ Unmoved /\ OneSet
        /\ Begun(r) /\ \A u \in Runners \ {r} : runs[u].do = "idle"
        => RepairsInv(r)
    BY RepairsStart
  <2> QED
    BY <2>1, PTL
<1> SUFFICES ASSUME MorningInv(r), [Alone(r)]_vars
             PROVE  MorningInv(r)'
  OBVIOUS
<1>2. [Calm]_vars /\ [Next]_vars
  BY DEF Alone, Calm, Next
<1>3. /\ Typed /\ TypeOK /\ runs[r] \in Run
      /\ EvalInv(r)' /\ NoRowNoPrice' /\ Typed' /\ TypeOK'
  BY <1>2, EvalStep, PriceStep DEF MorningInv, EvalInv, Typed, TypeOK
<1>4. \A u \in Runners \ {r} : runs'[u].do = "idle"
  <2>1. CASE UNCHANGED vars
    BY <2>1 DEF MorningInv, vars
  <2>2. CASE Write(r)
    BY <1>3, <2>2, WriteRuns DEF MorningInv
  <2>3. CASE \/ \E then \in BOOLEAN : Evaluate(r, then)
             \/ EvaluateRow(r) \/ Apply(r) \/ ReadTier(r) \/ Search(r) \/ Record(r) \/ Sweep(r)
    BY <1>3, <2>3, RunnerMoves DEF MorningInv
  <2> QED
    BY <2>1, <2>2, <2>3 DEF Alone, Work
<1>5. CASE RepairsInv(r)
  BY <1>2, <1>3, <1>4, <1>5, RepairsStep DEF MorningInv
<1>6. CASE OneSet /\ runs[r].do = "evaluate" /\ runs[r].then
  <2>1. CASE UNCHANGED vars
    BY <1>3, <1>4, <1>6, <2>1 DEF MorningInv, OneSet, vars
  <2>2. CASE EvaluateRow(r)
    <3>1. OneSet'
      BY <1>3, <1>6, <2>2, RunnerMoves DEF OneSet
    <3>2. CASE runs'[r].do = "evaluate" /\ runs'[r].then = runs[r].then
      BY <1>3, <1>4, <1>6, <3>1, <3>2 DEF MorningInv
    <3>3. CASE runs'[r] = Applying
      <4>1. Begun(r)' /\ runs'[r].do # "evaluate"
        BY <3>3 DEF Begun
      <4>2. Unmoved'
        BY <1>3, <4>1 DEF EvalInv, Unmoved, Reviewed
      <4> QED
        BY <1>1, <1>3, <1>4, <3>1, <4>1, <4>2 DEF MorningInv
    <3> QED
      BY <1>3, <1>6, <2>2, <3>2, <3>3, RunnerMoves
  <2> QED
    BY <1>6, <2>1, <2>2
    DEF Alone, Work, Evaluate, Apply, ReadTier, Search, Write, Record, Sweep
<1> QED
  BY <1>5, <1>6 DEF MorningInv

\* The automation's daily run, whatever was left before it: when it has read the rows, no
\* tier has two product sets, and it ends undisturbed, each item is in the tier its date
\* calls for or up for review, Square discounts exactly the items of the automatic tiers,
\* and each price recorded is its tier's.
THEOREM MorningRun ==
  ASSUME NEW r \in Runners
  PROVE  /\ TypeOK /\ NoRowNoPrice /\ OneSet
         /\ runs[r].do = "evaluate" /\ runs[r].then
         /\ \A v \in Variations : runs[r].plan[v] = Verdict(v)
         /\ \A u \in Runners \ {r} : runs[u].do = "idle"
         /\ [][Alone(r)]_vars
         => [](runs[r].do = "idle" => Follows /\ \A v \in Variations : Reviewed(v))
<1>1. /\ TypeOK /\ NoRowNoPrice /\ OneSet
      /\ runs[r].do = "evaluate" /\ runs[r].then
      /\ (\A v \in Variations : runs[r].plan[v] = Verdict(v))
      /\ (\A u \in Runners \ {r} : runs[u].do = "idle")
      => MorningInv(r)
  BY EvalStart DEF MorningInv
<1>2. MorningInv(r) /\ [Alone(r)]_vars => MorningInv(r)'
  BY MorningStep
<1>3. MorningInv(r)
      => (runs[r].do = "idle" => Follows /\ \A v \in Variations : Reviewed(v))
  BY DEF MorningInv, RepairsInv, Reaches, EvalInv
<1> QED
  BY <1>1, <1>2, <1>3, PTL
=============================================================================
