-------------------------- MODULE CommittedInventory --------------------------
(***************************************************************************)
(* The stock that open invoices commit: the rows of committed_inventory,   *)
(* kept by the invoice webhooks and by the daily reconciliation with       *)
(* Square, and the RESERVED_FOR_SALE counts rebuilt from them.             *)
(*                                                                         *)
(* Rows are replaced and counts rebuilt in transactions that delete first  *)
(* and insert then.  At READ COMMITTED a DELETE sees the rows committed    *)
(* when it starts, waits for a transaction that is deleting one of them,   *)
(* and never sees the row that transaction puts in its place.              *)
(***************************************************************************)
EXTENDS FiniteSets, Naturals, FiniteSetsExt

CONSTANTS
  Invoices,  \* invoices
  Items,     \* variations of the local catalog; a line of any other is skipped
  Workers,   \* webhooks and reconciliations under way at a time
  NoInvoice  \* no invoice is being written

ASSUME InvoiceAssumption == NoInvoice \notin Invoices
ASSUME FiniteAssumption == IsFiniteSet(Invoices) /\ IsFiniteSet(Items)

VARIABLES
  square,    \* at Square: the state of each invoice and the lines of its order
  committed, \* committed_inventory: the units each invoice commits of each item
  reserved,  \* inventory_counts: the RESERVED_FOR_SALE units of each item
  tasks      \* what each worker has read and is about to do

vars == <<square, committed, reserved, tasks>>
-----------------------------------------------------------------------------
Steps == {"idle", "stale", "fetch", "write", "insert", "clear", "fill", "commit"}
Task  == [do : Steps,
          todo : SUBSET Invoices,                 \* open invoices still to reconcile
          inv : Invoices \cup {NoInvoice},        \* the invoice being written
          lines : SUBSET Items,                   \* the lines read of its order
          sees : SUBSET Items,                    \* the rows its DELETE removes
          holds : BOOLEAN,                        \* it locked them, waiting for nobody
          sums : [Items -> Nat]]                  \* the counts its INSERT computed
Zero  == [v \in Items |-> 0]
Idle  == [do |-> "idle", todo |-> {}, inv |-> NoInvoice, lines |-> {}, sees |-> {},
          holds |-> FALSE, sums |-> Zero]

TypeOK ==
  /\ square \in [Invoices -> [status : {"none", "open", "closed"}, lines : SUBSET Items]]
  /\ committed \in [Invoices -> [Items -> Nat]]
  /\ reserved \in [Items -> Nat]
  /\ tasks \in [Workers -> Task]

Init ==
  /\ square = [i \in Invoices |-> [status |-> "none", lines |-> {}]]
  /\ committed = [i \in Invoices |-> Zero]
  /\ reserved = Zero
  /\ tasks = [w \in Workers |-> Idle]

Open == {i \in Invoices : square[i].status = "open"}
Committing(i) == {v \in Items : committed[i][v] > 0}
Total(v) == MapThenSumSet(LAMBDA i : committed[i][v], Invoices)

\* The other transactions that replace rows of invoice i, or that rebuild the counts.
Writing(w, i) == {u \in Workers \ {w} : tasks[u].do = "insert" /\ tasks[u].inv = i}
Rebuilding(w) == {u \in Workers \ {w} : tasks[u].do \in {"fill", "commit"}}
Held(W) == UNION {tasks[u].sees : u \in {v \in W : tasks[v].holds}}

\* Worker w goes on with task t; the transactions W no longer find the rows S.
Move(w, t, W, S) ==
  tasks' = [u \in Workers |-> IF u = w THEN t
                              ELSE IF u \in W THEN [tasks[u] EXCEPT !.sees = @ \ S]
                              ELSE tasks[u]]

Proceed(w, t) == Move(w, t, {}, {})
-----------------------------------------------------------------------------
(* Square. *)

Issue(i) ==
  /\ square[i].status = "none"
  /\ \E L \in SUBSET Items : square' = [square EXCEPT ![i] = [status |-> "open", lines |-> L]]
  /\ UNCHANGED <<committed, reserved, tasks>>

Amend(i) ==
  /\ square[i].status = "open"
  /\ \E L \in SUBSET Items : square' = [square EXCEPT ![i].lines = L]
  /\ UNCHANGED <<committed, reserved, tasks>>

\* Paid, canceled, refunded or deleted.
Settle(i) ==
  /\ square[i].status = "open"
  /\ square' = [square EXCEPT ![i].status = "closed"]
  /\ UNCHANGED <<committed, reserved, tasks>>
-----------------------------------------------------------------------------
(* Webhooks, late or more than once. *)

\* The webhook says that the invoice is open, as it once was; the order is fetched, and
\* one without lines is skipped.
OpenWebhook(w, i) ==
  /\ tasks[w].do = "idle"
  /\ square[i].status # "none"
  /\ square[i].lines # {}
  /\ Proceed(w, [Idle EXCEPT !.do = "write", !.inv = i, !.lines = square[i].lines])
  /\ UNCHANGED <<square, committed, reserved>>

ClosedWebhook(w, i) ==
  /\ tasks[w].do = "idle"
  /\ square[i].status = "closed"
  /\ Committing(i) \cap Held(Writing(w, i)) = {}
  /\ committed' = [committed EXCEPT ![i] = Zero]
  /\ Move(w, [Idle EXCEPT !.do = "clear"], Writing(w, i), Committing(i))
  /\ UNCHANGED <<square, reserved>>

\* The inventory sync stores Square's own RESERVED_FOR_SALE counts over the rebuilt ones.
SyncInventory(v) ==
  /\ v \notin Held(Workers \ {w \in Workers : tasks[w].do = "insert"})
  /\ \E n \in {0, 1} : reserved' = [reserved EXCEPT ![v] = n]
  /\ UNCHANGED <<square, committed, tasks>>
-----------------------------------------------------------------------------
(* Reconciliation: syncCommittedInventory. *)

\* All pages are read before anything is written.
ListInvoices(w) ==
  /\ tasks[w].do = "idle"
  /\ Proceed(w, [Idle EXCEPT !.do = "stale", !.todo = Open])
  /\ UNCHANGED <<square, committed, reserved>>

\* Mutant: rows of invoices that are no longer open are left.
KeepStale(w) ==
  /\ tasks[w].do = "stale"
  /\ Proceed(w, [tasks[w] EXCEPT !.do = "fetch"])
  /\ UNCHANGED <<square, committed, reserved>>

DeleteStale(w) ==
  LET stale == Invoices \ tasks[w].todo
      W     == {u \in Workers \ {w} : tasks[u].do = "insert" /\ tasks[u].inv \in stale}
  IN /\ tasks[w].do = "stale"
     /\ \A u \in W : ~ tasks[u].holds
     /\ committed' = [i \in Invoices |-> IF i \in stale THEN Zero ELSE committed[i]]
     /\ Move(w, [tasks[w] EXCEPT !.do = "fetch"], W, Items)
     /\ UNCHANGED <<square, reserved>>

\* The order of an invoice that was open when the list was read.
FetchOrder(w, i) ==
  /\ tasks[w].do = "fetch"
  /\ i \in tasks[w].todo
  /\ Proceed(w, IF square[i].lines = {} THEN [tasks[w] EXCEPT !.todo = @ \ {i}]
                ELSE [tasks[w] EXCEPT !.do = "write", !.todo = @ \ {i}, !.inv = i,
                                      !.lines = square[i].lines])
  /\ UNCHANGED <<square, committed, reserved>>

\* An invoice that cannot be fetched or written is left for the next day.
FetchFails(w, i) ==
  /\ tasks[w].do = "fetch"
  /\ i \in tasks[w].todo
  /\ Proceed(w, [tasks[w] EXCEPT !.todo = @ \ {i}])
  /\ UNCHANGED <<square, committed, reserved>>

Listed(w) ==
  /\ tasks[w].do = "fetch"
  /\ tasks[w].todo = {}
  /\ Proceed(w, [Idle EXCEPT !.do = "clear"])
  /\ UNCHANGED <<square, committed, reserved>>
-----------------------------------------------------------------------------
(* The transactions. *)

\* DELETE FROM committed_inventory of the invoice.
BeginWrite(w) ==
  LET i == tasks[w].inv
  IN /\ tasks[w].do = "write"
     /\ Proceed(w, [tasks[w] EXCEPT !.do = "insert", !.sees = Committing(i),
                                    !.holds = Held(Writing(w, i)) = {}])
     /\ UNCHANGED <<square, committed, reserved>>

\* The quantity of a line is added to a row the DELETE did not see.
Units(w, v) ==
  (IF v \in tasks[w].sees THEN 0 ELSE committed[tasks[w].inv][v])
    + (IF v \in tasks[w].lines THEN 1 ELSE 0)

\* The lines inserted and committed; a reconciliation takes the next invoice.
EndWrite(w) ==
  LET i == tasks[w].inv
      W == Writing(w, i)
  IN /\ tasks[w].do = "insert"
     /\ (tasks[w].sees \cup tasks[w].lines) \cap Held(W) = {}
     /\ committed' = [committed EXCEPT ![i] = [v \in Items |-> Units(w, v)]]
     /\ Move(w, IF tasks[w].todo = {} THEN [Idle EXCEPT !.do = "clear"]
                ELSE [Idle EXCEPT !.do = "fetch", !.todo = tasks[w].todo],
             W, tasks[w].sees)
     /\ UNCHANGED <<square, reserved>>

\* DELETE of all RESERVED_FOR_SALE counts.
Clear(w) ==
  /\ tasks[w].do = "clear"
  /\ Proceed(w, [tasks[w] EXCEPT !.do = "fill", !.sees = {v \in Items : reserved[v] > 0},
                                 !.holds = Held(Rebuilding(w)) = {}])
  /\ UNCHANGED <<square, committed, reserved>>

\* INSERT ... SELECT SUM(quantity), of the rows committed now.
Fill(w) ==
  /\ tasks[w].do = "fill"
  /\ tasks[w].sees \cap Held(Rebuilding(w)) = {}
  /\ Proceed(w, [tasks[w] EXCEPT !.do = "commit", !.sums = [v \in Items |-> Total(v)]])
  /\ UNCHANGED <<square, committed, reserved>>

Commit(w) ==
  LET t == tasks[w]
  IN /\ t.do = "commit"
     /\ {v \in Items : t.sums[v] > 0} \cap Held(Rebuilding(w)) = {}
     /\ reserved' = [v \in Items |-> IF t.sums[v] > 0 THEN t.sums[v]
                                     ELSE IF v \in t.sees THEN 0 ELSE reserved[v]]
     /\ Move(w, Idle, Rebuilding(w), t.sees)
     /\ UNCHANGED <<square, committed>>

\* An error or a restart: the transaction rolls back, and nobody takes the task up again.
Stop(w) ==
  /\ tasks[w].do # "idle"
  /\ Proceed(w, Idle)
  /\ UNCHANGED <<square, committed, reserved>>
-----------------------------------------------------------------------------
Work(w) ==
  \/ DeleteStale(w) \/ Listed(w) \/ BeginWrite(w) \/ EndWrite(w)
  \/ Clear(w) \/ Fill(w) \/ Commit(w)
  \/ \E i \in Invoices : FetchOrder(w, i)

Next ==
  \/ \E i \in Invoices : Issue(i) \/ Amend(i) \/ Settle(i)
  \/ \E v \in Items : SyncInventory(v)
  \/ \E w \in Workers, i \in Invoices :
       OpenWebhook(w, i) \/ ClosedWebhook(w, i) \/ FetchFails(w, i)
  \/ \E w \in Workers : ListInvoices(w) \/ Work(w) \/ Stop(w)

\* The reconciliation is scheduled daily, and what was started goes on.
Fairness ==
  /\ WF_vars(\E w \in Workers : ListInvoices(w))
  /\ \A w \in Workers : WF_vars(Work(w))

Spec == Init /\ [][Next]_vars /\ Fairness
-----------------------------------------------------------------------------
(* Properties. *)

Exact ==
  /\ \A i \in Invoices :
       /\ square[i].status = "open" =>
            \/ square[i].lines = {}  \* an order without lines is skipped: its rows stay
            \/ \A v \in Items : committed[i][v] = IF v \in square[i].lines THEN 1 ELSE 0
       /\ square[i].status # "open" => committed[i] = Zero
  /\ \A v \in Items : reserved[v] = Total(v)

\* A reconciliation starts only when nothing else is under way; nothing fails.
Calm ==
  \E w \in Workers :
    Work(w) \/ (ListInvoices(w) /\ \A u \in Workers : tasks[u].do = "idle")

\* Whatever webhooks were lost, late, repeated or cut short: once Square is quiet, the
\* daily reconciliation (a safety net for "webhooks lost during downtime" and "data drift
\* from any source") makes the rows those of the open invoices, and the counts their sums.
Converges == <>[][Calm]_vars => <>[]Exact
=============================================================================
