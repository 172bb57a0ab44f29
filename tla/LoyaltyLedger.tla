---------------------------- MODULE LoyaltyLedger ----------------------------
(***************************************************************************)
(* The loyalty ledger of one customer and one offer: the rows of           *)
(* loyalty_purchase_events, the rewards they earn, the denormalised        *)
(* summary and the claims of loyalty_processed_orders.                     *)
(*                                                                         *)
(* A transaction that touches the reward progress of the pair is a         *)
(* sequence of steps between Begin* and Commit or Rollback; its writes are *)
(* made in place and saved holds what is committed, which Rollback         *)
(* restores.  pg_advisory_xact_lock serialises these transactions: there   *)
(* is one, tx.  Redemptions and the expiry of earned rewards do not take   *)
(* that lock: any number of them is open next to tx and next to each       *)
(* other, held apart only by the locks of the rows they write.  Each reads *)
(* what is committed, computes the summary row and writes it later, when   *)
(* it commits (READ COMMITTED: a later statement of tx sees it).           *)
(***************************************************************************)
EXTENDS Integers, Sequences, FiniteSets, FiniteSetsExt, Sums

CONSTANTS
  Orders,       \* Square order ids
  Items,        \* catalog variation ids
  Qualifying,   \* the variations of the offer
  Refs,         \* keys of return lines: the line's uid, or its quantity
  NoRef,        \* the key of a purchase row
  Basket,       \* order -> sequence of lines [item, qty, free]
  Returns,      \* order -> set of returned lines [item, qty, ref]
  ManualEntries,\* purchases an admin may key in: [order, item, qty]
  Required,     \* loyalty_offers.required_quantity
  Window,       \* loyalty_offers.window_months, in days of the model
  Lag,          \* how many days an order may be old when it is taken in
  MaxDay        \* bound on the calendar

ASSUME RequiredAssumption == Required \in Nat \ {0}
ASSUME TimeAssumption == Window \in Nat /\ Lag \in Nat /\ MaxDay \in Nat
ASSUME ItemAssumption == Qualifying \subseteq Items /\ NoRef \notin Refs
ASSUME BasketAssumption ==
  Basket \in [Orders -> Seq([item : Items, qty : Nat, free : BOOLEAN])]
ASSUME ReturnsAssumption ==
  Returns \in [Orders -> SUBSET [item : Items, qty : Nat \ {0}, ref : Refs]]
ASSUME ManualAssumption ==
  ManualEntries \subseteq [order : Orders, item : Items, qty : Nat \ {0}]

VARIABLES
  day,        \* CURRENT_DATE
  events,     \* loyalty_purchase_events, a row's id is its index
  rewards,    \* loyalty_rewards, a reward's id is its index
  progress,   \* current_quantity of the in_progress reward
  summary,    \* the row of loyalty_customer_summary
  processed,  \* loyalty_processed_orders.result_type of each order
  tx,         \* the open transaction under the advisory lock, or Idle
  saved,      \* the committed tables while tx is open
  scan,       \* rewards processExpiredEarnedRewards has selected
  checked,    \* orders a handler has found not to be processed yet
  visits,     \* the open redemptions and revocations
  race        \* whether transactions have overlapped; no guard reads it

tables == <<events, rewards, progress, summary, processed>>
aside  == <<scan, checked, visits>>
vars   == <<day, tables, tx, saved, aside, race>>

-----------------------------------------------------------------------------
Statuses == {"in_progress", "earned", "redeemed", "revoked"}
Results  == {"none", "pending", "no_customer", "no_line_items",
             "qualifying", "non_qualifying"}

\* 0 stands for NULL in the columns reward_id and original_event_id.
Row    == [order : Orders, item : Items, ref : Refs \cup {NoRef}, qty : Int,
           at : Int, wend : Int, reward : Nat, parent : Nat]
Reward == [status : Statuses, earnedAt : Int]
Todo   == [item : Items, qty : Int, ref : Refs \cup {NoRef}]
Summary == [current : Int, lifetime : Int, earnedId : Nat,
            rewarded : Nat, redeemed : Nat, updatedAt : 0..MaxDay]
Tables == [events : Seq(Row), rewards : Seq(Reward), progress : Int,
           summary : Summary, processed : [Orders -> Results]]

Idle == [kind |-> "idle"]
Tx   == [kind : {"order", "manual", "return", "expire"},
         phase : {"record", "progress", "cross", "upsert"},
         order : Orders, at : Int, todo : SUBSET Todo, reward : Nat,
         wrote : BOOLEAN]

\* A redemption or a revocation: the reward whose row it has locked, the status
\* that it gives to it, and the summary it has computed.
Visit == [reward : Nat, to : {"redeemed", "revoked"}, summary : Summary]

\* now: the transactions that are open, or were last, have overlapped; past: an
\* earlier overlap may have left its mark on the summary; none: neither.
Races == {"none", "now", "past"}

Ids(s) == DOMAIN s

\* SUM(quantity) over the rows of S.
Qty(rows, S) == SumSeq([i \in Ids(rows) |-> IF i \in S THEN rows[i].qty ELSE 0])

\* A row with children (split, see Split) counts through them only.
Superseded(ev, i) == \E j \in Ids(ev) : ev[j].parent = i

InWindow(row) == row.wend >= day

\* The rows that count towards the next reward; refunds count negatively.
Open(ev) == {i \in Ids(ev) : /\ InWindow(ev[i])
                             /\ ev[i].reward = 0
                             /\ ~Superseded(ev, i)}
Unlocked(ev) == Qty(ev, Open(ev))

LockedBy(ev, r) == {i \in Ids(ev) : ev[i].reward = r}
InStatus(rw, st) == {r \in Ids(rw) : rw[r].status = st}

\* Mutant: a revoked reward keeps its units.
UnlockForgotten(ev, r) == ev
Unlock(ev, r) ==
  [i \in Ids(ev) |-> IF ev[i].reward = r THEN [ev[i] EXCEPT !.reward = 0] ELSE ev[i]]

SetStatus(rw, r, st) == [rw EXCEPT ![r].status = st]

\* updateCustomerSummary recomputes the whole row from the two tables.
SummaryOf(ev, rw) ==
  LET earned   == InStatus(rw, "earned")
      redeemed == InStatus(rw, "redeemed")
  IN  [current   |-> Unlocked(ev),
       lifetime  |-> Qty(ev, {i \in Ids(ev) : ev[i].qty > 0 /\ ~Superseded(ev, i)}),
       earnedId  |-> IF earned = {} THEN 0 ELSE Min(earned),
       rewarded  |-> Cardinality(earned \cup redeemed),
       redeemed  |-> Cardinality(redeemed),
       updatedAt |-> day]

\* The row is missing until the first transaction: every count reads as zero.
NoSummary == [current |-> 0, lifetime |-> 0, earnedId |-> 0, rewarded |-> 0,
              redeemed |-> 0, updatedAt |-> 0]

Snapshot == [events |-> events, rewards |-> rewards, progress |-> progress,
             summary |-> summary, processed |-> processed]

Committed == IF tx = Idle THEN Snapshot ELSE saved

\* What saved holds while tx is Idle.
NoSnapshot == [events |-> <<>>, rewards |-> <<>>, progress |-> 0,
               summary |-> NoSummary, processed |-> [o \in Orders |-> "none"]]

Init ==
  /\ day = 0
  /\ events = <<>>
  /\ rewards = <<>>
  /\ progress = 0
  /\ summary = NoSummary
  /\ processed = [o \in Orders |-> "none"]
  /\ tx = Idle
  /\ saved = NoSnapshot
  /\ scan = {}
  /\ checked = {}
  /\ visits = {}
  /\ race = "none"

-----------------------------------------------------------------------------
(* Order intake *)

Counted(line) == line.qty > 0 /\ ~line.free

\* Mutant: the second line of a variation is dropped as a duplicate of the first.
FirstLineOnly(lines) ==
  {[item |-> lines[i].item, qty |-> lines[i].qty, ref |-> NoRef] :
     i \in {i \in Ids(lines) : /\ Counted(lines[i])
                              /\ \A j \in 1..(i - 1) : ~Counted(lines[j]) \/ lines[j].item # lines[i].item}}

\* One call of processQualifyingPurchase per variation, with the quantities of
\* its lines added up.
Aggregate(lines) ==
  LET kept(v) == {i \in Ids(lines) : Counted(lines[i]) /\ lines[i].item = v}
  IN  {[item |-> v, qty |-> Qty(lines, kept(v)), ref |-> NoRef] :
         v \in {v \in Items : kept(v) # {}}}

AlreadyProcessed(o) ==
  \/ processed[o] # "none"
  \/ \E i \in Ids(events) : events[i].order = o

\* A transaction that begins overlaps those that are open.
Starts == race' = IF tx # Idle \/ visits # {} THEN "now"
                  ELSE IF race = "now" THEN "past" ELSE race

\* One that has overlapped none and has written the summary sets it right.
Ends(wrote) == race' = IF wrote /\ race # "now" THEN "none" ELSE race

Begin(kind, phase, o, at, todo) ==
  /\ tx' = [kind |-> kind, phase |-> phase, order |-> o, at |-> at,
            todo |-> todo, reward |-> 0, wrote |-> FALSE]
  /\ saved' = Snapshot
  /\ Starts

\* A handler checks outside any transaction, and may claim long after that.  What is
\* committed about an order stays the same while tx is open.
CheckOrder(o) ==
  /\ tx = Idle
  /\ o \notin checked
  /\ ~AlreadyProcessed(o)
  /\ checked' = checked \cup {o}
  /\ UNCHANGED <<day, tables, tx, saved, scan, visits, race>>

\* The claim; its ON CONFLICT turns away every handler but the first.
MayClaim(o) == tx = Idle /\ o \in checked /\ processed[o] = "none"

\* No customer or no line items: the claim is committed with nothing recorded.
SkipOrder(o, known) ==
  /\ MayClaim(o)
  /\ ~known \/ Basket[o] = <<>>
  /\ processed' = [processed EXCEPT ![o] = IF known THEN "no_line_items" ELSE "no_customer"]
  /\ UNCHANGED <<day, events, rewards, progress, summary, tx, saved, aside, race>>

BeginOrder(o, at) ==
  /\ MayClaim(o)
  /\ Basket[o] # <<>>
  /\ Begin("order", "record", o, at, Aggregate(Basket[o]))
  /\ processed' = [processed EXCEPT ![o] = "pending"]
  /\ UNCHANGED <<day, events, rewards, progress, summary, aside>>

\* processManualEntry: one variation, in a transaction of its own, no claim.
BeginManual(m) ==
  /\ tx = Idle
  /\ Begin("manual", "record", m.order, day,
           {[item |-> m.item, qty |-> m.qty, ref |-> NoRef]})
  /\ UNCHANGED <<day, tables, aside>>

\* The row a purchase or a return is recorded as; idempotency_key is the triple
\* of order, item and ref.
NewRow(t, qty, wend) ==
  [order |-> tx.order, item |-> t.item, ref |-> t.ref, qty |-> qty,
   at |-> tx.at, wend |-> wend, reward |-> 0, parent |-> 0]

Recorded(t) == \E i \in Ids(events) : /\ events[i].parent = 0
                                      /\ events[i].order = tx.order
                                      /\ events[i].item = t.item
                                      /\ events[i].ref = t.ref

Handled(t, phase) == [tx EXCEPT !.todo = @ \ {t}, !.phase = phase]

\* processQualifyingPurchase, up to its call of updateRewardProgress.
RecordPurchase(t) ==
  /\ tx.kind \in {"order", "manual"}
  /\ tx.phase = "record"
  /\ t \in tx.todo
  /\ IF t.item \in Qualifying /\ ~Recorded(t)
     THEN /\ events' = Append(events, NewRow(t, t.qty, tx.at + Window))
          /\ tx' = Handled(t, "progress")
     ELSE /\ tx' = Handled(t, "record")
          /\ UNCHANGED events
  /\ UNCHANGED <<day, rewards, progress, summary, processed, saved, aside, race>>

-----------------------------------------------------------------------------
(* Returns *)

\* The handler takes the returns of an order after its intake has committed.
BeginReturns(o) ==
  /\ tx = Idle
  /\ processed[o] # "none"
  /\ Returns[o] # {}
  /\ Begin("return", "record", o, day, Returns[o])
  /\ UNCHANGED <<day, tables, aside>>

\* The window of the purchase that is returned, else one from the refund date.
ReturnWindow(t) ==
  LET bought == {i \in Ids(events) : /\ events[i].qty > 0
                                     /\ events[i].order = tx.order
                                     /\ events[i].item = t.item}
      latest == {i \in bought : \A j \in bought : events[i].at >= events[j].at}
  IN  IF bought = {} THEN {tx.at + Window} ELSE {events[i].wend : i \in latest}

\* The rewards whose rows open redemptions and revocations have locked.
Held == {s.reward : s \in visits}

\* processRefund, up to its call of updateRewardProgress: the negative row, and
\* the check of one earned reward against the units locked to it.  It selects the
\* earned rewards FOR UPDATE, and so waits for whoever holds one.
RecordReturn(t) ==
  /\ tx.kind = "return"
  /\ tx.phase = "record"
  /\ t \in tx.todo
  /\ IF t.item \in Qualifying /\ ~Recorded(t)
     THEN \E wend \in ReturnWindow(t) :
          \E r \in (IF InStatus(rewards, "earned") = {} THEN {0} ELSE InStatus(rewards, "earned")) :
            LET ev   == Append(events, NewRow(t, -t.qty, wend))
                void == r # 0 /\ Qty(ev, LockedBy(ev, r)) < Required
            IN  /\ InStatus(rewards, "earned") \cap Held = {}
                /\ events' = IF void THEN Unlock(ev, r) ELSE ev
                /\ rewards' = IF void THEN SetStatus(rewards, r, "revoked") ELSE rewards
                /\ tx' = Handled(t, "progress")
     ELSE /\ tx' = Handled(t, "record")
          /\ UNCHANGED <<events, rewards>>
  /\ UNCHANGED <<day, progress, summary, processed, saved, aside, race>>

-----------------------------------------------------------------------------
(* updateRewardProgress and processThresholdCrossing *)

NewReward == [status |-> "in_progress", earnedAt |-> 0]

\* Mutant: the reward in progress is not looked up first.
UpdateProgressBlind ==
  /\ tx # Idle
  /\ tx.phase = "progress"
  /\ rewards' = Append(rewards, NewReward)
  /\ progress' = Unlocked(events)
  /\ tx' = [tx EXCEPT !.phase = "cross", !.reward = Len(rewards) + 1]
  /\ UNCHANGED <<day, events, summary, processed, saved, aside, race>>

\* Recount, then update the in_progress reward or create one.
UpdateProgress ==
  /\ tx # Idle
  /\ tx.phase = "progress"
  /\ LET current == InStatus(rewards, "in_progress")
         create  == current = {} /\ Unlocked(events) > 0
     IN  /\ rewards' = IF create THEN Append(rewards, NewReward) ELSE rewards
         /\ progress' = IF create \/ current # {} THEN Unlocked(events) ELSE progress
         /\ \E r \in (IF create THEN {Len(rewards) + 1}
                      ELSE IF current = {} THEN {0} ELSE current) :
              tx' = [tx EXCEPT !.phase = "cross", !.reward = r]
  /\ UNCHANGED <<day, events, summary, processed, saved, aside, race>>

CrossingDue ==
  /\ tx.reward # 0
  /\ rewards[tx.reward].status = "in_progress"
  /\ Unlocked(events) >= Required

\* Rows are consumed in order of purchased_at, id; ids are random UUIDs, so any
\* order of rows of one day is possible.
Candidates == {i \in Open(events) : events[i].qty > 0}
Earliest(S) == {i \in S : \A j \in S : events[i].at <= events[j].at}
IsPrefix(L) == \A i \in L, j \in Candidates \ L : events[i].at <= events[j].at

Lock(L, r) ==
  [i \in Ids(events) |-> IF i \in L THEN [events[i] EXCEPT !.reward = r] ELSE events[i]]

Child(row, c, n, r) == [row EXCEPT !.qty = n, !.reward = r, !.parent = c]

\* Mutant: the child with the rest is one unit short.
SplitShort(ev, c, n, r) ==
  LET locked == Append(ev, Child(ev[c], c, n, r))
  IN  IF ev[c].qty > n + 1
      THEN Append(locked, Child(ev[c], c, ev[c].qty - n - 1, 0)) ELSE locked

\* Mutant: the child with the rest is not written.
SplitDropsRest(ev, c, n, r) == Append(ev, Child(ev[c], c, n, r))

\* Row c is replaced by a child of n units locked to r and a child with the rest.
Split(ev, c, n, r) ==
  LET locked == Append(ev, Child(ev[c], c, n, r))
  IN  IF ev[c].qty > n THEN Append(locked, Child(ev[c], c, ev[c].qty - n, 0)) ELSE locked

\* Mutant: the row that crosses the threshold is locked whole.
ConsumeUnsplit(L, c, r) == Lock(L \cup ({c} \ {0}), r)

\* The rows one reward consumes: L whole, and what is missing out of row c.
Consume(L, c, r) ==
  LET need == Required - Qty(events, L)
  IN  IF need > 0 /\ c # 0 THEN Split(Lock(L, r), c, need, r) ELSE Lock(L, r)

\* L holds the rows whose cumulative quantity is at most Required, c comes next.
Consumable(L, c) ==
  /\ IsPrefix(L)
  /\ Qty(events, L) <= Required
  /\ c # 0 => Qty(events, L) + events[c].qty > Required

\* Mutant: at most one reward is earned, whatever is left.
EarnRewardOnce ==
  /\ tx # Idle
  /\ tx.phase = "cross"
  /\ CrossingDue
  /\ \E L \in SUBSET Candidates :
     \E c \in (IF L = Candidates THEN {0} ELSE Earliest(Candidates \ L)) :
       /\ Consumable(L, c)
       /\ events' = Consume(L, c, tx.reward)
  /\ rewards' = [rewards EXCEPT ![tx.reward] = [status |-> "earned", earnedAt |-> day]]
  /\ UNCHANGED <<day, progress, summary, processed, tx, saved, aside, race>>

\* One turn of the loop of processThresholdCrossing.
EarnReward ==
  /\ tx # Idle
  /\ tx.phase = "cross"
  /\ CrossingDue
  /\ \E L \in SUBSET Candidates :
     \E c \in (IF L = Candidates THEN {0} ELSE Earliest(Candidates \ L)) :
       /\ Consumable(L, c)
       /\ events' = Consume(L, c, tx.reward)
  /\ LET again  == Unlocked(events') >= Required
         earned == [rewards EXCEPT ![tx.reward] = [status |-> "earned", earnedAt |-> day]]
     IN  /\ rewards' = IF again THEN Append(earned, NewReward) ELSE earned
         /\ progress' = IF again THEN Unlocked(events') ELSE progress
         /\ tx' = IF again THEN [tx EXCEPT !.reward = Len(rewards) + 1] ELSE tx
  /\ UNCHANGED <<day, summary, processed, saved, aside, race>>

\* updateCustomerSummary reads first ...
ReadSummary ==
  /\ tx # Idle
  /\ tx.phase = "cross"
  /\ ~CrossingDue
  /\ summary' = SummaryOf(events, rewards)
  /\ tx' = [tx EXCEPT !.phase = "upsert", !.reward = 0]
  /\ UNCHANGED <<day, events, rewards, progress, processed, saved, aside, race>>

\* ... and then writes the row, which it keeps locked until the transaction ends.
WriteSummary ==
  /\ tx # Idle
  /\ tx.phase = "upsert"
  /\ tx' = [tx EXCEPT !.phase = "record", !.wrote = TRUE]
  /\ UNCHANGED <<day, tables, saved, aside, race>>

Commit ==
  /\ tx # Idle
  /\ tx.phase = "record"
  /\ tx.todo = {}
  /\ processed' = IF tx.kind # "order" THEN processed
                  ELSE [processed EXCEPT ![tx.order] =
                          IF Len(events) > Len(saved.events) THEN "qualifying" ELSE "non_qualifying"]
  /\ tx' = Idle
  /\ saved' = NoSnapshot
  /\ Ends(tx.wrote)
  /\ UNCHANGED <<day, events, rewards, progress, summary, aside>>

\* A statement fails: the whole transaction is undone.
Rollback ==
  /\ tx # Idle
  /\ events' = saved.events
  /\ rewards' = saved.rewards
  /\ progress' = saved.progress
  /\ summary' = saved.summary
  /\ processed' = saved.processed
  /\ tx' = Idle
  /\ saved' = NoSnapshot
  /\ UNCHANGED <<day, aside, race>>

-----------------------------------------------------------------------------
(* Redemption and expiry *)

\* A revoked reward gives its units back, a redeemed one keeps them.
EventsAfter(ev, r, to) == IF to = "revoked" THEN Unlock(ev, r) ELSE ev

\* A return has selected the earned rewards FOR UPDATE.
HeldByReturn(r) ==
  /\ tx # Idle
  /\ tx.kind = "return"
  /\ Len(events) > Len(saved.events)
  /\ saved.rewards[r].status = "earned"

\* Its first steps: the row of the reward is locked and written, and the summary is
\* computed from what is committed and from what it has written itself.
BeginVisit(r, to) ==
  /\ r \notin Held
  /\ ~HeldByReturn(r)
  /\ LET ev == EventsAfter(Committed.events, r, to)
         rw == SetStatus(Committed.rewards, r, to)
     IN  visits' = visits \cup {[reward |-> r, to |-> to, summary |-> SummaryOf(ev, rw)]}
  /\ Starts
  /\ UNCHANGED <<day, tables, tx, saved, scan, checked>>

\* Its last ones: it writes the row of the summary and commits.  tx sees the tables
\* change; the summary tx has computed but not written yet stays what it is.
EndVisit(s) ==
  /\ tx # Idle => ~tx.wrote
  /\ events' = EventsAfter(events, s.reward, s.to)
  /\ rewards' = SetStatus(rewards, s.reward, s.to)
  /\ summary' = IF tx # Idle /\ tx.phase = "upsert" THEN summary ELSE s.summary
  /\ saved' = IF tx = Idle THEN saved
              ELSE [saved EXCEPT !.events = EventsAfter(@, s.reward, s.to),
                                 !.rewards = SetStatus(@, s.reward, s.to),
                                 !.summary = s.summary]
  /\ visits' = visits \ {s}
  /\ Ends(TRUE)
  /\ UNCHANGED <<day, progress, processed, tx, checked>>

\* Mutant: the status is not looked at.
BeginRedeemAny(r) == BeginVisit(r, "redeemed")

\* redeemReward: the reward is selected FOR UPDATE and has to be earned.
BeginRedeem(r) ==
  /\ r \in InStatus(Committed.rewards, "earned")
  /\ BeginVisit(r, "redeemed")

Redeem(s) ==
  /\ s.to = "redeemed"
  /\ EndVisit(s)
  /\ UNCHANGED scan

RedeemFails(s) ==
  /\ s.to = "redeemed"
  /\ visits' = visits \ {s}
  /\ UNCHANGED <<day, tables, tx, saved, scan, checked, race>>

\* processExpiredWindowEntries: recount when unlocked rows have left the window.
BeginExpire ==
  /\ tx = Idle
  /\ \E i \in Ids(events) : ~InWindow(events[i]) /\ events[i].reward = 0
  /\ Begin("expire", "progress", CHOOSE o \in Orders : TRUE, day, {})
  /\ UNCHANGED <<day, tables, aside>>

ExpiredRewards ==
  {r \in InStatus(Committed.rewards, "earned") :
     /\ Committed.rewards[r].earnedAt + Window < day
     /\ \A i \in LockedBy(Committed.events, r) : ~InWindow(Committed.events[i])}

\* processExpiredEarnedRewards selects first, outside any transaction ...
ExpireScan ==
  /\ scan = {}
  /\ ExpiredRewards # {}
  /\ scan' = ExpiredRewards
  /\ UNCHANGED <<day, tables, tx, saved, checked, visits, race>>

\* ... and then revokes one reward after the other, by its id, each in a transaction
\* of its own.
BeginRevoke(r) ==
  /\ r \in scan
  /\ \A s \in visits : s.to # "revoked"
  /\ BeginVisit(r, "revoked")

\* Mutant: the summary is not refreshed.
ExpireApplyStale(s) ==
  /\ s.to = "revoked"
  /\ tx = Idle
  /\ events' = EventsAfter(events, s.reward, s.to)
  /\ rewards' = SetStatus(rewards, s.reward, s.to)
  /\ visits' = visits \ {s}
  /\ scan' = scan \ {s.reward}
  /\ Ends(TRUE)
  /\ UNCHANGED <<day, progress, summary, processed, tx, saved, checked>>

ExpireApply(s) ==
  /\ s.to = "revoked"
  /\ EndVisit(s)
  /\ scan' = scan \ {s.reward}

\* An error stops the loop: the rewards that are left are not revoked.
ExpireAbort ==
  /\ scan # {}
  /\ scan' = {}
  /\ visits' = {s \in visits : s.to # "revoked"}
  /\ UNCHANGED <<day, tables, tx, saved, checked, race>>

Tick ==
  /\ tx = Idle
  /\ day < MaxDay
  /\ day' = day + 1
  /\ UNCHANGED <<tables, tx, saved, aside, race>>

-----------------------------------------------------------------------------
Next ==
  \/ \E o \in Orders : \/ CheckOrder(o)
                       \/ \E known \in BOOLEAN : SkipOrder(o, known)
                       \/ \E at \in (day - Lag)..day : BeginOrder(o, at)
                       \/ BeginReturns(o)
  \/ \E m \in ManualEntries : BeginManual(m)
  \/ tx # Idle /\ \E t \in tx.todo : RecordPurchase(t) \/ RecordReturn(t)
  \/ UpdateProgress \/ EarnReward \/ ReadSummary \/ WriteSummary
  \/ Commit \/ Rollback
  \/ \E r \in Ids(Committed.rewards) : BeginRedeem(r) \/ BeginRevoke(r)
  \/ \E s \in visits : Redeem(s) \/ RedeemFails(s) \/ ExpireApply(s)
  \/ BeginExpire \/ ExpireScan \/ ExpireAbort
  \/ Tick

Spec == Init /\ [][Next]_vars
-----------------------------------------------------------------------------
(* Properties *)

\* Every variable holds what its column or structure can hold.
TypeOK ==
  /\ day \in 0..MaxDay
  /\ Snapshot \in Tables
  /\ saved \in Tables
  /\ tx \in Tx \cup {Idle}
  /\ scan \in SUBSET Nat
  /\ checked \in SUBSET Orders
  /\ visits \in SUBSET Visit
  /\ race \in Races

\* A reward that a customer holds or has used was paid for with exactly Required
\* units: locking, splitting, refunds, expiry and rollbacks neither over- nor
\* under-charge it (reward-split-service.js).
EarnedBacked ==
  \A r \in InStatus(rewards, "earned") \cup InStatus(rewards, "redeemed") :
    Qty(events, LockedBy(events, r)) = Required

\* Units are locked to rewards that still stand, so a revoked reward has given
\* all its units back and an unfinished one holds none.
LocksHeldByLive ==
  \A i \in Ids(events) : events[i].reward # 0 =>
    rewards[events[i].reward].status \in {"earned", "redeemed"}

\* A split replaces a row by children that carry exactly its units, its order and
\* its window, and the row itself counts no more: it is never locked again.
SplitConserves ==
  \A i \in Ids(events) : Superseded(events, i) =>
    LET children == {j \in Ids(events) : events[j].parent = i}
    IN  /\ events[i].reward = 0
        /\ Qty(events, children) = events[i].qty
        /\ \A j \in children : events[j].qty > 0 /\ events[j].wend = events[i].wend

\* loyalty_rewards_one_in_progress_idx: the transactions never rely on its
\* conflict clause, because the pair has at most one reward in progress.
OneInProgress == \A q, r \in InStatus(rewards, "in_progress") : q = r

\* The lines of a variation that were paid for, the rows that record its purchase, and
\* what an admin may have keyed in for it.
Paid(o, v) == {n \in Ids(Basket[o]) : Basket[o][n].item = v /\ Counted(Basket[o][n])}
Bought(ev, o, v) ==
  {i \in Ids(ev) : /\ ev[i].order = o /\ ev[i].item = v
                   /\ ev[i].parent = 0 /\ ev[i].ref = NoRef}
Keyed(o, v) == {m.qty : m \in {m \in ManualEntries : m.order = o /\ m.item = v}}

\* An order whose claim is committed as qualifying has exactly one row for each of
\* its variations of the offer, and that row has all the units that were paid for; an
\* order that is claimed as anything else, or not at all, has none.  The one
\* exception is a row that an admin keyed in by hand before the claim: it keeps the
\* units it was given, and intake adds no second one.  Intake writes both tables or
\* neither (order-intake.js, MED-7 and the aggregation fix of 2026-03-07).
IntakeComplete ==
  tx = Idle => \A o \in Orders, v \in Items :
    LET taken == processed[o] = "qualifying" /\ v \in Qualifying /\ Paid(o, v) # {}
    IN  /\ taken => Cardinality(Bought(events, o, v)) = 1
        /\ \A i \in Bought(events, o, v) :
             events[i].qty \in Keyed(o, v) \cup (IF taken THEN {Qty(Basket[o], Paid(o, v))} ELSE {})

\* No transaction that has recounted commits while a reward is due: the units that are
\* left over are fewer than a reward costs, whatever was redeemed or revoked next to
\* it.  (One that has recounted nothing found nothing to do.)
CommitSettles ==
  [][Commit /\ tx.wrote => Unlocked(events') < Required]_vars

\* The summary says what the ledger says, its count of current units as of the day it
\* was computed, except where transactions overlapped: redemption and expiry compute
\* it without the advisory lock, so that the last one to write may undo another's
\* row.  No other order of steps, error or rollback makes it stale, and the next
\* transaction that recomputes it and overlaps none sets it right (LA-24).
SummaryFresh ==
  (tx = Idle /\ race = "none") =>
    LET now == SummaryOf(events, rewards)
    IN  \A f \in DOMAIN now \ {"updatedAt"} :
          (f = "current" => summary.updatedAt = day) => summary[f] = now[f]

\* loyalty_rewards.status moves in_progress -> earned -> redeemed or revoked; no step
\* goes back, skips earned, or revives what has been revoked, and a redeemed reward
\* stays redeemed.  The one exception is named: processExpiredEarnedRewards had
\* selected the reward while it was earned, and revokes it by its id after that.
Moves(st) ==
  CASE st = "in_progress" -> {"earned"}
    [] st = "earned"      -> {"redeemed", "revoked"}
    [] OTHER              -> {}
StatusMachine ==
  [][Rollback \/ \A r \in Ids(rewards) :
       LET st == rewards[r].status
           to == rewards'[r].status
       IN  /\ r \in Ids(rewards')
           /\ \/ to = st
              \/ to \in Moves(st)
              \/ st = "redeemed" /\ to = "revoked" /\ r \in scan]_vars

\* The customer's card, as it is committed: units bought and returned, units that pay for
\* no reward, and the rewards the customer has and has used.
Roots(ev)    == {i \in Ids(ev) : ev[i].parent = 0}
Unspent(ev)  == {i \in Ids(ev) : ev[i].reward = 0 /\ ~Superseded(ev, i)}
Number(st)   == Cardinality(InStatus(Committed.rewards, st))
Card == INSTANCE PunchCard WITH
          bought <- Qty(Committed.events, Roots(Committed.events)),
          free   <- Qty(Committed.events, Unspent(Committed.events)),
          held   <- Number("earned"),
          used   <- Number("redeemed")

\* No transaction makes or loses units: what was bought and not returned is what the
\* rewards that stand have cost and what is left, splits of splits, returns and rewards
\* that expire included (reward-progress-service.js, reward-split-service.js).
KeepsCard == Card!Init /\ [][Committed' = Committed \/ Card!Next]_vars

\* Stated by processRefund: a refund that makes an earned reward invalid revokes
\* it.  Then what was bought and not returned covers every reward that stands.
RefundRevokes ==
  (tx = Idle /\ InStatus(rewards, "earned") # {}) =>
    Qty(events, {i \in Ids(events) : events[i].parent = 0})
      >= Required * Cardinality(InStatus(rewards, "earned") \cup InStatus(rewards, "redeemed"))
=============================================================================
