------------------------------- MODULE OrderFlow -------------------------------
(***************************************************************************)
(* One completed order and those who look at it: the order and payment     *)
(* webhooks, the loyalty event webhooks, the catch-up job and the audit of *)
(* missed redemptions.  Each takes the order in (processLoyaltyOrder), or  *)
(* looks for rewards redeemed on it (detectRewardRedemptionFromOrder), or  *)
(* both, one query after the other and side by side with the rest.         *)
(*                                                                         *)
(* The ledger behind a purchase event or a return is LoyaltyLedger's; what *)
(* becomes of a redeemed reward's discount is RewardDiscount's.  All       *)
(* rewards here belong to the order's customer and to one offer.           *)
(***************************************************************************)
EXTENDS Naturals, FiniteSets

CONSTANTS
  Handlers,    \* handlers that run for the order
  Mixes,       \* what the handlers may be, a set of [Handlers -> Kinds]
  NumRewards,  \* rewards of the customer, the oldest first
  Orders,      \* what may have been rung up
  MaxFaults,   \* failing statements and restarts
  NoHandler    \* nobody

Kinds ==
  {"order",    \* order.updated, with the order in the payload
   "payment",  \* payment.created and payment.updated
   "event",    \* loyalty.event.created, or the catch-up of one customer
   "redeem",   \* loyalty.event.created of type REDEEM_REWARD
   "catchup",  \* the hourly job
   "audit"}    \* the admin's audit of missed redemptions, applied

Rewards == 1..NumRewards
MaxRedemptionsPerOrder == 10

\* The rewards whose discount makes a line free or is spread so that its line
\* still costs something, a line made free by hand, and an ordinary line.  Square
\* refers to a reward by its catalog discount or, for those in byRule, by its
\* pricing rule alone.
OrderType == [full : SUBSET Rewards, part : SUBSET Rewards, byRule : SUBSET Rewards,
              manual : BOOLEAN, paid : BOOLEAN]

ASSUME MixAssumption    == Mixes \subseteq [Handlers -> Kinds]
ASSUME OrderAssumption  == Orders \subseteq OrderType
ASSUME NumAssumption    == NumRewards \in Nat /\ NumRewards <= MaxRedemptionsPerOrder
ASSUME FaultAssumption  == MaxFaults \in Nat
ASSUME NobodyAssumption == NoHandler \notin Handlers

VARIABLES
  order,     \* what was rung up
  kind,      \* what each handler is
  attached,  \* Square has the customer on the order
  claim,     \* loyalty_processed_orders.result_type as committed, or "none"
  events,    \* kinds of lines recorded in loyalty_purchase_events
  holder,    \* the handler whose transaction has inserted the claim
  status,    \* loyalty_rewards.status; "gone": used, revoked elsewhere
  rows,      \* loyalty_redemptions for this order, by reward
  cache,     \* orderProcessingCache
  job,       \* each handler's step and local variables
  faults,    \* failures so far
  aborted,   \* a detection ended by an error or a restart
  blind      \* the order was taken in without a look at the rewards' discounts

input  == <<order, kind>>
intake == <<claim, events, holder>>
redeemed == <<status, rows>>
errors == <<faults, aborted, blind>>
vars   == <<input, attached, intake, redeemed, cache, job, errors>>

-----------------------------------------------------------------------------
Discounts == order.full \cup order.part
FreeLine  == order.full # {} \/ order.manual
Units     == Cardinality(order.full) + Cardinality(order.part) + (IF order.manual THEN 1 ELSE 0)
HasLines  == order.paid \/ FreeLine \/ order.part # {}

Verdicts == {"qualifying", "non_qualifying", "no_customer", "no_line_items"}
Steps == {"start", "identify", "check", "claim", "intx", "lookup", "free", "redeem",
          "finish", "done"}
Job   == [step : Steps, copy : BOOLEAN, known : BOOLEAN, todo : SUBSET Rewards]
Fresh == [step |-> "start", copy |-> FALSE, known |-> FALSE, todo |-> {}]
Ended == [Fresh EXCEPT !.step = "done"]

At(h, step)   == job[h].step = step
Is(h, k)      == kind[h] = k
Goto(h, step) == job' = [job EXCEPT ![h] = IF step = "done" THEN Ended ELSE [@ EXCEPT !.step = step]]
MayFail       == faults < MaxFaults
Fail          == faults' = faults + 1
Looking(h)    == job[h].step \in {"lookup", "free", "redeem", "finish"}

Earned == {r \in Rewards : status[r] = "earned"}
Oldest(r) == r \in Earned /\ \A s \in Earned : r <= s

Init ==
  /\ order \in Orders
  /\ kind \in Mixes
  /\ attached = FALSE
  /\ claim = "none" /\ events = {} /\ holder = NoHandler
  /\ status = [r \in Rewards |-> "earned"]
  /\ rows = [r \in Rewards |-> 0]
  /\ cache = "empty"
  /\ job = [h \in Handlers |-> Fresh]
  /\ faults = 0
  /\ aborted = FALSE /\ blind = FALSE

-----------------------------------------------------------------------------
(* How each handler begins *)

Fetch(h, known, step) ==
  job' = [job EXCEPT ![h] = [step |-> step, copy |-> attached, known |-> known, todo |-> {}]]
NothingElse == UNCHANGED <<input, attached, intake, redeemed, cache, errors>>

OrderWebhook(h) ==
  /\ Is(h, "order") /\ At(h, "start")
  /\ Fetch(h, FALSE, "identify")
  /\ NothingElse

\* An order that is fully processed by the order webhook is skipped; a customer
\* found there is not looked for again.
PaymentWebhook(h) ==
  /\ Is(h, "payment") /\ At(h, "start")
  /\ \/ cache = "awarded" /\ Goto(h, "done")
     \/ cache = "identified" /\ Fetch(h, TRUE, "check")
     \/ cache \in {"empty", "unidentified"} /\ Fetch(h, FALSE, "identify")
  /\ NothingElse

\* The customer is the loyalty account's.
LoyaltyEvent(h) ==
  /\ Is(h, "event") /\ At(h, "start")
  /\ IF claim = "none" THEN Fetch(h, TRUE, "check") ELSE Goto(h, "done")
  /\ NothingElse

RedeemEvent(h) ==
  /\ Is(h, "redeem") /\ At(h, "start")
  /\ Fetch(h, FALSE, "lookup")
  /\ NothingElse

\* Selects the orders nobody has taken in.
CatchupJob(h) ==
  /\ Is(h, "catchup") /\ At(h, "start")
  /\ claim = "none" /\ HasLines
  /\ Fetch(h, FALSE, "identify")
  /\ NothingElse

\* Selects the orders of customers with earned rewards on which nothing has been
\* redeemed; the customer is the claim's.
Audit(h) ==
  /\ Is(h, "audit") /\ At(h, "start")
  /\ claim \notin {"none", "no_customer"}
  /\ Earned # {} /\ \A r \in Rewards : rows[r] = 0
  /\ job' = [job EXCEPT ![h] = [step |-> "lookup", copy |-> TRUE, known |-> TRUE, todo |-> {}]]
  /\ NothingElse

-----------------------------------------------------------------------------
(* Taking the order in: processLoyaltyOrder *)

\* The customer on the order is found, another one may be.
Identify(h) ==
  /\ At(h, "identify")
  /\ \E found \in BOOLEAN :
       /\ job[h].copy => found
       /\ job' = [job EXCEPT ![h].step = "check", ![h].known = found]
  /\ NothingElse

\* Mutants: whoever finds the order taken in looks for redemptions; the payment
\* webhook leaves them to the order webhook.
AlwaysDetect(h) == "lookup"
OrderDetects(h) == IF kind[h] \in {"event", "payment"} THEN "done" ELSE "lookup"

\* The catch-up looks for redemptions whoever took the order in; whoever else
\* finds it taken in returns.
AfterDuplicate(h) == IF Is(h, "catchup") THEN "lookup" ELSE "done"
AfterIntake(h) == IF Is(h, "event") THEN "done" ELSE "lookup"

Check(h) ==
  /\ At(h, "check")
  /\ Goto(h, IF claim = "none" THEN "claim" ELSE AfterDuplicate(h))
  /\ NothingElse

\* Mutant: the INSERT overwrites the row of an order already taken in.
NeverTaken == FALSE

\* The INSERT waits for the transaction that has inserted the same order.
Taken == claim # "none"
Claim(h) ==
  /\ At(h, "claim")
  /\ holder = NoHandler
  /\ IF Taken
     THEN Goto(h, AfterDuplicate(h)) /\ UNCHANGED holder
     ELSE Goto(h, "intx") /\ holder' = h
  /\ UNCHANGED <<input, attached, claim, events, redeemed, cache, errors>>

\* Mutant: lines with a reward's discount are not skipped.
NoneOurs == {}

\* A line that carries the discount of a reward is not counted while the reward
\* is earned.  Unlike the detection, the filter looks at catalog_object_id alone.
Ours == {r \in order.part \ order.byRule : status[r] = "earned"}
Counted(ours) ==
  {l \in {"paid"} : order.paid} \cup {l \in {"reward"} : order.part \ ours # {}}
Record(ours) ==
  /\ events' = events \cup Counted(ours)
  /\ claim' = IF events' = events THEN "non_qualifying" ELSE "qualifying"

\* When the earned rewards cannot be read, the order is taken in without them.
Commit(h) ==
  /\ At(h, "intx")
  /\ \/ ~job[h].known /\ claim' = "no_customer" /\ UNCHANGED <<events, errors>>
     \/ job[h].known /\ ~HasLines /\ claim' = "no_line_items" /\ UNCHANGED <<events, errors>>
     \/ job[h].known /\ HasLines /\ Record(Ours) /\ UNCHANGED errors
     \/ /\ job[h].known /\ Discounts # {} /\ Record({})
        /\ MayFail /\ Fail /\ blind' = TRUE /\ UNCHANGED aborted
  /\ holder' = NoHandler
  /\ Goto(h, AfterIntake(h))
  /\ UNCHANGED <<input, attached, redeemed, cache>>

\* Mutant: the job does not come back to an order whose intake failed.
OneAttempt(h) == {"start"} \cup {s \in {"done"} : kind[h] \in {"order", "payment", "catchup"}}

\* A failing intake is rolled back and tried again, unless the order or payment
\* webhook takes the error for a permanent one.
AfterError(h) == {"start"} \cup {s \in {"done"} : kind[h] \in {"order", "payment"}}
Rollback(h) ==
  /\ job[h].step \in {"identify", "check", "claim", "intx"} /\ MayFail
  /\ holder' = IF holder = h THEN NoHandler ELSE holder
  /\ \E s \in AfterError(h) : job' = [job EXCEPT ![h] = [Fresh EXCEPT !.step = s]]
  /\ Fail
  /\ UNCHANGED <<input, attached, claim, events, redeemed, cache, aborted, blind>>

-----------------------------------------------------------------------------
(* Looking for redemptions: detectRewardRedemptionFromOrder *)

\* Strategy 1: earned rewards whose discount or pricing rule is on the order.
Matched == {r \in Discounts : status[r] = "earned"}

\* Mutant: Strategy 1 too asks for the customer on the order.
LookUpKnown(h) ==
  /\ At(h, "lookup")
  /\ IF Matched # {} /\ job[h].copy
     THEN job' = [job EXCEPT ![h].step = "redeem", ![h].todo = Matched]
     ELSE Goto(h, "free")
  /\ NothingElse

LookUp(h) ==
  /\ At(h, "lookup")
  /\ IF Matched # {}
     THEN job' = [job EXCEPT ![h].step = "redeem", ![h].todo = Matched]
     ELSE Goto(h, "free")
  /\ NothingElse

\* Strategy 2: the oldest earned reward of the customer for a free line.  Strategy
\* 3 asks for an earned reward whose discount is on the order, which Strategy 1
\* has just not found.
Fallback(h) == FreeLine /\ job[h].copy /\ Earned # {}
FreeItem(h) ==
  /\ At(h, "free")
  /\ \/ Fallback(h) /\ \E r \in Rewards :
          Oldest(r) /\ job' = [job EXCEPT ![h].step = "redeem", ![h].todo = {r}]
     \/ ~Fallback(h) /\ Goto(h, "finish")
  /\ NothingElse

\* What remains once r is dealt with, and once it has failed: an error ends the
\* detection, the audit goes on with the next reward.
Continue(h, left) ==
  job' = [job EXCEPT ![h].todo = left, ![h].step = IF left = {} THEN "finish" ELSE "redeem"]
Remaining(h, r) == job[h].todo \ {r}
AfterThrow(h, r) == IF Is(h, "audit") THEN Remaining(h, r) ELSE {}

\* Mutant: the status found by the detection is trusted.
TrustDetection(r) == TRUE

\* redeemReward locks the row and refuses a reward that is not earned any more.
Redeemable(r) == status[r] = "earned"
Redeem(h) ==
  /\ At(h, "redeem")
  /\ \E r \in job[h].todo :
       IF Redeemable(r)
       THEN /\ status' = [status EXCEPT ![r] = "redeemed"]
            /\ rows' = [rows EXCEPT ![r] = @ + 1]
            /\ Continue(h, Remaining(h, r))
            /\ UNCHANGED aborted
       ELSE /\ Continue(h, AfterThrow(h, r))
            /\ aborted' = (aborted \/ AfterThrow(h, r) # Remaining(h, r))
            /\ UNCHANGED redeemed
  /\ UNCHANGED <<input, attached, intake, cache, faults, blind>>

\* Any other error is swallowed as well: a query of the detection that fails ends it.
LookUpFails(h) ==
  /\ job[h].step \in {"lookup", "free"} /\ MayFail
  /\ Goto(h, "finish")
  /\ Fail
  /\ aborted' = TRUE
  /\ UNCHANGED <<input, attached, intake, redeemed, cache, blind>>

RedeemFails(h) ==
  /\ At(h, "redeem") /\ MayFail
  /\ \E r \in job[h].todo : Continue(h, AfterThrow(h, r))
  /\ Fail
  /\ aborted' = TRUE
  /\ UNCHANGED <<input, attached, intake, redeemed, cache, blind>>

\* The order webhook goes on to the returns and remembers what it has done.
Remembered(h) ==
  CASE ~job[h].known                          -> "unidentified"
    [] job[h].known /\ claim = "qualifying"   -> "awarded"
    [] job[h].known /\ claim # "qualifying"   -> "identified"
Finish(h) ==
  /\ At(h, "finish")
  /\ cache' = IF Is(h, "order") THEN Remembered(h) ELSE cache
  /\ Goto(h, "done")
  /\ UNCHANGED <<input, attached, intake, redeemed, errors>>

\* The returns fail: an error that may pass is left to a retry of the webhook.
ReturnsFail(h) ==
  /\ At(h, "finish") /\ Is(h, "order") /\ MayFail
  /\ \E s \in {"start", "done"} : job' = [job EXCEPT ![h] = [Fresh EXCEPT !.step = s]]
  /\ Fail
  /\ UNCHANGED <<input, attached, intake, redeemed, cache, aborted, blind>>

-----------------------------------------------------------------------------
(* What happens around the handlers *)

\* A restart ends every handler, rolls the open transaction back and forgets the
\* cache.  The webhooks under way may be delivered again; the job runs again.
Begun == {h \in Handlers : job[h].step \notin {"start", "done"}}
Restart ==
  /\ MayFail /\ Fail
  /\ \E lost \in {{}, {h \in Begun : ~Is(h, "catchup")}} :
       job' = [h \in Handlers |-> IF h \in lost THEN Ended ELSE
                                  IF h \in Begun THEN Fresh ELSE job[h]]
  /\ holder' = NoHandler
  /\ cache' = "empty"
  /\ aborted' = (aborted \/ \E h \in Handlers : Looking(h))
  /\ UNCHANGED <<input, attached, claim, events, redeemed, blind>>

\* The entry's 120 seconds are over.
CacheExpires ==
  /\ cache # "empty" /\ cache' = "empty"
  /\ UNCHANGED <<input, attached, intake, redeemed, job, errors>>

\* Square adds the customer after the sale.
Attach ==
  /\ ~attached /\ attached' = TRUE
  /\ UNCHANGED <<input, intake, redeemed, cache, job, errors>>

\* A reward is redeemed by hand, used on another order, or revoked.
Elsewhere(r) ==
  /\ status[r] = "earned"
  /\ status' = [status EXCEPT ![r] = "gone"]
  /\ UNCHANGED <<input, attached, intake, rows, cache, job, errors>>

-----------------------------------------------------------------------------
Begin(h) == \/ OrderWebhook(h) \/ PaymentWebhook(h) \/ LoyaltyEvent(h) \/ RedeemEvent(h)
            \/ Audit(h)
Step(h)  == \/ Identify(h) \/ Check(h) \/ Claim(h) \/ Commit(h)
            \/ LookUp(h) \/ FreeItem(h) \/ Redeem(h) \/ Finish(h)
Fails(h) == Rollback(h) \/ LookUpFails(h) \/ RedeemFails(h) \/ ReturnsFail(h)

Next ==
  \/ \E h \in Handlers : Begin(h) \/ CatchupJob(h) \/ Step(h) \/ Fails(h)
  \/ Restart \/ CacheExpires \/ Attach
  \/ \E r \in Rewards : Elsewhere(r)

\* A handler that has begun goes on, and the job runs every hour.  Whether a
\* webhook is delivered is up to Square.
Fairness == \A h \in Handlers : WF_vars(Step(h)) /\ WF_vars(CatchupJob(h))

Spec == Init /\ [][Next]_vars /\ Fairness

-----------------------------------------------------------------------------
TypeOK ==
  /\ order \in OrderType
  /\ kind \in [Handlers -> Kinds]
  /\ attached \in BOOLEAN
  /\ claim \in Verdicts \cup {"none"}
  /\ events \in SUBSET {"paid", "reward"}
  /\ holder \in Handlers \cup {NoHandler}
  /\ status \in [Rewards -> {"earned", "redeemed", "gone"}]
  /\ rows \in [Rewards -> Nat]
  /\ cache \in {"empty", "unidentified", "identified", "awarded"}
  /\ job \in [Handlers -> Job]
  /\ faults \in 0..MaxFaults
  /\ aborted \in BOOLEAN /\ blind \in BOOLEAN

\* Whoever takes the order in, it is given one verdict for good, together with
\* its purchase events (order-intake.js, "Consolidated intake").
Credit == INSTANCE OrderCredit
CreditedOnce == Credit!Spec

\* Every reward redeemed on the order has one redemption, and no other has any,
\* however many handlers found it earned (reward-service.js, FOR UPDATE).
RedeemedOnce == \A r \in Rewards : rows[r] = IF status[r] = "redeemed" THEN 1 ELSE 0

\* Handlers that look for redemptions without having taken the order in.
Unguarded == {h \in Handlers : kind[h] \in {"redeem", "catchup", "audit"}}

\* "One reward = one free unit" (reward-service.js): as many rewards as units
\* were given away, at most.
OneFreeUnit == Cardinality({r \in Rewards : rows[r] > 0}) <= Units

\* As long as only those look for redemptions who took the order in, no more
\* rewards are used up than units were given away.
GuardedUnits == Unguarded = {} => OneFreeUnit

\* Then, purchases being recorded before redemptions are looked for, the line a
\* reward paid for is counted towards the next one in two cases only: the reward
\* was used elsewhere, or the order refers to it by its pricing rule, which the
\* detection redeems and the filter overlooks (line-item-filter.js).  That the
\* earned rewards could be read is assumed.
RewardUncounted ==
  Unguarded = {} /\ ~blind /\ "reward" \in events
    => \E r \in order.part : status[r] = "gone" \/ r \in order.byRule

\* What the order webhook remembers, and the payment webhook relies on to skip
\* the order: no reward whose discount is on it is left to be redeemed.
SkipIsSafe == cache = "awarded" => aborted \/ Matched = {}

\* Once an order is taken in, the rewards used on it are redeemed, unless an error
\* or a restart ends the detection; the loyalty event webhook, which takes orders
\* in without looking for redemptions, is left out.
RedemptionFollows ==
  (claim # "none" /\ \A h \in Handlers : ~Is(h, "event")) ~> (Matched = {} \/ aborted)

\* As long as the job runs, every order with line items is taken in.
TakenIn == (HasLines /\ \E h \in Handlers : Is(h, "catchup")) ~> (claim # "none")
=============================================================================
