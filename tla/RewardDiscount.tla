---------------------------- MODULE RewardDiscount ----------------------------
(***************************************************************************)
(* The Square objects behind one loyalty reward: a customer group with the *)
(* customer in it, and a discount whose pricing rule applies to the group. *)
(* Together they give the customer a free item at the till.  The reward's  *)
(* row in loyalty_rewards records their ids.                               *)
(*                                                                         *)
(* The calls to Square happen outside the database transactions, one step  *)
(* each.  Every caller below is one such sequence of steps: the fire-and-  *)
(* forget call after a purchase, the retry job, the admin's bulk sync and  *)
(* validation, redemption and expiry.                                      *)
(***************************************************************************)
EXTENDS Integers, FiniteSets

CONSTANTS
  Groups,   \* ids of customer groups; an id that nothing refers to is reused
  Rules,    \* ids of discounts with their pricing rule and product set
  Regimes,  \* the combinations of callers and hazards considered
  None      \* NULL

Callers ==
  {"purchase",     \* the call fired after a purchase or a return
   "retry",        \* the cron job's retryPendingSquareSyncs
   "flush",        \* the same function as the first part of a bulk sync
   "sync",         \* the second part of a bulk sync
   "check",        \* the admin's validation, with fixIssues
   "redeem", "expire"}
Hazards ==
  {"overlap",      \* a call begins while another one is under way
   "open_tx",      \* the purchase's call is fired before its transaction commits
   "key_forgotten",\* Square forgets the idempotency key of the group
   "lost",         \* Square does what it is asked but the response is lost
   "delete_fails", \* Square does not delete what it is asked to delete
   "db_fails",     \* a statement on the reward's row fails
   "crash",        \* the server restarts
   "merchant"}     \* the merchant deletes the objects in Square's dashboard

ASSUME RegimesAssumption == Regimes \subseteq [callers : SUBSET Callers, hazards : SUBSET Hazards]
ASSUME IdAssumption == None \notin Groups \cup Rules

VARIABLES
  status,    \* loyalty_rewards.status as committed; "none": no row yet,
             \* "rolled_back": the row was inserted and never committed
  earning,   \* the transaction that earns the reward is open
  recorded,  \* the square_*_id columns, or NoIds
  pending,   \* square_sync_pending
  alive,     \* Square: customer groups
  members,   \* Square: groups the customer is in
  rules,     \* Square: the group each rule applies to
  keyed,     \* Square: the group known for the idempotency key of the reward
  calls,     \* each caller's step and what it holds in local variables
  regime     \* the callers that are used and the hazards that are met

row    == <<status, earning, recorded, pending>>
square == <<alive, members, rules, keyed>>
vars   == <<row, square, calls, regime>>

-----------------------------------------------------------------------------
Ids   == [group : Groups, rule : Rules]
NoIds == [group |-> None, rule |-> None]

StepNames == {"idle", "fire", "group", "add", "rule", "undo", "record", "unpend",
              "mark", "read", "delete", "clear", "inspect", "revoke"}
Call  == [step : StepNames, group : Groups \cup {None}, rule : Rules \cup {None},
          seen : Ids \cup {NoIds}]
Resting == [step |-> "idle", group |-> None, rule |-> None, seen |-> NoIds]

\* What the till gives away: rules on a group the customer is in.
Offers == {r \in Rules : rules[r] \in members}

At(c, step)    == calls[c].step = step
Goto(c, step)  == calls' = [calls EXCEPT ![c].step = step]
Finish(c)      == calls' = [calls EXCEPT ![c] = Resting]
AllIdle        == \A c \in Callers : calls[c].step = "idle"
Quiet          == AllIdle /\ ~earning
MayBegin(c)    == c \in regime.callers /\ At(c, "idle") /\ ("overlap" \in regime.hazards \/ Quiet)

\* Another connection sees the row once it is committed, and waits while the
\* transaction that earns the reward has updated it.
Visible   == status \notin {"none", "rolled_back"}
RowLocked == earning /\ Visible

\* Ids nothing refers to any more; a deleted group does not come back, so that
\* a rule on it is as good as gone.
Held(r) == \/ r = recorded.rule
           \/ \E c \in Callers : r \in {calls[c].rule, calls[c].seen.rule}
FreeGroups == Groups \ (alive \cup {keyed, recorded.group}
                        \cup {rules[r] : r \in {r \in Rules : Held(r)}}
                        \cup {calls[c].group : c \in Callers}
                        \cup {calls[c].seen.group : c \in Callers})
FreeRules  == {r \in Rules : rules[r] \notin alive /\ ~Held(r)}

Init ==
  /\ status \in {"none", "in_progress"}
  /\ earning = FALSE
  /\ recorded = NoIds
  /\ pending = FALSE
  /\ alive = {} /\ members = {}
  /\ rules = [r \in Rules |-> None]
  /\ keyed = None
  /\ calls = [c \in Callers |-> Resting]
  /\ regime \in Regimes

-----------------------------------------------------------------------------
(* Earning the reward *)

\* processThresholdCrossing has marked the reward earned; the call to Square is
\* due once the caller knows which rewards were earned.
BeginEarning ==
  /\ MayBegin("purchase")
  /\ ~earning
  /\ status \in {"none", "in_progress"}
  /\ earning' = TRUE
  /\ Goto("purchase", "fire")
  /\ UNCHANGED <<status, recorded, pending, square, regime>>

\* The promise is not awaited.  When processQualifyingPurchase owns the
\* transaction it has committed by now; when order intake owns it, it has not.
Fire ==
  /\ At("purchase", "fire")
  /\ earning => "open_tx" \in regime.hazards
  /\ Goto("purchase", "group")
  /\ UNCHANGED <<row, square, regime>>

CommitEarning ==
  /\ earning
  /\ earning' = FALSE
  /\ status' = "earned"
  /\ UNCHANGED <<recorded, pending, square, calls, regime>>

RollbackEarning ==
  /\ earning
  /\ earning' = FALSE
  /\ status' = IF status = "none" THEN "rolled_back" ELSE status
  /\ IF At("purchase", "fire") THEN Finish("purchase") ELSE UNCHANGED calls
  /\ UNCHANGED <<recorded, pending, square, regime>>

-----------------------------------------------------------------------------
(* createSquareCustomerGroupDiscount *)

\* Mutant: the retry job takes every attempt for a success.
FailAsDone(c) ==
  CASE c = "purchase"           -> Goto(c, "mark")
    [] c \in {"retry", "flush"} -> Goto(c, "unpend")
    [] OTHER                    -> Finish(c)

\* What each caller does with { success: false }.
Fail(c) == IF c = "purchase" THEN Goto(c, "mark") ELSE Finish(c)

\* The group's key is the same for every attempt, so that Square answers with
\* the group it created first, deleted or not, as long as it knows the key.
CreateGroup(c) ==
  /\ At(c, "group")
  /\ \E g \in (IF keyed # None THEN {keyed} ELSE FreeGroups) :
       /\ alive' = IF keyed # None THEN alive ELSE alive \cup {g}
       /\ rules' = IF keyed # None THEN rules
                   ELSE [r \in Rules |-> IF rules[r] = g THEN None ELSE rules[r]]
       /\ keyed' = g
       /\ calls' = [calls EXCEPT ![c].step = "add", ![c].group = g]
  /\ UNCHANGED <<row, members, regime>>

CreateGroupFails(c) ==
  /\ At(c, "group")
  /\ Fail(c)
  /\ UNCHANGED <<row, square, regime>>

AddCustomer(c) ==
  /\ At(c, "add")
  /\ calls[c].group \in alive
  /\ members' = members \cup {calls[c].group}
  /\ Goto(c, "rule")
  /\ UNCHANGED <<row, alive, rules, keyed, regime>>

\* Mutant: the result of the call is not looked at.
AddCustomerIgnored(c) ==
  /\ At(c, "add")
  /\ Goto(c, "rule")
  /\ UNCHANGED <<row, square, regime>>

\* Also the answer for a group that is gone.
AddCustomerFails(c) ==
  /\ At(c, "add")
  /\ Goto(c, "undo")
  /\ UNCHANGED <<row, square, regime>>

CreateRule(c) ==
  /\ At(c, "rule")
  /\ \E r \in FreeRules :
       /\ rules' = [rules EXCEPT ![r] = calls[c].group]
       /\ calls' = [calls EXCEPT ![c].step = "record", ![c].rule = r]
  /\ UNCHANGED <<row, alive, members, keyed, regime>>

\* No price is known, or Square refuses, or its answer does not arrive.
CreateRuleFails(c) ==
  /\ At(c, "rule")
  /\ \/ UNCHANGED rules
     \/ /\ "lost" \in regime.hazards
        /\ \E r \in FreeRules : rules' = [rules EXCEPT ![r] = calls[c].group]
  /\ Goto(c, "undo")
  /\ UNCHANGED <<row, alive, members, keyed, regime>>

\* Mutant: the failed attempt is left as it is.
UndoNothing(c) ==
  /\ At(c, "undo")
  /\ Fail(c)
  /\ UNCHANGED <<row, square, regime>>

\* The customer is taken out of the group and the group is deleted.
Undo(c) ==
  /\ At(c, "undo")
  /\ \/ alive' = alive \ {calls[c].group} /\ members' = members \ {calls[c].group}
     \/ "delete_fails" \in regime.hazards /\ UNCHANGED <<alive, members>>
  /\ Fail(c)
  /\ UNCHANGED <<row, rules, keyed, regime>>

\* UPDATE ... WHERE id = ...: a row that is not there is not an error.
Record(c) ==
  /\ At(c, "record")
  /\ ~RowLocked
  /\ recorded' = IF Visible THEN [group |-> calls[c].group, rule |-> calls[c].rule] ELSE recorded
  /\ IF c \in {"retry", "flush"} THEN Goto(c, "unpend") ELSE Finish(c)
  /\ UNCHANGED <<status, earning, pending, square, regime>>

RecordFails(c) ==
  /\ At(c, "record")
  /\ "db_fails" \in regime.hazards
  /\ Fail(c)
  /\ UNCHANGED <<row, square, regime>>

CreateSteps(c) ==
  \/ CreateGroup(c) \/ CreateGroupFails(c) \/ AddCustomer(c) \/ AddCustomerFails(c)
  \/ CreateRule(c) \/ CreateRuleFails(c) \/ Undo(c) \/ Record(c) \/ RecordFails(c)

-----------------------------------------------------------------------------
(* The retry list *)

\* Mutant: the flag is not raised.
MarkNothing ==
  /\ At("purchase", "mark")
  /\ Finish("purchase")
  /\ UNCHANGED <<row, square, regime>>

\* markSyncPendingIfRewardExists
MarkPending ==
  /\ At("purchase", "mark")
  /\ ~RowLocked
  /\ \/ pending' = (Visible \/ pending)
     \/ "db_fails" \in regime.hazards /\ UNCHANGED pending
  /\ Finish("purchase")
  /\ UNCHANGED <<status, earning, recorded, square, regime>>

\* retryPendingSquareSyncs; the ids are not looked at.
RetrySelect(c) ==
  /\ c \in {"retry", "flush"}
  /\ MayBegin(c)
  /\ status = "earned"
  /\ pending
  /\ Goto(c, "group")
  /\ UNCHANGED <<row, square, regime>>

ClearPending(c) ==
  /\ At(c, "unpend")
  /\ pending' = FALSE
  /\ Finish(c)
  /\ UNCHANGED <<status, earning, recorded, square, regime>>

-----------------------------------------------------------------------------
(* The admin's sync and validation *)

\* syncRewardsToPOS: earned rewards without ids, or all of them when forced,
\* which cleans the recorded objects up first.
SyncSelect ==
  /\ MayBegin("sync")
  /\ status = "earned"
  /\ Goto("sync", IF recorded = NoIds THEN "group" ELSE "read")
  /\ UNCHANGED <<row, square, regime>>

\* validateEarnedRewardsDiscounts selects every earned reward ...
CheckSelect ==
  /\ MayBegin("check")
  /\ status = "earned"
  /\ calls' = [calls EXCEPT !["check"].step = "inspect", !["check"].seen = recorded]
  /\ UNCHANGED <<row, square, regime>>

\* ... and looks at each as it was selected: create what is missing, replace a
\* discount that is gone, put the customer back into the group.
Inspect ==
  /\ At("check", "inspect")
  /\ LET ids == calls["check"].seen
     IN  \/ /\ ids = NoIds
            /\ Goto("check", "group")
            /\ UNCHANGED <<recorded, members>>
         \/ /\ ids # NoIds
            /\ rules[ids.rule] = None
            /\ recorded' = NoIds
            /\ calls' = [calls EXCEPT !["check"] = [Resting EXCEPT !.step = "group"]]
            /\ UNCHANGED members
         \/ /\ ids # NoIds
            /\ rules[ids.rule] # None
            /\ members' = IF ids.group \in alive THEN members \cup {ids.group} ELSE members
            /\ Finish("check")
            /\ UNCHANGED recorded
         \/ /\ Finish("check")     \* Square does not answer
            /\ UNCHANGED <<recorded, members>>
  /\ UNCHANGED <<status, earning, pending, alive, rules, keyed, regime>>

-----------------------------------------------------------------------------
(* cleanupSquareCustomerGroupDiscount *)

CleanupRead(c) ==
  /\ At(c, "read")
  /\ calls' = [calls EXCEPT ![c].step = "delete", ![c].seen = recorded]
  /\ UNCHANGED <<row, square, regime>>

\* The group with its member, then the catalog objects; neither has to succeed.
CleanupDelete(c) ==
  /\ At(c, "delete")
  /\ \E groupGone, ruleGone \in (IF "delete_fails" \in regime.hazards THEN BOOLEAN ELSE {TRUE}) :
       LET ids == calls[c].seen
       IN  /\ alive' = IF groupGone THEN alive \ {ids.group} ELSE alive
           /\ members' = IF groupGone THEN members \ {ids.group} ELSE members
           /\ rules' = IF ruleGone /\ ids # NoIds THEN [rules EXCEPT ![ids.rule] = None] ELSE rules
  /\ Goto(c, "clear")
  /\ UNCHANGED <<row, keyed, regime>>

\* The ids are cleared whatever was deleted; a forced sync goes on to create.
CleanupClear(c) ==
  /\ At(c, "clear")
  /\ recorded' = NoIds
  /\ calls' = [calls EXCEPT ![c] = IF c = "sync" THEN [Resting EXCEPT !.step = "group"] ELSE Resting]
  /\ UNCHANGED <<status, earning, pending, square, regime>>

CleanupSteps(c) == CleanupRead(c) \/ CleanupDelete(c) \/ CleanupClear(c)

-----------------------------------------------------------------------------
(* Redemption and expiry *)

\* Mutant: the objects are left in Square.
RedeemOnly ==
  /\ MayBegin("redeem")
  /\ status = "earned"
  /\ status' = "redeemed"
  /\ UNCHANGED <<earning, recorded, pending, square, calls, regime>>

\* redeemReward commits, then cleans up.
Redeem ==
  /\ MayBegin("redeem")
  /\ status = "earned"
  /\ status' = "redeemed"
  /\ Goto("redeem", "read")
  /\ UNCHANGED <<earning, recorded, pending, square, regime>>

\* processExpiredEarnedRewards selects the rewards with their ids ...
ExpireSelect ==
  /\ MayBegin("expire")
  /\ status = "earned"
  /\ calls' = [calls EXCEPT !["expire"].step = "revoke", !["expire"].seen = recorded]
  /\ UNCHANGED <<row, square, regime>>

\* ... revokes each by its id, and cleans up if it had ids when selected.
Revoke ==
  /\ At("expire", "revoke")
  /\ status' = "revoked"
  /\ IF calls["expire"].seen = NoIds THEN Finish("expire") ELSE Goto("expire", "read")
  /\ UNCHANGED <<earning, recorded, pending, square, regime>>

-----------------------------------------------------------------------------
(* The environment *)

KeyForgotten ==
  /\ "key_forgotten" \in regime.hazards
  /\ keyed # None
  /\ keyed' = None
  /\ UNCHANGED <<row, alive, members, rules, calls, regime>>

MerchantDeletes ==
  /\ "merchant" \in regime.hazards
  /\ \/ \E r \in Rules : /\ rules[r] # None
                         /\ rules' = [rules EXCEPT ![r] = None]
                         /\ UNCHANGED <<alive, members>>
     \/ \E g \in alive : /\ members' = members \ {g}
                         /\ alive' \in {alive, alive \ {g}}
                         /\ UNCHANGED rules
  /\ UNCHANGED <<row, keyed, calls, regime>>

\* Every call ends where it is, and the open transaction is rolled back.
Crash ==
  /\ "crash" \in regime.hazards
  /\ ~AllIdle
  /\ calls' = [c \in Callers |-> Resting]
  /\ earning' = FALSE
  /\ status' = IF earning /\ status = "none" THEN "rolled_back" ELSE status
  /\ UNCHANGED <<recorded, pending, square, regime>>

-----------------------------------------------------------------------------
Step(c) == CreateSteps(c) \/ CleanupSteps(c) \/ ClearPending(c)

Next ==
  \/ BeginEarning \/ Fire \/ CommitEarning \/ RollbackEarning \/ MarkPending
  \/ \E c \in Callers : RetrySelect(c) \/ Step(c)
  \/ SyncSelect \/ CheckSelect \/ Inspect
  \/ Redeem \/ ExpireSelect \/ Revoke
  \/ KeyForgotten \/ MerchantDeletes \/ Crash

Spec == Init /\ [][Next]_vars

\* The job runs every 15 minutes; what it asks of Square is eventually done if
\* it is asked for again and again, and an idempotency key is not kept for ever.
RetryFairness ==
  /\ WF_vars(RetrySelect("retry"))
  /\ WF_vars(Step("retry"))
  /\ SF_vars(CreateGroup("retry"))
  /\ SF_vars(AddCustomer("retry"))
  /\ SF_vars(CreateRule("retry"))
  /\ WF_vars(KeyForgotten)
FairSpec == Spec /\ RetryFairness
-----------------------------------------------------------------------------
(* Properties *)

\* Every variable holds what its column, Square's side or a caller can hold.
TypeOK ==
  /\ status \in {"none", "rolled_back", "in_progress", "earned", "redeemed", "revoked"}
  /\ earning \in BOOLEAN /\ pending \in BOOLEAN
  /\ recorded \in Ids \cup {NoIds}
  /\ alive \subseteq Groups /\ members \subseteq alive
  /\ rules \in [Rules -> Groups \cup {None}]
  /\ keyed \in Groups \cup {None}
  /\ calls \in [Callers -> Call]
  /\ regime \in Regimes

\* Outside these regimes the code breaks the property that names one of them;
\* the README tells how.
Serial     == "overlap" \notin regime.hazards
Committed  == "open_tx" \notin regime.hazards
Reliable   == regime.hazards \cap {"delete_fails", "db_fails", "crash"} = {}
NoAdmin    == regime.callers \cap {"sync", "check"} = {}
OneCreator == NoAdmin \/ regime.callers \cap {"retry", "flush"} = {}
Orderly    == Serial /\ Committed /\ Reliable /\ OneCreator

\* Between calls, what the till gives away is recorded in the reward's row, so
\* that redemption and expiry can find it and withdraw it.
NoOrphan == Orderly /\ Quiet => Offers \subseteq {recorded.rule}

\* Between calls, the till gives nothing away for a reward that is not, or is no
\* longer, earned (reward-service.js, BACKLOG-68; purchase-service.js, MED-1).
NothingFree == Orderly /\ Quiet /\ status # "earned" => Offers = {}

\* Between calls, an earned reward whose ids are recorded is one the till will
\* honour: it auto-applies at the point of sale (square-discount-service.js).
Delivered ==
  /\ Orderly /\ "merchant" \notin regime.hazards
  /\ Quiet /\ status = "earned" /\ recorded # NoIds
  => recorded.rule \in Offers

\* Once the call fired by the purchase has ended, an earned reward has its
\* Square ids or is on the retry list (reward-progress-service.js, LA-4, LOW-7).
EarnedTracked ==
  /\ Committed /\ Reliable /\ NoAdmin
  /\ status = "earned" /\ calls["purchase"].step = "idle"
  => recorded # NoIds \/ pending

\* Unless the admin replaces its objects, a reward leaves the retry list only
\* with its ids recorded (square-sync-retry-service.js).
RetryUntilDone ==
  [][NoAdmin /\ pending /\ ~pending' /\ status = "earned" => recorded # NoIds]_vars

\* A reward on the retry list is eventually synced, unless it is used or expires;
\* the job is not made to wait for the other callers.
PendingServed ==
  (~Serial /\ Reliable /\ Committed /\ NoAdmin /\ status = "earned" /\ pending)
    ~> (status # "earned" \/ recorded # NoIds)
=============================================================================
