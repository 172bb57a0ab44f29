------------------------- MODULE RewardDiscountProofs -------------------------
(***************************************************************************)
(* The till gives away only what a reward's row records, only for rewards  *)
(* that are earned, and a reward is not lost from sight while its objects  *)
(* are being made: for any ids, and under the hazards each property names. *)
(***************************************************************************)
EXTENDS RewardDiscount, TLAPS

USE IdAssumption

-----------------------------------------------------------------------------
(* Types *)

CallsOK == calls \in [Callers -> Call]

\* What a caller holds at the steps that use it.
HoldsIds ==
  \A c \in Callers :
    /\ calls[c].step \in {"add", "rule", "undo", "record"} => calls[c].group \in Groups
    /\ calls[c].step = "record" => calls[c].rule \in Rules

TypeInv == TypeOK /\ HoldsIds

LEMMA RestingType == Resting \in Call /\ [Resting EXCEPT !.step = "group"] \in Call
BY DEF Resting, Call, StepNames

LEMMA CallType ==
  ASSUME CallsOK, NEW c \in Callers
  PROVE  /\ calls[c].step \in StepNames
         /\ calls[c].group \in Groups \cup {None}
         /\ calls[c].rule \in Rules \cup {None}
         /\ calls[c].seen \in Ids \cup {NoIds}
BY DEF CallsOK, Call

\* Moving one caller on, and ending its call.
LEMMA GotoType ==
  ASSUME CallsOK, HoldsIds, NEW c \in Callers, NEW step \in StepNames, Goto(c, step),
         step \in {"add", "rule", "undo", "record"} => calls[c].group \in Groups,
         step = "record" => calls[c].rule \in Rules
  PROVE  CallsOK' /\ HoldsIds'
<1>1. [calls[c] EXCEPT !.step = step] \in Call
  BY DEF CallsOK, Call
<1>2. CallsOK'
  BY <1>1 DEF CallsOK, Goto
<1>3. ASSUME NEW d \in Callers
      PROVE  /\ calls'[d].group = calls[d].group /\ calls'[d].rule = calls[d].rule
             /\ calls'[d].step = IF d = c THEN step ELSE calls[d].step
  BY DEF CallsOK, Goto, Call
<1> QED
  BY <1>2, <1>3 DEF HoldsIds

LEMMA FinishType ==
  ASSUME CallsOK, HoldsIds, NEW c \in Callers, Finish(c)
  PROVE  CallsOK' /\ HoldsIds'
<1>1. CallsOK'
  BY RestingType DEF CallsOK, Finish
<1>2. ASSUME NEW d \in Callers
      PROVE  calls'[d] = IF d = c THEN Resting ELSE calls[d]
  BY DEF CallsOK, Finish
<1> QED
  BY <1>1, <1>2 DEF HoldsIds, Resting

\* A caller gets a new record of local variables.
LEMMA SetType ==
  ASSUME CallsOK, HoldsIds, NEW c \in Callers, NEW call \in Call,
         calls' = [calls EXCEPT ![c] = call],
         call.step \in {"add", "rule", "undo", "record"} => call.group \in Groups,
         call.step = "record" => call.rule \in Rules
  PROVE  CallsOK' /\ HoldsIds'
<1>1. CallsOK'
  BY DEF CallsOK
<1>2. ASSUME NEW d \in Callers
      PROVE  calls'[d] = IF d = c THEN call ELSE calls[d]
  BY DEF CallsOK
<1> QED
  BY <1>1, <1>2 DEF HoldsIds

\* Steps of a caller.
LEMMA CreateType ==
  ASSUME TypeInv, NEW c \in Callers, CreateSteps(c)
  PROVE  TypeInv'
<1> USE DEF TypeInv
<1>0. CallsOK /\ calls[c].step \in StepNames /\ Rules \cap {None} = {} /\ Groups \cap {None} = {}
  BY CallType DEF TypeOK, CallsOK
<1>1. ASSUME CreateGroup(c) PROVE TypeInv'
  <2>1. PICK g \in (IF keyed # None THEN {keyed} ELSE FreeGroups) :
          /\ alive' = IF keyed # None THEN alive ELSE alive \cup {g}
          /\ rules' = IF keyed # None THEN rules
                      ELSE [r \in Rules |-> IF rules[r] = g THEN None ELSE rules[r]]
          /\ keyed' = g
          /\ calls' = [calls EXCEPT ![c].step = "add", ![c].group = g]
    BY <1>1 DEF CreateGroup
  <2>2. g \in Groups
    BY <2>1 DEF FreeGroups, TypeOK
  <2> DEFINE call == [calls[c] EXCEPT !.step = "add", !.group = g]
  <2>3. call \in Call /\ call.step = "add" /\ call.group \in Groups
    BY <1>0, <2>2 DEF CallsOK, Call, StepNames
  <2>5. calls' = [calls EXCEPT ![c] = call]
    BY <2>1
  <2>4. CallsOK' /\ HoldsIds'
    <3> HIDE DEF call
    <3> QED
      BY <1>0, <2>3, <2>5, SetType
  <2> QED
    BY <1>1, <2>1, <2>2, <2>4 DEF CreateGroup, TypeOK, CallsOK, row
<1>2. ASSUME Fail(c), UNCHANGED <<row, square, regime>> PROVE TypeInv'
  <2>1. CallsOK' /\ HoldsIds'
    BY <1>0, <1>2, GotoType, FinishType DEF Fail, StepNames
  <2> QED
    BY <1>2, <2>1 DEF TypeOK, CallsOK, row, square
<1>3. ASSUME AddCustomer(c) PROVE TypeInv'
  <2>1. CallsOK' /\ HoldsIds'
    BY <1>0, <1>3, GotoType DEF AddCustomer, StepNames, At, HoldsIds
  <2> QED
    BY <1>3, <2>1 DEF AddCustomer, TypeOK, CallsOK, row
<1>4. ASSUME AddCustomerFails(c) PROVE TypeInv'
  <2>1. CallsOK' /\ HoldsIds'
    BY <1>0, <1>4, GotoType DEF AddCustomerFails, StepNames, At, HoldsIds
  <2> QED
    BY <1>4, <2>1 DEF AddCustomerFails, TypeOK, CallsOK, row, square
<1>5. ASSUME CreateRule(c) PROVE TypeInv'
  <2>0. calls[c].group \in Groups
    BY <1>5 DEF CreateRule, At, HoldsIds
  <2>1. PICK r \in FreeRules :
          /\ rules' = [rules EXCEPT ![r] = calls[c].group]
          /\ calls' = [calls EXCEPT ![c].step = "record", ![c].rule = r]
    BY <1>5 DEF CreateRule
  <2>2. r \in Rules
    BY <2>1 DEF FreeRules
  <2> DEFINE call == [calls[c] EXCEPT !.step = "record", !.rule = r]
  <2>3. call \in Call /\ call.step = "record" /\ call.group \in Groups /\ call.rule \in Rules
    BY <1>0, <2>0, <2>2 DEF CallsOK, Call, StepNames
  <2>5. calls' = [calls EXCEPT ![c] = call]
    BY <2>1
  <2>4. CallsOK' /\ HoldsIds'
    <3> HIDE DEF call
    <3> QED
      BY <1>0, <2>3, <2>5, SetType
  <2> QED
    BY <1>5, <2>0, <2>1, <2>2, <2>4 DEF CreateRule, TypeOK, CallsOK, row
<1>6. ASSUME CreateRuleFails(c) PROVE TypeInv'
  <2>0. calls[c].group \in Groups
    BY <1>6 DEF CreateRuleFails, At, HoldsIds
  <2>1. CallsOK' /\ HoldsIds'
    BY <1>0, <1>6, <2>0, GotoType DEF CreateRuleFails, StepNames
  <2>2. rules' \in [Rules -> Groups \cup {None}]
    BY <1>6, <2>0 DEF CreateRuleFails, TypeOK, FreeRules
  <2> QED
    BY <1>6, <2>1, <2>2 DEF CreateRuleFails, TypeOK, CallsOK, row
<1>7. ASSUME Undo(c) PROVE TypeInv'
  <2>1. CallsOK' /\ HoldsIds'
    BY <1>0, <1>7, GotoType, FinishType DEF Undo, Fail, StepNames
  <2> QED
    BY <1>7, <2>1 DEF Undo, TypeOK, CallsOK, row
<1>8. ASSUME Record(c) PROVE TypeInv'
  <2>1. CallsOK' /\ HoldsIds'
    BY <1>0, <1>8, GotoType, FinishType DEF Record, StepNames
  <2>2. recorded' \in Ids \cup {NoIds}
    BY <1>8 DEF Record, TypeOK, At, HoldsIds, Ids
  <2> QED
    BY <1>8, <2>1, <2>2 DEF Record, TypeOK, CallsOK, square
<1> QED
  BY <1>1, <1>2, <1>3, <1>4, <1>5, <1>6, <1>7, <1>8
  DEF CreateSteps, CreateGroupFails, RecordFails

LEMMA CleanupType ==
  ASSUME TypeInv, NEW c \in Callers, CleanupSteps(c)
  PROVE  TypeInv'
<1> USE DEF TypeInv
<1>0. CallsOK /\ recorded \in Ids \cup {NoIds}
  BY DEF TypeOK, CallsOK
<1>1. ASSUME CleanupRead(c) PROVE TypeInv'
  <2> DEFINE call == [calls[c] EXCEPT !.step = "delete", !.seen = recorded]
  <2>1. call \in Call /\ call.step = "delete"
    BY <1>0 DEF CallsOK, Call, StepNames
  <2>3. calls' = [calls EXCEPT ![c] = call]
    BY <1>1 DEF CleanupRead
  <2>2. CallsOK' /\ HoldsIds'
    <3> HIDE DEF call
    <3> QED
      BY <1>0, <2>1, <2>3, SetType
  <2> QED
    BY <1>1, <2>2 DEF CleanupRead, TypeOK, CallsOK, row, square
<1>2. ASSUME CleanupDelete(c) PROVE TypeInv'
  <2>1. CallsOK' /\ HoldsIds'
    BY <1>0, <1>2, GotoType DEF CleanupDelete, StepNames
  <2>2. alive' \subseteq Groups /\ members' \subseteq alive'
        /\ rules' \in [Rules -> Groups \cup {None}]
    BY <1>0, <1>2, CallType DEF CleanupDelete, TypeOK, Ids
  <2> QED
    BY <1>2, <2>1, <2>2 DEF CleanupDelete, TypeOK, CallsOK, row
<1>3. ASSUME CleanupClear(c) PROVE TypeInv'
  <2>1. CallsOK' /\ HoldsIds'
    BY <1>0, <1>3, SetType, RestingType DEF CleanupClear, Resting
  <2> QED
    BY <1>3, <2>1 DEF CleanupClear, TypeOK, CallsOK, square
<1> QED
  BY <1>1, <1>2, <1>3 DEF CleanupSteps

LEMMA StepType ==
  ASSUME TypeInv, [Next]_vars
  PROVE  TypeInv'
<1> USE DEF TypeInv
<1>0. CallsOK /\ {"purchase", "sync", "check", "redeem", "expire"} \subseteq Callers
  BY DEF TypeOK, CallsOK, Callers
<1>1. ASSUME BeginEarning PROVE TypeInv'
  <2>1. CallsOK' /\ HoldsIds'
    BY <1>0, <1>1, GotoType DEF BeginEarning, StepNames
  <2> QED
    BY <1>1, <2>1 DEF BeginEarning, TypeOK, CallsOK, square
<1>2. ASSUME Fire PROVE TypeInv'
  <2>1. CallsOK' /\ HoldsIds'
    BY <1>0, <1>2, GotoType DEF Fire, StepNames
  <2> QED
    BY <1>2, <2>1 DEF Fire, TypeOK, CallsOK, row, square
<1>3. ASSUME CommitEarning PROVE TypeInv'
  BY <1>3 DEF CommitEarning, TypeOK, HoldsIds, square
<1>4. ASSUME RollbackEarning PROVE TypeInv'
  <2>1. CallsOK' /\ HoldsIds'
    BY <1>0, <1>4, FinishType DEF RollbackEarning, CallsOK, HoldsIds
  <2> QED
    BY <1>4, <2>1 DEF RollbackEarning, TypeOK, CallsOK, square
<1>5. ASSUME MarkPending PROVE TypeInv'
  <2>1. CallsOK' /\ HoldsIds'
    BY <1>0, <1>5, FinishType DEF MarkPending
  <2> QED
    BY <1>5, <2>1 DEF MarkPending, TypeOK, CallsOK, square, Visible
<1>6. ASSUME NEW c \in Callers, RetrySelect(c) PROVE TypeInv'
  <2>1. CallsOK' /\ HoldsIds'
    BY <1>0, <1>6, GotoType DEF RetrySelect, StepNames
  <2> QED
    BY <1>6, <2>1 DEF RetrySelect, TypeOK, CallsOK, row, square
<1>7. ASSUME NEW c \in Callers, ClearPending(c) PROVE TypeInv'
  <2>1. CallsOK' /\ HoldsIds'
    BY <1>0, <1>7, FinishType DEF ClearPending
  <2> QED
    BY <1>7, <2>1 DEF ClearPending, TypeOK, CallsOK, square
<1>8. ASSUME NEW c \in Callers, Step(c) PROVE TypeInv'
  BY <1>7, <1>8, CreateType, CleanupType DEF Step
<1>9. ASSUME SyncSelect PROVE TypeInv'
  <2>1. CallsOK' /\ HoldsIds'
    BY <1>0, <1>9, GotoType DEF SyncSelect, StepNames
  <2> QED
    BY <1>9, <2>1 DEF SyncSelect, TypeOK, CallsOK, row, square
<1>10. ASSUME NEW c \in Callers, NEW step \in {"inspect", "revoke"},
              calls' = [calls EXCEPT ![c].step = step, ![c].seen = recorded],
              UNCHANGED <<row, square, regime>>
       PROVE  TypeInv'
  <2> DEFINE call == [calls[c] EXCEPT !.step = step, !.seen = recorded]
  <2>1. call \in Call /\ call.step = step
    BY <1>0 DEF CallsOK, Call, StepNames, TypeOK
  <2>3. calls' = [calls EXCEPT ![c] = call]
    BY <1>10
  <2>2. CallsOK' /\ HoldsIds'
    <3> HIDE DEF call
    <3> QED
      BY <1>0, <1>10, <2>1, <2>3, SetType
  <2> QED
    BY <1>10, <2>2 DEF TypeOK, CallsOK, row, square
<1>11. ASSUME Inspect PROVE TypeInv'
  <2> DEFINE call == [Resting EXCEPT !.step = "group"]
  <2>3. call \in Call /\ call.step = "group"
    BY RestingType DEF Resting
  <2>4. \/ Goto("check", "group") \/ Finish("check")
        \/ calls' = [calls EXCEPT !["check"] = call]
    BY <1>11 DEF Inspect
  <2>1. CallsOK' /\ HoldsIds'
    <3> HIDE DEF call
    <3> QED
      BY <1>0, <2>3, <2>4, GotoType, FinishType, SetType DEF StepNames
  <2>2. recorded' \in Ids \cup {NoIds} /\ members' \subseteq alive'
    BY <1>11 DEF Inspect, TypeOK
  <2> QED
    BY <1>11, <2>1, <2>2 DEF Inspect, TypeOK, CallsOK
<1>12. ASSUME Redeem PROVE TypeInv'
  <2>1. CallsOK' /\ HoldsIds'
    BY <1>0, <1>12, GotoType DEF Redeem, StepNames
  <2> QED
    BY <1>12, <2>1 DEF Redeem, TypeOK, CallsOK, square
<1>13. ASSUME Revoke PROVE TypeInv'
  <2>1. CallsOK' /\ HoldsIds'
    BY <1>0, <1>13, GotoType, FinishType DEF Revoke, StepNames
  <2> QED
    BY <1>13, <2>1 DEF Revoke, TypeOK, CallsOK, square
<1>14. ASSUME KeyForgotten PROVE TypeInv'
  BY <1>14 DEF KeyForgotten, TypeOK, HoldsIds, row
<1>15. ASSUME MerchantDeletes PROVE TypeInv'
  BY <1>15 DEF MerchantDeletes, TypeOK, HoldsIds, row
<1>16. ASSUME Crash PROVE TypeInv'
  BY <1>16, RestingType DEF Crash, TypeOK, HoldsIds, Resting, square
<1>17. CASE UNCHANGED vars
  BY <1>17 DEF TypeOK, HoldsIds, vars, row, square
<1>18. ASSUME CheckSelect \/ ExpireSelect PROVE TypeInv'
  BY <1>0, <1>10, <1>18 DEF CheckSelect, ExpireSelect
<1> QED
  BY <1>1, <1>2, <1>3, <1>4, <1>5, <1>6, <1>8, <1>9, <1>11, <1>12, <1>13,
     <1>14, <1>15, <1>16, <1>17, <1>18
  DEF Next

LEMMA TypesInit ==
  ASSUME Init
  PROVE  TypeInv
<1>1. \A c \in Callers : calls[c] = Resting
  BY DEF Init
<1>2. HoldsIds
  BY <1>1 DEF HoldsIds, Resting
<1>3. TypeOK
  BY RestingType DEF Init, TypeOK
<1> QED
  BY <1>2, <1>3 DEF TypeInv

\* Every variable keeps its type, whatever is called and fails: the ids in the
\* row name what was created, and the customer is only in groups that exist.
THEOREM TypesHold == Spec => [](TypeInv /\ TypeOK)
<1>1. Init => TypeInv
  BY TypesInit
<1>2. TypeInv /\ [Next]_vars => TypeInv'
  BY StepType
<1>3. TypeInv => TypeOK
  BY DEF TypeInv
<1> QED
  BY <1>1, <1>2, <1>3, PTL DEF Spec

-----------------------------------------------------------------------------
(* Where callers are, and what that says of the row *)

Done      == {"earned", "redeemed", "revoked"}
Retriers  == {"retry", "flush"}
Creating  == {"group", "add", "rule", "undo", "record"}
Cleaning  == {"read", "delete", "clear"}

\* Who takes which step.
StepsTaken ==
  \A c \in Callers :
    /\ calls[c].step \in Creating => c \in {"purchase", "retry", "flush", "sync", "check"}
    /\ calls[c].step \in Cleaning => c \in {"sync", "redeem", "expire"}
    /\ calls[c].step \in {"fire", "mark"} => c = "purchase"
    /\ calls[c].step = "unpend" => c \in Retriers
    /\ calls[c].step = "inspect" => c = "check"
    /\ calls[c].step = "revoke" => c = "expire"
    /\ calls[c].step # "idle" => c \in regime.callers

\* Everyone but the purchase works on a reward that is earned, or was; the
\* objects are withdrawn by then only from one that no longer is.
StatusSeen ==
  /\ earning => status \in {"none", "in_progress"}
  /\ \A c \in Callers : c # "purchase" /\ calls[c].step # "idle" => status \in Done
  /\ \A c \in Callers : c # "sync" /\ calls[c].step \in Cleaning
                       => status \in {"redeemed", "revoked"}

\* A call fired after the commit follows the transaction.
FiredAfter ==
  Committed => /\ earning => calls["purchase"].step = "fire"
               /\ calls["purchase"].step # "idle" => earning \/ status \in Done

\* The job takes a reward off the list once its ids are in the row.
UnpendAfter ==
  NoAdmin => \A c \in Callers : calls[c].step = "unpend" /\ status = "earned" => recorded # NoIds

StageInv == TypeInv /\ StepsTaken /\ StatusSeen /\ FiredAfter /\ UnpendAfter

\* How a step moves its caller.
LEMMA Moves ==
  ASSUME CallsOK, NEW c \in Callers, NEW step \in StepNames, Goto(c, step)
  PROVE  \A d \in Callers :
           /\ calls'[d].step = IF d = c THEN step ELSE calls[d].step
           /\ calls'[d].group = calls[d].group
           /\ calls'[d].rule = calls[d].rule
           /\ calls'[d].seen = calls[d].seen
BY DEF CallsOK, Goto, Call

LEMMA Ends ==
  ASSUME CallsOK, NEW c \in Callers, Finish(c)
  PROVE  \A d \in Callers : calls'[d] = IF d = c THEN Resting ELSE calls[d]
BY DEF CallsOK, Finish

LEMMA RegimeKept ==
  ASSUME [Next]_vars
  PROVE  regime' = regime
BY DEF Next, vars, BeginEarning, Fire, CommitEarning, RollbackEarning, MarkPending, RetrySelect,
   Step, CreateSteps, CreateGroup, CreateGroupFails, AddCustomer, AddCustomerFails, CreateRule,
   CreateRuleFails, Undo, Record, RecordFails, CleanupSteps, CleanupRead, CleanupDelete,
   CleanupClear, ClearPending, SyncSelect, CheckSelect, Inspect, Redeem, ExpireSelect, Revoke,
   KeyForgotten, MerchantDeletes, Crash

LEMMA FailMoves ==
  ASSUME CallsOK, NEW c \in Callers, Fail(c)
  PROVE  calls'[c].step = IF c = "purchase" THEN "mark" ELSE "idle"
BY DEF Fail, Goto, Finish, Resting, CallsOK, Call

LEMMA CreateMoves ==
  ASSUME CallsOK, NEW c \in Callers, CreateSteps(c)
  PROVE  /\ calls[c].step \in Creating
         /\ \A d \in Callers : d # c => calls'[d] = calls[d]
         /\ \/ calls'[c].step \in {"add", "rule", "undo", "record"}
            \/ c = "purchase" /\ calls'[c].step = "mark"
            \/ calls'[c].step = "idle" /\ (c = "purchase" => Record(c))
            \/ c \in Retriers /\ calls'[c].step = "unpend" /\ Record(c)
<1>1. ASSUME CreateGroup(c) PROVE calls'[c].step = "add"
  BY <1>1 DEF CreateGroup, CallsOK, Call
<1>2. ASSUME CreateRule(c) PROVE calls'[c].step = "record"
  BY <1>2 DEF CreateRule, CallsOK, Call
<1>3. ASSUME Fail(c) PROVE calls'[c].step = IF c = "purchase" THEN "mark" ELSE "idle"
  BY <1>3, FailMoves
<1>4. ASSUME Record(c)
      PROVE  calls'[c].step = IF c \in Retriers THEN "unpend" ELSE "idle"
  BY <1>4 DEF Record, Retriers, Goto, Finish, Resting, CallsOK, Call
<1>5. ASSUME NEW step, Goto(c, step) PROVE calls'[c].step = step
  BY <1>5 DEF Goto, CallsOK, Call
<1>6. calls[c].step \in Creating
  BY DEF CreateSteps, CreateGroup, CreateGroupFails, AddCustomer, AddCustomerFails,
     CreateRule, CreateRuleFails, Undo, Record, RecordFails, At, Creating
<1>7. \A d \in Callers : d # c => calls'[d] = calls[d]
  BY DEF CreateSteps, CreateGroup, CreateGroupFails, AddCustomer, AddCustomerFails,
     CreateRule, CreateRuleFails, Undo, Record, RecordFails, Fail, Goto, Finish, CallsOK
<1> QED
  BY <1>1, <1>2, <1>3, <1>4, <1>5, <1>6, <1>7
  DEF CreateSteps, CreateGroupFails, AddCustomer, AddCustomerFails, CreateRuleFails, Undo,
      RecordFails

\* The write of the ids reaches an earned reward.
LEMMA Recorded ==
  ASSUME TypeInv, NEW c \in Callers, Record(c)
  PROVE  /\ calls[c].step = "record" /\ calls[c].group \in Groups /\ calls[c].rule \in Rules
         /\ Visible => recorded' = [group |-> calls[c].group, rule |-> calls[c].rule]
         /\ status = "earned" => recorded' # NoIds
<1>1. calls[c].step = "record" /\ calls[c].group \in Groups /\ calls[c].rule \in Rules
  BY DEF Record, At, TypeInv, HoldsIds
<1> QED
  BY <1>1 DEF Record, Visible, NoIds

\* Steps of a creation other than the last leave the row alone.
LEMMA CreateRow ==
  ASSUME NEW c \in Callers, CreateSteps(c)
  PROVE  Record(c) \/ UNCHANGED row
BY DEF CreateSteps, CreateGroup, CreateGroupFails, AddCustomer, AddCustomerFails,
   CreateRule, CreateRuleFails, Undo, RecordFails

StageFacts == StepsTaken /\ StatusSeen /\ FiredAfter /\ UnpendAfter

\* Each step by its caller's move and by what it needs and writes of the row.
LEMMA StageStep ==
  ASSUME StageInv, [Next]_vars
  PROVE  StageInv'
<1>0. /\ CallsOK /\ TypeInv /\ StageFacts /\ TypeInv' /\ regime' = regime
      /\ Callers = {"purchase", "retry", "flush", "sync", "check", "redeem", "expire"}
  BY StepType, RegimeKept DEF StageInv, TypeInv, TypeOK, CallsOK, Callers, StageFacts
<1> SUFFICES StageFacts'
  BY <1>0 DEF StageInv, StageFacts
<1> USE DEF StageFacts, StepsTaken, StatusSeen, FiredAfter, UnpendAfter, Done, Committed,
            NoAdmin, Creating, Cleaning, Retriers
<1>1. ASSUME BeginEarning PROVE StageFacts'
  <2>1. /\ calls'["purchase"].step = "fire"
        /\ \A d \in Callers : d # "purchase" => calls'[d] = calls[d]
    BY <1>0, <1>1 DEF BeginEarning, Goto, Call, CallsOK
  <2>2. calls["purchase"].step = "idle" /\ "purchase" \in regime.callers
        /\ status \in {"none", "in_progress"} /\ status' = status /\ earning'
    BY <1>1 DEF BeginEarning, MayBegin, At
  <2> QED
    BY <1>0, <2>1, <2>2
<1>2. ASSUME Fire PROVE StageFacts'
  <2>1. /\ calls'["purchase"].step = "group"
        /\ \A d \in Callers : d # "purchase" => calls'[d] = calls[d]
    BY <1>0, <1>2 DEF Fire, Goto, Call, CallsOK
  <2>2. calls["purchase"].step = "fire" /\ status' = status /\ earning' = earning /\ recorded' = recorded
        /\ (Committed => ~earning)
    BY <1>2 DEF Fire, At, row
  <2> QED
    BY <1>0, <2>1, <2>2
<1>3. ASSUME CommitEarning PROVE StageFacts'
  BY <1>0, <1>3 DEF CommitEarning
<1>4. ASSUME RollbackEarning PROVE StageFacts'
  <2>1. /\ Committed => calls["purchase"].step = "fire" /\ Finish("purchase")
        /\ Finish("purchase") \/ calls' = calls
        /\ status \in {"none", "in_progress"} /\ status' \notin Done /\ ~earning'
    BY <1>0, <1>4 DEF RollbackEarning, At
  <2>2. /\ \A d \in Callers : calls'[d] = calls[d] \/ calls'[d].step = "idle"
        /\ Committed => calls'["purchase"].step = "idle"
    BY <1>0, <2>1, Ends DEF Resting
  <2> QED
    BY <1>0, <2>1, <2>2
<1>5. ASSUME MarkPending PROVE StageFacts'
  <2>1. /\ calls'["purchase"].step = "idle"
        /\ \A d \in Callers : d # "purchase" => calls'[d] = calls[d]
    BY <1>0, <1>5 DEF MarkPending, Finish, Resting, CallsOK
  <2>2. calls["purchase"].step = "mark"
        /\ status' = status /\ earning' = earning /\ recorded' = recorded
    BY <1>5 DEF MarkPending, At
  <2> QED
    BY <1>0, <2>1, <2>2
<1>6. ASSUME NEW c \in Callers, RetrySelect(c) PROVE StageFacts'
  <2>1. /\ calls'[c].step = "group"
        /\ \A d \in Callers : d # c => calls'[d] = calls[d]
    BY <1>0, <1>6 DEF RetrySelect, Goto, Call, CallsOK
  <2>2. c \in Retriers /\ c \in regime.callers /\ status = "earned"
        /\ status' = status /\ earning' = earning /\ recorded' = recorded
    BY <1>6 DEF RetrySelect, MayBegin, row
  <2> QED
    BY <1>0, <2>1, <2>2
<1>7. ASSUME NEW c \in Callers, ClearPending(c) PROVE StageFacts'
  <2>1. /\ calls'[c].step = "idle"
        /\ \A d \in Callers : d # c => calls'[d] = calls[d]
    BY <1>0, <1>7 DEF ClearPending, Finish, Resting, CallsOK
  <2>2. calls[c].step = "unpend"
        /\ status' = status /\ earning' = earning /\ recorded' = recorded
    BY <1>7 DEF ClearPending, At
  <2> QED
    BY <1>0, <2>1, <2>2
<1>8. ASSUME NEW c \in Callers, Record(c) PROVE StageFacts'
  <2>1. CreateSteps(c) /\ status' = status /\ earning' = earning
    BY <1>8 DEF CreateSteps, Record
  <2>2. StepsTaken' /\ StatusSeen' /\ FiredAfter'
    BY <1>0, <2>1, CreateMoves
  <2>3. UnpendAfter'
    BY <1>0, <1>8, <2>1, Recorded
  <2> QED
    BY <2>2, <2>3
<1>9. ASSUME NEW c \in Callers, CreateSteps(c), ~Record(c), UNCHANGED row PROVE StageFacts'
  <2>1. status' = status /\ earning' = earning /\ recorded' = recorded
    BY <1>9 DEF row
  <2> QED
    BY <1>0, <1>9, <2>1, CreateMoves
<1>10. ASSUME NEW c \in Callers, CleanupRead(c) PROVE StageFacts'
  <2>1. /\ calls'[c].step = "delete"
        /\ \A d \in Callers : d # c => calls'[d] = calls[d]
    BY <1>0, <1>10 DEF CleanupRead, Call, CallsOK
  <2>2. calls[c].step = "read" /\ status' = status /\ earning' = earning /\ recorded' = recorded
    BY <1>10 DEF CleanupRead, At, row
  <2> QED
    BY <1>0, <2>1, <2>2
<1>11. ASSUME NEW c \in Callers, CleanupDelete(c) PROVE StageFacts'
  <2>1. /\ calls'[c].step = "clear"
        /\ \A d \in Callers : d # c => calls'[d] = calls[d]
    BY <1>0, <1>11 DEF CleanupDelete, Goto, Call, CallsOK
  <2>2. calls[c].step = "delete" /\ status' = status /\ earning' = earning /\ recorded' = recorded
    BY <1>11 DEF CleanupDelete, At, row
  <2> QED
    BY <1>0, <2>1, <2>2
<1>12. ASSUME NEW c \in Callers, CleanupClear(c) PROVE StageFacts'
  <2>1. /\ calls'[c].step = IF c = "sync" THEN "group" ELSE "idle"
        /\ \A d \in Callers : d # c => calls'[d] = calls[d]
    BY <1>0, <1>12 DEF CleanupClear, Resting, CallsOK
  <2>2. calls[c].step = "clear" /\ status' = status /\ earning' = earning
    BY <1>12 DEF CleanupClear, At
  <2> QED
    BY <1>0, <2>1, <2>2
<1>13. ASSUME SyncSelect PROVE StageFacts'
  <2>1. /\ calls'["sync"].step \in {"group", "read"}
        /\ \A d \in Callers : d # "sync" => calls'[d] = calls[d]
    BY <1>0, <1>13 DEF SyncSelect, Goto, Call, CallsOK
  <2>2. "sync" \in regime.callers /\ status = "earned"
        /\ status' = status /\ earning' = earning /\ recorded' = recorded
    BY <1>13 DEF SyncSelect, MayBegin, row
  <2> QED
    BY <1>0, <2>1, <2>2
<1>14. ASSUME CheckSelect PROVE StageFacts'
  <2>1. /\ calls'["check"].step = "inspect"
        /\ \A d \in Callers : d # "check" => calls'[d] = calls[d]
    BY <1>0, <1>14 DEF CheckSelect, Call, CallsOK
  <2>2. "check" \in regime.callers /\ status = "earned"
        /\ status' = status /\ earning' = earning /\ recorded' = recorded
    BY <1>14 DEF CheckSelect, MayBegin, row
  <2> QED
    BY <1>0, <2>1, <2>2
<1>15. ASSUME Inspect PROVE StageFacts'
  <2>1. /\ calls'["check"].step \in {"group", "idle"}
        /\ \A d \in Callers : d # "check" => calls'[d] = calls[d]
    BY <1>0, <1>15 DEF Inspect, Goto, Finish, Resting, Call, CallsOK
  <2>2. calls["check"].step = "inspect" /\ status' = status /\ earning' = earning
    BY <1>15 DEF Inspect, At
  <2> QED
    BY <1>0, <2>1, <2>2
<1>16. ASSUME Redeem PROVE StageFacts'
  <2>1. /\ calls'["redeem"].step = "read"
        /\ \A d \in Callers : d # "redeem" => calls'[d] = calls[d]
    BY <1>0, <1>16 DEF Redeem, Goto, Call, CallsOK
  <2>2. "redeem" \in regime.callers /\ status = "earned" /\ status' = "redeemed"
        /\ earning' = earning
    BY <1>16 DEF Redeem, MayBegin
  <2> QED
    BY <1>0, <2>1, <2>2
<1>17. ASSUME ExpireSelect PROVE StageFacts'
  <2>1. /\ calls'["expire"].step = "revoke"
        /\ \A d \in Callers : d # "expire" => calls'[d] = calls[d]
    BY <1>0, <1>17 DEF ExpireSelect, Call, CallsOK
  <2>2. "expire" \in regime.callers /\ status = "earned"
        /\ status' = status /\ earning' = earning /\ recorded' = recorded
    BY <1>17 DEF ExpireSelect, MayBegin, row
  <2> QED
    BY <1>0, <2>1, <2>2
<1>18. ASSUME Revoke PROVE StageFacts'
  <2>1. /\ calls'["expire"].step \in {"idle", "read"}
        /\ \A d \in Callers : d # "expire" => calls'[d] = calls[d]
    BY <1>0, <1>18 DEF Revoke, Goto, Finish, Resting, Call, CallsOK
  <2>2. calls["expire"].step = "revoke" /\ status' = "revoked" /\ earning' = earning
    BY <1>18 DEF Revoke, At
  <2> QED
    BY <1>0, <2>1, <2>2
<1>19. CASE KeyForgotten \/ MerchantDeletes \/ UNCHANGED vars
  BY <1>0, <1>19 DEF KeyForgotten, MerchantDeletes, vars, row
<1>20. ASSUME Crash PROVE StageFacts'
  <2>1. /\ \A c \in Callers : calls'[c].step = "idle"
        /\ ~earning'
    BY <1>20 DEF Crash, Resting
  <2> QED
    BY <1>0, <2>1
<1> HIDE DEF StageFacts
<1> QED
  BY <1>1, <1>2, <1>3, <1>4, <1>5, <1>6, <1>7, <1>8, <1>9, <1>10, <1>11, <1>12, <1>13, <1>14,
     <1>15, <1>16, <1>17, <1>18, <1>19, <1>20, CreateRow
  DEF Next, Step, CleanupSteps

LEMMA StageInit ==
  ASSUME Init
  PROVE  StageInv
<1>1. \A c \in Callers : calls[c] = Resting
  BY DEF Init
<1>2. TypeInv
  BY TypesInit
<1> QED
  BY <1>1, <1>2 DEF Init, StageInv, StepsTaken, StatusSeen, FiredAfter, UnpendAfter,
     Resting, Callers, Creating, Cleaning

\* With the call fired after the commit and no admin, an earned reward is not
\* forgotten: it has its ids, or it is on the retry list.
LEMMA TrackStep ==
  ASSUME StageInv, EarnedTracked, [Next]_vars
  PROVE  EarnedTracked'
<1>0. StageInv' /\ TypeInv /\ TypeInv' /\ CallsOK /\ "purchase" \in Callers
  BY StageStep DEF StageInv, TypeInv, TypeOK, CallsOK, Callers
<1>a. regime' = regime
  BY RegimeKept
<1> SUFFICES ASSUME Committed, Reliable, NoAdmin, status' = "earned",
                    calls'["purchase"].step = "idle"
             PROVE  recorded' # NoIds \/ pending'
  BY <1>a DEF EarnedTracked, Committed, Reliable, NoAdmin
<1>b. StatusSeen /\ FiredAfter /\ UnpendAfter /\ StepsTaken
  BY DEF StageInv
<1>c. status = "earned" /\ calls["purchase"].step = "idle" => recorded # NoIds \/ pending
  BY DEF EarnedTracked
<1>1. CASE BeginEarning \/ Fire
  BY <1>0, <1>1, <1>c, Moves DEF BeginEarning, Fire, StepNames, row
<1>2. CASE CommitEarning
  BY <1>2, <1>b DEF CommitEarning, FiredAfter
<1>3. CASE RollbackEarning
  BY <1>3, <1>b DEF RollbackEarning, StatusSeen
<1>4. CASE MarkPending
  BY <1>4 DEF MarkPending, Visible, Reliable
<1>5. CASE \E c \in Callers : RetrySelect(c)
  <2>1. PICK c \in Callers : RetrySelect(c)
    BY <1>5
  <2>2. c # "purchase"
    BY <2>1 DEF RetrySelect
  <2> QED
    BY <1>0, <1>c, <2>1, <2>2, Moves DEF RetrySelect, StepNames, row
<1>6. CASE \E c \in Callers : ClearPending(c)
  BY <1>6, <1>b DEF ClearPending, UnpendAfter, At
<1>7. CASE \E c \in Callers : CreateSteps(c)
  <2>1. PICK c \in Callers : CreateSteps(c)
    BY <1>7
  <2>2. CASE Record(c)
    BY <1>0, <2>2, Recorded DEF Record
  <2>3. CASE ~Record(c)
    BY <1>0, <1>c, <2>1, <2>3, CreateMoves, CreateRow DEF row
  <2> QED
    BY <2>2, <2>3
<1>8. CASE \E c \in Callers : CleanupSteps(c)
  <2>1. PICK c \in Callers : CleanupSteps(c)
    BY <1>8
  <2>2. calls[c].step \in Cleaning /\ status' = status
    BY <2>1 DEF CleanupSteps, CleanupRead, CleanupDelete, CleanupClear, At, Cleaning, row
  <2> QED
    BY <1>b, <2>2 DEF StatusSeen, StepsTaken, NoAdmin, Cleaning
<1>9. CASE SyncSelect \/ CheckSelect
  BY <1>9 DEF SyncSelect, CheckSelect, MayBegin, NoAdmin
<1>10. CASE Inspect
  BY <1>10, <1>b DEF Inspect, At, StepsTaken, NoAdmin, Callers
<1>11. CASE Redeem \/ Revoke
  BY <1>11 DEF Redeem, Revoke
<1>12. CASE ExpireSelect
  BY <1>0, <1>12, <1>c DEF ExpireSelect, row, CallsOK, Callers
<1>13. CASE KeyForgotten \/ MerchantDeletes \/ UNCHANGED vars
  BY <1>13, <1>c DEF KeyForgotten, MerchantDeletes, vars, row
<1>14. CASE Crash
  BY <1>14 DEF Crash, Reliable
<1> QED
  BY <1>1, <1>2, <1>3, <1>4, <1>5, <1>6, <1>7, <1>8, <1>9, <1>10, <1>11, <1>12, <1>13, <1>14
  DEF Next, Step

\* The purchase's call leaves an earned reward with its ids or on the list.
THEOREM EarnedIsTracked == Spec => []EarnedTracked
<1>1. Init => StageInv /\ EarnedTracked
  BY StageInit DEF Init, EarnedTracked
<1>2. StageInv /\ EarnedTracked /\ [Next]_vars => StageInv' /\ EarnedTracked'
  BY StageStep, TrackStep
<1> QED
  BY <1>1, <1>2, PTL DEF Spec

\* Whatever fails and whoever overlaps, but for the admin's replacements: the
\* list loses an earned reward only when its ids are there.
THEOREM ListedUntilDone == Spec => RetryUntilDone
<1>1. StageInv /\ [Next]_vars
      => [NoAdmin /\ pending /\ ~pending' /\ status = "earned" => recorded # NoIds]_vars
  <2> SUFFICES ASSUME StageInv, Next, NoAdmin, pending, ~pending', status = "earned"
               PROVE  recorded # NoIds
    BY DEF vars
  <2>1. PICK c \in Callers : ClearPending(c)
    BY DEF Next, BeginEarning, Fire, CommitEarning, RollbackEarning, MarkPending, RetrySelect,
       Step, CreateSteps, CreateGroup, CreateGroupFails, AddCustomer, AddCustomerFails,
       CreateRule, CreateRuleFails, Undo, Record, RecordFails, CleanupSteps, CleanupRead,
       CleanupDelete, CleanupClear, SyncSelect, CheckSelect, Inspect, Redeem, ExpireSelect,
       Revoke, KeyForgotten, MerchantDeletes, Crash, row
  <2> QED
    BY <2>1 DEF ClearPending, At, StageInv, UnpendAfter
<1>2. Init => StageInv
  BY StageInit
<1>3. StageInv /\ [Next]_vars => StageInv'
  BY StageStep
<1> QED
  BY <1>1, <1>2, <1>3, PTL DEF Spec, RetryUntilDone

-----------------------------------------------------------------------------
(* Calls one at a time, that neither fail half-way nor overlap *)

\* The rules the till still has, on groups it still has.
Live == {r \in Rules : rules[r] \in alive}

Alone ==
  \A c, d \in Callers : calls[c].step # "idle" /\ calls[d].step # "idle" => c = d

Unmet == "merchant" \notin regime.hazards

\* What a caller finds, and has made, at each of its steps: it creates only when
\* nothing is recorded and no rule is live, all that is live is what it made in
\* this call, and it takes away what is recorded.
Fits(c) ==
  LET call == calls[c]
  IN  /\ call.step \in Creating \cup {"fire", "mark"} => recorded = NoIds
      /\ call.step \in {"fire", "group", "add", "rule", "mark", "clear"} => Live = {}
      /\ call.step = "undo" => \A r \in Live : rules[r] = call.group
      /\ call.step = "record" => Live \subseteq {call.rule}
      /\ call.step \in {"unpend", "read", "delete", "revoke", "inspect"}
           => Live \subseteq {recorded.rule}
      /\ call.step \in {"delete", "revoke", "inspect"} => call.seen = recorded
      /\ call.step \in Creating \cup {"mark", "unpend", "revoke", "inspect"} => status = "earned"
      /\ call.step # "idle" /\ c = "sync" => status = "earned"
      /\ call.step = "fire" => earning \/ status = "earned"
      /\ call.step # "idle" /\ c = "purchase" => ~pending
      /\ Unmet /\ call.step = "rule" => call.group \in members
      /\ Unmet /\ call.step = "record" => rules[call.rule] \in members

\* What holds between calls, and of the list until the reward is earned.
Between ==
  /\ AllIdle => /\ Live \subseteq {recorded.rule}
                /\ status # "earned" => recorded = NoIds
                /\ NoAdmin /\ pending => recorded = NoIds
  /\ status \notin Done => ~pending

\* Recorded ids are honoured until the objects are taken away.
Honoured ==
  Unmet /\ recorded # NoIds /\ (\A c \in Callers : calls[c].step # "clear")
    => rules[recorded.rule] \in members

OrderInv == Alone /\ (\A c \in Callers : Fits(c)) /\ Between /\ Honoured

\* A call that begins begins alone.
LEMMA BeginsQuiet ==
  ASSUME StageInv, Serial, Between, NEW c \in Callers, MayBegin(c)
  PROVE  /\ \A d \in Callers : calls[d].step = "idle"
         /\ ~earning /\ c \in regime.callers
         /\ Live \subseteq {recorded.rule} /\ (recorded = NoIds => Live = {})
         /\ status # "earned" => recorded = NoIds
         /\ NoAdmin /\ pending => recorded = NoIds
<1>1. /\ \A d \in Callers : calls[d].step = "idle"
      /\ ~earning /\ c \in regime.callers
  BY DEF MayBegin, Serial, Quiet, AllIdle
<1>2. Live \subseteq {recorded.rule}
  BY <1>1 DEF Between, AllIdle
<1>3. recorded = NoIds => Live = {}
  BY <1>2 DEF Live, NoIds
<1> QED
  BY <1>1, <1>2, <1>3 DEF Between, AllIdle

\* The others stay idle while one caller takes its step.
LEMMA OthersIdle ==
  ASSUME Alone, NEW c \in Callers, calls[c].step # "idle"
  PROVE  \A d \in Callers : d # c => calls[d].step = "idle"
BY DEF Alone

LEMMA OthersRest ==
  ASSUME NEW c \in Callers,
         \A d \in Callers : d # c => calls[d].step = "idle" /\ calls'[d] = calls[d]
  PROVE  /\ Alone'
         /\ Fits(c)' => \A d \in Callers : Fits(d)'
         /\ AllIdle' <=> calls'[c].step = "idle"
<1>1. \A d \in Callers : d # c => Fits(d)'
  BY DEF Fits, Creating
<1> QED
  BY <1>1 DEF Alone, AllIdle

\* The steps of a creation.
LEMMA CreateFits ==
  ASSUME StageInv, OrderInv, Orderly, regime' = regime, TypeInv',
         NEW c \in Callers, CreateSteps(c)
  PROVE  OrderInv'
<1>0. /\ TypeInv /\ CallsOK /\ StepsTaken /\ Fits(c) /\ Between /\ Honoured
      /\ rules \in [Rules -> Groups \cup {None}] /\ alive \subseteq Groups
      /\ "db_fails" \notin regime.hazards /\ "delete_fails" \notin regime.hazards
  BY DEF StageInv, TypeInv, TypeOK, CallsOK, OrderInv, Orderly, Reliable
<1>1. /\ calls[c].step \in Creating
      /\ \A d \in Callers : d # c => calls'[d] = calls[d]
  BY <1>0, CreateMoves
<1>2. \A d \in Callers : d # c => calls[d].step = "idle"
  BY <1>1, OthersIdle DEF OrderInv, Creating
<1>3. /\ Alone'
      /\ Fits(c)' => \A d \in Callers : Fits(d)'
      /\ AllIdle' <=> calls'[c].step = "idle"
  BY <1>1, <1>2, OthersRest
<1>4. recorded = NoIds /\ status = "earned" /\ (c = "purchase" => ~pending)
      /\ c \in {"purchase", "retry", "flush", "sync", "check"} /\ c \in regime.callers
  BY <1>0, <1>1 DEF Fits, StepsTaken, Creating
<1> SUFFICES Fits(c)' /\ Between' /\ Honoured'
  BY <1>3 DEF OrderInv
\* Nothing is recorded: what is left to show.
<1>5. ASSUME UNCHANGED row, Live' = {}, calls'[c].step \in {"add", "rule", "mark", "idle"},
             calls'[c].step = "mark" => c = "purchase",
             Unmet /\ calls'[c].step = "rule" => calls'[c].group \in members'
      PROVE  Fits(c)' /\ Between' /\ Honoured'
  <2>1. recorded' = NoIds /\ status' = "earned" /\ pending' = pending
    BY <1>4, <1>5 DEF row
  <2>2. Fits(c)'
    BY <1>4, <1>5, <2>1 DEF Fits, Creating, Unmet
  <2>3. Between' /\ Honoured'
    BY <1>5, <2>1 DEF Between, Honoured, Done
  <2> QED
    BY <2>2, <2>3
<1>6. ASSUME Fail(c)
      PROVE  calls'[c].step \in {"mark", "idle"} /\ (calls'[c].step = "mark" => c = "purchase")
  BY <1>0, <1>6, FailMoves
<1>7. CASE CreateGroup(c)
  <2>1. UNCHANGED row /\ calls'[c].step = "add"
    BY <1>0, <1>7 DEF CreateGroup, CallsOK, Call
  <2>2. Live = {}
    BY <1>0, <1>7 DEF Fits, CreateGroup, At
  <2>3. Live' = {}
    <3>1. PICK g \in (IF keyed # None THEN {keyed} ELSE FreeGroups) :
            /\ alive' = IF keyed # None THEN alive ELSE alive \cup {g}
            /\ rules' = IF keyed # None THEN rules
                        ELSE [r \in Rules |-> IF rules[r] = g THEN None ELSE rules[r]]
      BY <1>7 DEF CreateGroup
    <3>2. CASE keyed # None
      BY <2>2, <3>1, <3>2 DEF Live
    <3>3. CASE keyed = None
      <4>1. g \in Groups
        BY <3>1, <3>3 DEF FreeGroups
      <4>2. \A r \in Rules : rules'[r] \notin alive'
        BY <1>0, <2>2, <3>1, <3>3, <4>1 DEF Live
      <4> QED
        BY <4>2 DEF Live
    <3> QED
      BY <3>2, <3>3
  <2> QED
    BY <1>5, <2>1, <2>3
<1>8. CASE CreateGroupFails(c)
  <2>1. UNCHANGED <<row, square>> /\ Live = {}
    BY <1>0, <1>8 DEF CreateGroupFails, Fits, At
  <2>2. Live' = {}
    BY <2>1 DEF Live, square
  <2> QED
    BY <1>5, <1>6, <1>8, <2>1, <2>2 DEF CreateGroupFails
<1>9. CASE AddCustomer(c)
  <2>1. UNCHANGED row /\ Live = {}
    BY <1>0, <1>9 DEF AddCustomer, Fits, At
  <2>2. Live' = {}
    BY <1>9, <2>1 DEF AddCustomer, Live
  <2>3. calls'[c].step = "rule" /\ calls'[c].group \in members'
    BY <1>0, <1>9, Moves DEF AddCustomer, StepNames
  <2> QED
    BY <1>5, <2>1, <2>2, <2>3
\* A failed attempt is undone whole.
<1>10. ASSUME UNCHANGED row, calls'[c].step = "undo", \A r \in Live' : rules'[r] = calls'[c].group
       PROVE  Fits(c)' /\ Between' /\ Honoured'
  <2>1. recorded' = NoIds /\ status' = "earned" /\ pending' = pending
    BY <1>4, <1>10 DEF row
  <2>2. Fits(c)'
    BY <1>4, <1>10, <2>1 DEF Fits, Creating
  <2>3. Between' /\ Honoured'
    BY <1>3, <1>10, <2>1 DEF Between, Honoured, Done
  <2> QED
    BY <2>2, <2>3
<1>11. CASE AddCustomerFails(c)
  <2>1. UNCHANGED <<row, square>> /\ Live = {}
    BY <1>0, <1>11 DEF AddCustomerFails, Fits, At
  <2>2. Live' = {} /\ calls'[c].step = "undo"
    BY <1>0, <1>11, <2>1, Moves DEF AddCustomerFails, StepNames, Live, square
  <2> QED
    BY <1>10, <2>1, <2>2
<1>12. CASE CreateRuleFails(c)
  <2>1. UNCHANGED row /\ Live = {}
    BY <1>0, <1>12 DEF CreateRuleFails, Fits, At
  <2>2. calls'[c].step = "undo" /\ calls'[c].group = calls[c].group
    BY <1>0, <1>12, Moves DEF CreateRuleFails, StepNames
  <2>3. \A r \in Live' : rules'[r] = calls[c].group
    BY <1>0, <1>12, <2>1 DEF CreateRuleFails, Live, FreeRules
  <2> QED
    BY <1>10, <2>1, <2>2, <2>3
<1>13. CASE Undo(c)
  <2>1. UNCHANGED <<row, rules>> /\ alive' = alive \ {calls[c].group}
    BY <1>0, <1>13 DEF Undo
  <2>2. \A r \in Live : rules[r] = calls[c].group
    BY <1>0, <1>13 DEF Undo, Fits, At
  <2>3. Live' = {}
    BY <2>1, <2>2 DEF Live
  <2> QED
    BY <1>5, <1>6, <1>13, <2>1, <2>3 DEF Undo
<1>14. CASE CreateRule(c)
  <2>1. UNCHANGED <<row, alive, members>> /\ Live = {} /\ (Unmet => calls[c].group \in members)
    BY <1>0, <1>14 DEF CreateRule, Fits, At
  <2>2. PICK r \in FreeRules :
          /\ rules' = [rules EXCEPT ![r] = calls[c].group]
          /\ calls' = [calls EXCEPT ![c].step = "record", ![c].rule = r]
    BY <1>14 DEF CreateRule
  <2>3. calls'[c].step = "record" /\ calls'[c].rule = r /\ r \in Rules
    BY <1>0, <2>2 DEF CallsOK, Call, FreeRules
  <2>4. Live' \subseteq {r} /\ rules'[r] = calls[c].group
    BY <1>0, <2>1, <2>2, <2>3 DEF Live
  <2>5. recorded' = NoIds /\ status' = "earned" /\ pending' = pending
    BY <1>4, <2>1 DEF row
  <2>6. Fits(c)'
    BY <1>4, <2>1, <2>3, <2>4, <2>5 DEF Fits, Creating, Unmet
  <2>7. Between' /\ Honoured'
    BY <1>3, <2>3, <2>5 DEF Between, Honoured, Done
  <2> QED
    BY <2>6, <2>7
<1>15. CASE Record(c)
  <2>1. UNCHANGED <<status, earning, pending, square>>
    BY <1>15 DEF Record
  <2>2. recorded' = [group |-> calls[c].group, rule |-> calls[c].rule]
    BY <1>0, <1>4, <1>15, Recorded DEF Visible
  <2>3. Live \subseteq {recorded'.rule} /\ (Unmet => rules[recorded'.rule] \in members)
    BY <1>0, <1>15, <2>2 DEF Record, At, Fits
  <2>4. Live' = Live /\ rules' = rules /\ members' = members
    BY <2>1 DEF Live, square
  <2>5. calls'[c].step = IF c \in Retriers THEN "unpend" ELSE "idle"
    BY <1>0, <1>15 DEF Record, Retriers, Goto, Finish, Resting, CallsOK, Call
  <2>6. Fits(c)'
    BY <1>4, <2>1, <2>3, <2>4, <2>5 DEF Fits, Creating, Retriers
  <2>7. Between'
    BY <1>3, <1>4, <2>1, <2>3, <2>4, <2>5 DEF Between, Done, Retriers, NoAdmin
  <2>8. Honoured'
    BY <2>3, <2>4 DEF Honoured, Unmet
  <2> QED
    BY <2>6, <2>7, <2>8
<1>16. CASE RecordFails(c)
  BY <1>0, <1>16 DEF RecordFails
<1> QED
  BY <1>7, <1>8, <1>9, <1>11, <1>12, <1>13, <1>14, <1>15, <1>16 DEF CreateSteps

\* The steps of a cleanup.
LEMMA CleanupFits ==
  ASSUME StageInv, OrderInv, Orderly, regime' = regime, TypeInv',
         NEW c \in Callers, CleanupSteps(c)
  PROVE  OrderInv'
<1>0. /\ TypeInv /\ CallsOK /\ StepsTaken /\ StatusSeen /\ Fits(c) /\ Between /\ Honoured
      /\ rules \in [Rules -> Groups \cup {None}] /\ alive \subseteq Groups
      /\ recorded \in Ids \cup {NoIds} /\ "delete_fails" \notin regime.hazards
  BY DEF StageInv, TypeInv, TypeOK, CallsOK, OrderInv, Orderly, Reliable
<1>1. /\ calls[c].step \in Cleaning
      /\ \A d \in Callers : d # c => calls'[d] = calls[d]
      /\ status' = status /\ earning' = earning /\ pending' = pending
  BY <1>0 DEF CleanupSteps, CleanupRead, CleanupDelete, CleanupClear, At, Cleaning, Goto, CallsOK, row
<1>2. \A d \in Callers : d # c => calls[d].step = "idle"
  BY <1>1, OthersIdle DEF OrderInv, Cleaning
<1>3. /\ Alone'
      /\ Fits(c)' => \A d \in Callers : Fits(d)'
      /\ AllIdle' <=> calls'[c].step = "idle"
  BY <1>1, <1>2, OthersRest
<1>4. /\ c \in {"sync", "redeem", "expire"} /\ c \in regime.callers
      /\ c = "sync" => status = "earned"
      /\ c # "sync" => status \in {"redeemed", "revoked"}
      /\ status \notin Done => ~pending
  BY <1>0, <1>1 DEF Fits, Between, StepsTaken, StatusSeen, Cleaning
<1> SUFFICES Fits(c)' /\ Between' /\ Honoured'
  BY <1>3 DEF OrderInv
<1>5. CASE CleanupRead(c)
  <2>1. UNCHANGED <<recorded, square>> /\ Live \subseteq {recorded.rule}
    BY <1>0, <1>5 DEF CleanupRead, Fits, At, row
  <2>2. Live' = Live /\ rules' = rules /\ members' = members
    BY <2>1 DEF Live, square
  <2>3. calls'[c].step = "delete" /\ calls'[c].seen = recorded
    BY <1>0, <1>5 DEF CleanupRead, CallsOK, Call
  <2>4. Fits(c)'
    BY <1>1, <1>4, <2>1, <2>2, <2>3 DEF Fits, Creating
  <2>5. Between'
    BY <1>1, <1>3, <1>4, <2>3 DEF Between
  <2>6. Honoured'
    BY <1>0, <1>1, <1>2, <1>5, <2>1, <2>2 DEF Honoured, Unmet, CleanupRead, At
  <2> QED
    BY <2>4, <2>5, <2>6
<1>6. CASE CleanupDelete(c)
  <2>1. Live \subseteq {recorded.rule} /\ calls[c].seen = recorded /\ recorded' = recorded
    BY <1>0, <1>6 DEF CleanupDelete, Fits, At, row
  <2>2. /\ alive' = alive \ {recorded.group}
        /\ rules' = IF recorded # NoIds THEN [rules EXCEPT ![recorded.rule] = None] ELSE rules
    BY <1>0, <1>6, <2>1 DEF CleanupDelete
  <2>3. Live' = {}
    BY <1>0, <2>1, <2>2 DEF Live, Ids, NoIds
  <2>4. calls'[c].step = "clear"
    BY <1>0, <1>6, Moves DEF CleanupDelete, StepNames
  <2>5. Fits(c)'
    BY <1>1, <1>4, <2>3, <2>4 DEF Fits, Creating
  <2>6. Between' /\ Honoured'
    BY <1>1, <1>3, <1>4, <2>4 DEF Between, Honoured
  <2> QED
    BY <2>5, <2>6
<1>7. CASE CleanupClear(c)
  <2>1. recorded' = NoIds /\ UNCHANGED square /\ Live = {}
    BY <1>0, <1>7 DEF CleanupClear, Fits, At
  <2>2. Live' = {}
    BY <2>1 DEF Live, square
  <2>3. calls'[c].step = IF c = "sync" THEN "group" ELSE "idle"
    BY <1>0, <1>7 DEF CleanupClear, CallsOK, Resting
  <2>4. Fits(c)'
    BY <1>1, <1>4, <2>1, <2>2, <2>3 DEF Fits, Creating
  <2>5. Between' /\ Honoured'
    BY <1>1, <1>4, <2>1, <2>2 DEF Between, Honoured
  <2> QED
    BY <2>4, <2>5
<1> QED
  BY <1>5, <1>6, <1>7 DEF CleanupSteps

\* A call begins, with the objects and the row's ids as they were.
LEMMA BeginFits ==
  ASSUME StageInv, OrderInv, Orderly, regime' = regime, NEW c \in Callers, MayBegin(c),
         \A d \in Callers : d # c => calls'[d] = calls[d],
         UNCHANGED <<recorded, pending, square>>, status' \in Done \/ status' = status,
         \/ /\ c = "purchase" /\ calls'[c].step = "fire"
            /\ earning' /\ status \notin Done
         \/ /\ c \in Retriers /\ calls'[c].step = "group"
            /\ status = "earned" /\ status' = status /\ pending
         \/ /\ c = "sync" /\ calls'[c].step = (IF recorded = NoIds THEN "group" ELSE "read")
            /\ status = "earned" /\ status' = status
         \/ /\ calls'[c].step \in {"inspect", "revoke"} /\ calls'[c].seen = recorded
            /\ c \notin {"purchase", "sync"} /\ status = "earned" /\ status' = status
         \/ /\ c = "redeem" /\ calls'[c].step = "read" /\ status = "earned"
  PROVE  OrderInv'
<1>1. /\ \A d \in Callers : calls[d].step = "idle"
      /\ ~earning /\ c \in regime.callers
      /\ Live \subseteq {recorded.rule} /\ (recorded = NoIds => Live = {})
      /\ status # "earned" => recorded = NoIds
      /\ NoAdmin /\ pending => recorded = NoIds
  BY BeginsQuiet DEF Orderly, OrderInv
<1>2. /\ Alone'
      /\ Fits(c)' => \A d \in Callers : Fits(d)'
      /\ AllIdle' <=> calls'[c].step = "idle"
  BY <1>1, OthersRest
<1>3. recorded' = recorded /\ pending' = pending /\ rules' = rules /\ members' = members /\ Live' = Live
  BY DEF square, Live
<1>4. c \in Retriers => NoAdmin
  BY <1>1 DEF Orderly, OneCreator, NoAdmin, Retriers
<1>5. status \notin Done => ~pending
  BY DEF OrderInv, Between
<1>6. Fits(c)'
  BY <1>1, <1>3, <1>4, <1>5 DEF Fits, Creating, Retriers, Done
<1>7. Between'
  BY <1>2, <1>3, <1>5 DEF Between, Done
<1>8. Honoured'
  BY <1>1, <1>3 DEF OrderInv, Honoured, Unmet
<1> QED
  BY <1>2, <1>6, <1>7, <1>8 DEF OrderInv

\* Every other step.
LEMMA OrderStep ==
  ASSUME StageInv, OrderInv, Orderly, [Next]_vars
  PROVE  OrderInv'
<1>0. /\ TypeInv /\ CallsOK /\ StepsTaken /\ StatusSeen /\ FiredAfter /\ Between /\ Honoured /\ Alone
      /\ Committed /\ TypeInv' /\ regime' = regime /\ Serial
      /\ "db_fails" \notin regime.hazards /\ "crash" \notin regime.hazards
      /\ Callers = {"purchase", "retry", "flush", "sync", "check", "redeem", "expire"}
  BY StepType, RegimeKept
  DEF StageInv, TypeInv, TypeOK, CallsOK, OrderInv, Orderly, Reliable, Callers
<1>1. CASE BeginEarning
  <2>1. /\ calls'["purchase"].step = "fire"
        /\ \A d \in Callers : d # "purchase" => calls'[d] = calls[d]
    BY <1>0, <1>1 DEF BeginEarning, Goto, CallsOK, Call
  <2> QED
    BY <1>0, <1>1, <2>1, BeginFits DEF BeginEarning, Done
<1>2. CASE \E c \in Callers : RetrySelect(c)
  <2>1. PICK c \in Callers : RetrySelect(c)
    BY <1>2
  <2>2. /\ calls'[c].step = "group"
        /\ \A d \in Callers : d # c => calls'[d] = calls[d]
    BY <1>0, <2>1 DEF RetrySelect, Goto, CallsOK, Call
  <2> QED
    BY <1>0, <2>1, <2>2, BeginFits DEF RetrySelect, Retriers, row
<1>3. CASE SyncSelect
  <2>1. /\ calls'["sync"].step = IF recorded = NoIds THEN "group" ELSE "read"
        /\ \A d \in Callers : d # "sync" => calls'[d] = calls[d]
    BY <1>0, <1>3 DEF SyncSelect, Goto, CallsOK, Call
  <2> QED
    BY <1>0, <1>3, <2>1, BeginFits DEF SyncSelect, row
<1>4. CASE CheckSelect
  <2>1. /\ calls'["check"].step = "inspect" /\ calls'["check"].seen = recorded
        /\ \A d \in Callers : d # "check" => calls'[d] = calls[d]
    BY <1>0, <1>4 DEF CheckSelect, CallsOK, Call
  <2> QED
    BY <1>0, <1>4, <2>1, BeginFits DEF CheckSelect, row
<1>5. CASE ExpireSelect
  <2>1. /\ calls'["expire"].step = "revoke" /\ calls'["expire"].seen = recorded
        /\ \A d \in Callers : d # "expire" => calls'[d] = calls[d]
    BY <1>0, <1>5 DEF ExpireSelect, CallsOK, Call
  <2> QED
    BY <1>0, <1>5, <2>1, BeginFits DEF ExpireSelect, row
<1>6. CASE Redeem
  <2>1. /\ calls'["redeem"].step = "read"
        /\ \A d \in Callers : d # "redeem" => calls'[d] = calls[d]
    BY <1>0, <1>6 DEF Redeem, Goto, CallsOK, Call
  <2> QED
    BY <1>0, <1>6, <2>1, BeginFits DEF Redeem, Done
\* From here on one caller is under way, and the others rest.
<1>7. ASSUME NEW c \in Callers, calls[c].step # "idle",
             \A d \in Callers : d # c => calls'[d] = calls[d],
             Fits(c) => Fits(c)' /\ Between' /\ Honoured'
      PROVE  OrderInv'
  <2>1. \A d \in Callers : d # c => calls[d].step = "idle"
    BY <1>0, <1>7, OthersIdle
  <2>2. Alone' /\ (Fits(c)' => \A d \in Callers : Fits(d)')
    BY <1>7, <2>1, OthersRest
  <2> QED
    BY <1>7, <2>2 DEF OrderInv
<1>8. CASE Fire
  <2> DEFINE c == "purchase"
  <2>1. calls[c].step = "fire" /\ UNCHANGED <<row, square>> /\ ~earning
    BY <1>0, <1>8 DEF Fire, At, Committed
  <2>2. calls'[c].step = "group" /\ \A d \in Callers : d # c => calls'[d] = calls[d]
    BY <1>0, <1>8 DEF Fire, Goto, CallsOK, Call
  <2>3. Live' = Live /\ recorded' = recorded /\ status' = status /\ pending' = pending
    BY <2>1 DEF Live, square, row
  <2>4. ASSUME Fits(c) PROVE Fits(c)' /\ Between' /\ Honoured'
    BY <1>0, <2>1, <2>2, <2>3, <2>4 DEF Fits, Between, Honoured, AllIdle, Creating
  <2> QED
    BY <1>0, <1>7, <2>1, <2>2, <2>4
<1>9. CASE CommitEarning
  <2> DEFINE c == "purchase"
  <2>1. calls[c].step = "fire" /\ calls' = calls /\ status' = "earned" /\ UNCHANGED square
        /\ recorded' = recorded /\ pending' = pending
    BY <1>0, <1>9 DEF CommitEarning, FiredAfter
  <2>2. Live' = Live
    BY <2>1 DEF Live, square
  <2>3. ASSUME Fits(c) PROVE Fits(c)' /\ Between' /\ Honoured'
    BY <1>0, <2>1, <2>2, <2>3 DEF Fits, Between, Honoured, AllIdle, Creating, Done
  <2> QED
    BY <1>0, <1>7, <2>1, <2>3
<1>10. CASE RollbackEarning
  <2> DEFINE c == "purchase"
  <2>1. calls[c].step = "fire" /\ Finish(c) /\ UNCHANGED square
        /\ recorded' = recorded /\ pending' = pending /\ status \in {"none", "in_progress"}
        /\ status' \in {"rolled_back", "none", "in_progress"}
    BY <1>0, <1>10 DEF RollbackEarning, FiredAfter, StatusSeen, At
  <2>2. calls'[c].step = "idle" /\ \A d \in Callers : d # c => calls'[d] = calls[d]
    BY <1>0, <2>1, Ends DEF Resting
  <2>3. Live' = Live
    BY <2>1 DEF Live, square
  <2>4. ASSUME Fits(c) PROVE Fits(c)' /\ Between' /\ Honoured'
    BY <1>0, <2>1, <2>2, <2>3, <2>4 DEF Fits, Between, Honoured, AllIdle, Creating, Done
  <2> QED
    BY <1>0, <1>7, <2>1, <2>2, <2>4
<1>11. CASE MarkPending
  <2> DEFINE c == "purchase"
  <2>1. calls[c].step = "mark" /\ Finish(c) /\ UNCHANGED square
        /\ recorded' = recorded /\ status' = status
    BY <1>11 DEF MarkPending, At
  <2>2. calls'[c].step = "idle" /\ \A d \in Callers : d # c => calls'[d] = calls[d]
    BY <1>0, <2>1, Ends DEF Resting
  <2>3. Live' = Live
    BY <2>1 DEF Live, square
  <2>4. ASSUME Fits(c) PROVE Fits(c)' /\ Between' /\ Honoured'
    BY <1>0, <2>1, <2>2, <2>3, <2>4 DEF Fits, Between, Honoured, AllIdle, Creating, Done
  <2> QED
    BY <1>0, <1>7, <2>1, <2>2, <2>4
<1>12. CASE \E c \in Callers : ClearPending(c)
  <2>1. PICK c \in Callers : ClearPending(c)
    BY <1>12
  <2>2. calls[c].step = "unpend" /\ Finish(c) /\ UNCHANGED square
        /\ recorded' = recorded /\ status' = status /\ ~pending'
    BY <2>1 DEF ClearPending, At
  <2>3. calls'[c].step = "idle" /\ \A d \in Callers : d # c => calls'[d] = calls[d]
    BY <1>0, <2>2, Ends DEF Resting
  <2>4. Live' = Live /\ rules' = rules /\ members' = members
    BY <2>2 DEF Live, square
  <2>5. \A d \in Callers : d # c => calls[d].step = "idle"
    BY <1>0, <2>2, OthersIdle
  <2>6. ASSUME Fits(c) PROVE Fits(c)' /\ Between' /\ Honoured'
    <3>1. Fits(c)' /\ Between'
      BY <1>0, <2>2, <2>3, <2>4, <2>6 DEF Fits, Between, AllIdle, Creating
    <3>2. Honoured'
      BY <1>0, <2>2, <2>4, <2>5 DEF Honoured, Unmet
    <3> QED
      BY <3>1, <3>2
  <2> QED
    BY <1>7, <2>2, <2>3, <2>6
<1>13. CASE Revoke
  <2> DEFINE c == "expire"
  <2>1. calls[c].step = "revoke" /\ UNCHANGED square
        /\ recorded' = recorded /\ pending' = pending /\ status' = "revoked"
    BY <1>13 DEF Revoke, At
  <2>2. /\ calls'[c].step = IF calls[c].seen = NoIds THEN "idle" ELSE "read"
        /\ \A d \in Callers : d # c => calls'[d] = calls[d]
    BY <1>0, <1>13 DEF Revoke, Goto, Finish, Resting, CallsOK, Call
  <2>3. Live' = Live /\ rules' = rules /\ members' = members
    BY <2>1 DEF Live, square
  <2>4. \A d \in Callers : d # c => calls[d].step = "idle"
    BY <1>0, <2>1, OthersIdle
  <2>5. ASSUME Fits(c) PROVE Fits(c)' /\ Between' /\ Honoured'
    <3>1. Fits(c)' /\ Between'
      BY <1>0, <2>1, <2>2, <2>3, <2>5 DEF Fits, Between, AllIdle, Creating, Done
    <3>2. Honoured'
      BY <1>0, <2>1, <2>3, <2>4 DEF Honoured, Unmet
    <3> QED
      BY <3>1, <3>2
  <2> QED
    BY <1>0, <1>7, <2>1, <2>2, <2>5
<1>14. CASE \E c \in Callers : CreateSteps(c)
  BY <1>0, <1>14, CreateFits
<1>15. CASE \E c \in Callers : CleanupSteps(c)
  BY <1>0, <1>15, CleanupFits
<1>16. CASE Inspect
  <2> DEFINE c == "check"
             ids == calls[c].seen
  <2>1. calls[c].step = "inspect" /\ status' = status /\ pending' = pending
        /\ alive' = alive /\ rules' = rules /\ Live' = Live
    BY <1>16 DEF Inspect, At, Live
  <2>2. Fits(c) /\ ~NoAdmin /\ ~NoAdmin' /\ status \in Done
    BY <1>0, <2>1 DEF OrderInv, StepsTaken, StatusSeen, NoAdmin
  <2>3. \A d \in Callers : d # c => calls'[d] = calls[d] /\ calls[d].step = "idle"
    BY <1>0, <1>16, <2>1, OthersIdle DEF Inspect, Goto, Finish, CallsOK
  <2>4. ids = recorded /\ Live \subseteq {recorded.rule} /\ status = "earned"
    BY <2>1, <2>2 DEF Fits
  <2>5. \/ calls'[c].step = "group" /\ recorded' = NoIds /\ Live = {}
        \/ calls'[c].step = "idle" /\ recorded' = recorded /\ members \subseteq members'
    <3>1. CASE ids = NoIds /\ Goto(c, "group") /\ recorded' = recorded
      <4>1. Live = {}
        BY <2>4, <3>1 DEF Live, NoIds
      <4>2. calls'[c].step = "group"
        BY <1>0, <3>1 DEF Goto, CallsOK, Call
      <4> QED
        BY <2>4, <3>1, <4>1, <4>2
    <3>2. CASE /\ ids # NoIds /\ rules[ids.rule] = None /\ recorded' = NoIds
               /\ calls' = [calls EXCEPT ![c] = [Resting EXCEPT !.step = "group"]]
      <4>1. Live = {}
        BY <1>0, <2>4, <3>2 DEF Live, TypeInv, TypeOK
      <4>2. calls'[c].step = "group"
        BY <1>0, <3>2 DEF CallsOK, Resting
      <4> QED
        BY <3>2, <4>1, <4>2
    <3>3. CASE Finish(c) /\ recorded' = recorded /\ members \subseteq members'
      BY <1>0, <3>3, Ends DEF Resting
    <3> QED
      BY <1>16, <3>1, <3>2, <3>3 DEF Inspect
  <2>6. Fits(c)'
    BY <2>1, <2>4, <2>5 DEF Fits, Creating
  <2>7. Between'
    BY <2>1, <2>2, <2>4, <2>5 DEF Between, AllIdle
  <2>8. Honoured'
    BY <1>0, <2>1, <2>3, <2>5 DEF Honoured, Unmet
  <2> QED
    BY <1>0, <1>7, <2>1, <2>3, <2>6, <2>7, <2>8
<1>17. CASE KeyForgotten \/ UNCHANGED vars
  <2>1. UNCHANGED <<row, calls, alive, members, rules>>
    BY <1>17 DEF KeyForgotten, vars, square
  <2>2. \A c \in Callers : Fits(c)'
    BY <1>0, <2>1 DEF OrderInv, Fits, Live, Unmet, row
  <2> QED
    BY <1>0, <2>1, <2>2 DEF OrderInv, Alone, Between, Honoured, AllIdle, Live, Unmet, row, NoAdmin
<1>18. CASE MerchantDeletes
  <2>1. UNCHANGED <<row, calls>> /\ ~Unmet /\ ~Unmet'
    BY <1>0, <1>18 DEF MerchantDeletes, Unmet
  <2>2. Live' \subseteq Live /\ \A r \in Live' : rules'[r] = rules[r]
    <3>0. rules \in [Rules -> Groups \cup {None}] /\ alive \subseteq Groups
      BY <1>0 DEF TypeInv, TypeOK
    <3>1. ASSUME NEW r \in Rules, rules' = [rules EXCEPT ![r] = None], alive' = alive
          PROVE  Live' \subseteq Live /\ \A q \in Live' : rules'[q] = rules[q]
      BY <3>0, <3>1 DEF Live
    <3>2. ASSUME rules' = rules, alive' \subseteq alive
          PROVE  Live' \subseteq Live /\ \A q \in Live' : rules'[q] = rules[q]
      BY <3>2 DEF Live
    <3> QED
      BY <1>18, <3>1, <3>2 DEF MerchantDeletes
  <2>3. \A c \in Callers : Fits(c)'
    BY <1>0, <2>1, <2>2 DEF OrderInv, Fits, row
  <2> QED
    BY <1>0, <2>1, <2>2, <2>3 DEF OrderInv, Alone, Between, Honoured, AllIdle, row, NoAdmin
<1>19. CASE Crash
  BY <1>0, <1>19 DEF Crash
<1> QED
  BY <1>1, <1>2, <1>3, <1>4, <1>5, <1>6, <1>8, <1>9, <1>10, <1>11, <1>12, <1>13, <1>14, <1>15,
     <1>16, <1>17, <1>18, <1>19
  DEF Next, Step

LEMMA OrderInit ==
  ASSUME Init
  PROVE  OrderInv
<1>1. \A c \in Callers : calls[c].step = "idle"
  BY DEF Init, Resting
<1>2. recorded = NoIds /\ Live = {} /\ ~pending
  BY DEF Init, Live
<1> QED
  BY <1>1, <1>2 DEF OrderInv, Alone, Fits, Between, Honoured, Creating

\* What the invariant says between calls.
LEMMA OrderGives ==
  ASSUME StageInv, Orderly => OrderInv
  PROVE  NoOrphan /\ NothingFree /\ Delivered
<1> SUFFICES ASSUME Orderly, Quiet
             PROVE  /\ Offers \subseteq {recorded.rule}
                    /\ status # "earned" => Offers = {}
                    /\ "merchant" \notin regime.hazards /\ recorded # NoIds
                         => recorded.rule \in Offers
  BY DEF NoOrphan, NothingFree, Delivered
<1>1. members \subseteq alive /\ recorded \in Ids \cup {NoIds}
  BY DEF StageInv, TypeInv, TypeOK
<1>2. Offers \subseteq {recorded.rule}
  BY <1>1 DEF OrderInv, Between, Quiet, Offers, Live
<1>3. status # "earned" => Offers = {}
  BY <1>2 DEF OrderInv, Between, Quiet, Offers, NoIds
<1>4. "merchant" \notin regime.hazards /\ recorded # NoIds => recorded.rule \in Offers
  BY <1>1 DEF OrderInv, Honoured, Unmet, Quiet, AllIdle, Offers, Ids
<1> QED
  BY <1>2, <1>3, <1>4

\* One call at a time keeps the objects, the row and the list in order.
LEMMA OrderAlways == Spec => []StageInv /\ [](Orderly => OrderInv)
<1>1. Init => StageInv /\ (Orderly => OrderInv)
  BY StageInit, OrderInit
<1>2. StageInv /\ (Orderly => OrderInv) /\ [Next]_vars => StageInv' /\ (Orderly => OrderInv)'
  BY StageStep, OrderStep, RegimeKept
  DEF Orderly, Serial, Committed, Reliable, OneCreator, NoAdmin
<1> QED
  BY <1>1, <1>2, PTL DEF Spec

\* Between calls the till gives away only what the row records.
THEOREM NothingOrphaned == Spec => []NoOrphan
<1>1. StageInv /\ (Orderly => OrderInv) => NoOrphan
  BY OrderGives
<1> QED
  BY <1>1, OrderAlways, PTL

\* Between calls nothing is given away for a reward that is not earned.
THEOREM NothingForFree == Spec => []NothingFree
<1>1. StageInv /\ (Orderly => OrderInv) => NothingFree
  BY OrderGives
<1> QED
  BY <1>1, OrderAlways, PTL

\* Between calls an earned reward with recorded ids is honoured at the till.
THEOREM RecordedIsDelivered == Spec => []Delivered
<1>1. StageInv /\ (Orderly => OrderInv) => Delivered
  BY OrderGives
<1> QED
  BY <1>1, OrderAlways, PTL
=============================================================================
