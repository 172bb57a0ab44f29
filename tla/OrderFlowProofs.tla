---------------------------- MODULE OrderFlowProofs ----------------------------
(* Proofs about OrderFlow, for any handlers, rewards, orders and faults. *)
EXTENDS OrderFlow, FiniteSetTheorems, TLAPS

-----------------------------------------------------------------------------
(* What the steps of a handler do to its local variables *)

LEMMA FreshJobs == Fresh \in Job /\ Ended \in Job
BY DEF Fresh, Ended, Job, Steps

LEMMA GotoType ==
  ASSUME job \in [Handlers -> Job], NEW h \in Handlers, NEW step \in Steps, Goto(h, step)
  PROVE  job' \in [Handlers -> Job]
<1>1. [job[h] EXCEPT !.step = step] \in Job
  BY DEF Job
<1> QED
  BY <1>1, FreshJobs DEF Goto

LEMMA FetchType ==
  ASSUME job \in [Handlers -> Job], attached \in BOOLEAN,
         NEW h \in Handlers, NEW known \in BOOLEAN, NEW step \in Steps, Fetch(h, known, step)
  PROVE  job' \in [Handlers -> Job]
<1>1. [step |-> step, copy |-> attached, known |-> known, todo |-> {}] \in Job
  BY DEF Job
<1> QED
  BY <1>1 DEF Fetch

LEMMA TodoType ==
  ASSUME job \in [Handlers -> Job], NEW h \in Handlers, NEW step \in Steps,
         NEW left \in SUBSET Rewards,
         job' = [job EXCEPT ![h].todo = left, ![h].step = step]
  PROVE  job' \in [Handlers -> Job]
BY DEF Job

LEMMA ContinueType ==
  ASSUME job \in [Handlers -> Job], NEW h \in Handlers, NEW left \in SUBSET Rewards,
         Continue(h, left)
  PROVE  job' \in [Handlers -> Job]
BY TodoType DEF Continue, Steps

\* What is left to redeem are rewards the handler had to redeem.
LEMMA LeftType ==
  ASSUME job \in [Handlers -> Job], NEW h \in Handlers, NEW r
  PROVE  Remaining(h, r) \in SUBSET Rewards /\ AfterThrow(h, r) \in SUBSET Rewards
BY DEF Remaining, AfterThrow, Job

-----------------------------------------------------------------------------
(* Types *)

LEMMA TypeInit == Init => TypeOK
<1> SUFFICES ASSUME Init PROVE TypeOK
  OBVIOUS
<1>1. order \in OrderType /\ kind \in [Handlers -> Kinds]
  BY OrderAssumption, MixAssumption DEF Init
<1>2. job \in [Handlers -> Job]
  BY FreshJobs DEF Init
<1>3. faults \in 0..MaxFaults
  BY FaultAssumption DEF Init
<1> QED
  BY <1>1, <1>2, <1>3 DEF Init, TypeOK

LEMMA TypeBegin ==
  ASSUME TypeOK, NEW h \in Handlers, Begin(h) \/ CatchupJob(h)
  PROVE  TypeOK'
<1> USE DEF TypeOK, NothingElse, input, intake, redeemed, errors
<1>1. job' \in [Handlers -> Job]
  <2>1. CASE OrderWebhook(h)
    BY <2>1, FetchType DEF OrderWebhook, Steps
  <2>2. CASE PaymentWebhook(h)
    BY <2>2, FetchType, GotoType DEF PaymentWebhook, Steps
  <2>3. CASE LoyaltyEvent(h)
    BY <2>3, FetchType, GotoType DEF LoyaltyEvent, Steps
  <2>4. CASE RedeemEvent(h)
    BY <2>4, FetchType DEF RedeemEvent, Steps
  <2>5. CASE Audit(h)
    <3>1. [step |-> "lookup", copy |-> TRUE, known |-> TRUE, todo |-> {}] \in Job
      BY DEF Job, Steps
    <3> QED
      BY <2>5, <3>1 DEF Audit
  <2>6. CASE CatchupJob(h)
    BY <2>6, FetchType DEF CatchupJob, Steps
  <2> QED
    BY <2>1, <2>2, <2>3, <2>4, <2>5, <2>6 DEF Begin
<1>2. NothingElse
  BY DEF Begin, OrderWebhook, PaymentWebhook, LoyaltyEvent, RedeemEvent, Audit, CatchupJob
<1> QED
  BY <1>1, <1>2

LEMMA TypeStep ==
  ASSUME TypeOK, NEW h \in Handlers, Step(h)
  PROVE  TypeOK'
<1> USE DEF TypeOK, NothingElse, input, intake, redeemed, errors
<1>1. CASE Identify(h)
  <2>1. PICK found \in BOOLEAN :
          job' = [job EXCEPT ![h].step = "check", ![h].known = found]
    BY <1>1 DEF Identify
  <2>2. [job[h] EXCEPT !.step = "check", !.known = found] \in Job
    BY DEF Job, Steps
  <2>3. job' = [job EXCEPT ![h] = [job[h] EXCEPT !.step = "check", !.known = found]]
    BY <2>1 DEF Job
  <2> QED
    BY <1>1, <2>2, <2>3 DEF Identify
<1>2. CASE Check(h)
  BY <1>2, GotoType DEF Check, AfterDuplicate, Steps
<1>3. CASE Claim(h)
  BY <1>3, GotoType DEF Claim, AfterDuplicate, Steps
<1>4. CASE Commit(h)
  <2>1. job' \in [Handlers -> Job]
    BY <1>4, GotoType DEF Commit, AfterIntake, Steps
  <2>2. claim' \in Verdicts /\ events' \in SUBSET {"paid", "reward"}
    BY <1>4 DEF Commit, Record, Counted, Verdicts
  <2>3. faults' \in 0..MaxFaults /\ aborted' \in BOOLEAN /\ blind' \in BOOLEAN
    <3>1. \/ faults' = faults /\ aborted' = aborted /\ blind' = blind
          \/ MayFail /\ Fail /\ aborted' = aborted /\ blind' = TRUE
      BY <1>4 DEF Commit
    <3>2. faults' \in 0..MaxFaults
      BY <3>1, FaultAssumption DEF MayFail, Fail
    <3> QED
      BY <3>1, <3>2
  <2> QED
    BY <1>4, <2>1, <2>2, <2>3 DEF Commit
<1>5. CASE LookUp(h)
  <2>1. Matched \in SUBSET Rewards
    BY DEF Matched, Discounts, OrderType
  <2>2. job' \in [Handlers -> Job]
    BY <1>5, <2>1, TodoType, GotoType DEF LookUp, Job, Steps
  <2> QED
    BY <1>5, <2>2 DEF LookUp
<1>6. CASE FreeItem(h)
  <2>2. job' \in [Handlers -> Job]
    BY <1>6, GotoType DEF FreeItem, Job, Steps
  <2> QED
    BY <1>6, <2>2 DEF FreeItem
<1>7. CASE Redeem(h)
  <2>1. PICK r \in job[h].todo :
          IF Redeemable(r)
          THEN /\ status' = [status EXCEPT ![r] = "redeemed"]
               /\ rows' = [rows EXCEPT ![r] = @ + 1]
               /\ Continue(h, Remaining(h, r))
               /\ UNCHANGED aborted
          ELSE /\ Continue(h, AfterThrow(h, r))
               /\ aborted' = (aborted \/ AfterThrow(h, r) # Remaining(h, r))
               /\ UNCHANGED redeemed
    BY <1>7 DEF Redeem
  <2>2. r \in Rewards
    BY <2>1 DEF Job
  <2>3. job' \in [Handlers -> Job]
    BY <2>1, LeftType, ContinueType
  <2>4. status' \in [Rewards -> {"earned", "redeemed", "gone"}] /\ rows' \in [Rewards -> Nat]
    BY <2>1, <2>2
  <2>5. aborted' \in BOOLEAN
    BY <2>1
  <2> QED
    BY <1>7, <2>3, <2>4, <2>5 DEF Redeem
<1>8. CASE Finish(h)
  BY <1>8, GotoType DEF Finish, Remembered, Steps
<1> QED
  BY <1>1, <1>2, <1>3, <1>4, <1>5, <1>6, <1>7, <1>8 DEF Step

LEMMA TypeFails ==
  ASSUME TypeOK, NEW h \in Handlers, Fails(h)
  PROVE  TypeOK'
<1> USE FaultAssumption DEF TypeOK, input, intake, redeemed, errors, MayFail, Fail
<1>1. ASSUME NEW s \in {"start", "done"} PROVE [Fresh EXCEPT !.step = s] \in Job
  BY DEF Fresh, Job, Steps
<1>2. CASE Rollback(h)
  BY <1>1, <1>2 DEF Rollback, AfterError
<1>3. CASE RedeemFails(h)
  <2>1. job' \in [Handlers -> Job]
    BY <1>3, LeftType, ContinueType DEF RedeemFails
  <2> QED
    BY <1>3, <2>1 DEF RedeemFails
<1>4. CASE ReturnsFail(h)
  BY <1>1, <1>4 DEF ReturnsFail
<1>5. CASE LookUpFails(h)
  BY <1>5, GotoType DEF LookUpFails, Steps
<1> QED
  BY <1>2, <1>3, <1>4, <1>5 DEF Fails

LEMMA TypeNext == TypeOK /\ [Next]_vars => TypeOK'
<1> SUFFICES ASSUME TypeOK, [Next]_vars PROVE TypeOK'
  OBVIOUS
<1> USE DEF input, intake, redeemed, errors
<1>1. ASSUME NEW h \in Handlers, Begin(h) \/ CatchupJob(h) \/ Step(h) \/ Fails(h)
      PROVE  TypeOK'
  BY <1>1, TypeBegin, TypeStep, TypeFails
<1>2. CASE Restart
  <2>1. job' \in [Handlers -> Job]
    BY <1>2, FreshJobs DEF Restart, TypeOK
  <2>2. faults' \in 0..MaxFaults /\ aborted' \in BOOLEAN
    BY <1>2, FaultAssumption DEF Restart, TypeOK, MayFail, Fail
  <2> QED
    BY <1>2, <2>1, <2>2 DEF Restart, TypeOK
<1>3. CASE CacheExpires
  BY <1>3 DEF CacheExpires, errors, TypeOK
<1>4. CASE Attach
  BY <1>4 DEF Attach, errors, TypeOK
<1>5. ASSUME NEW r \in Rewards, Elsewhere(r) PROVE TypeOK'
  BY <1>5 DEF Elsewhere, errors, TypeOK
<1>6. CASE UNCHANGED vars
  BY <1>6 DEF vars, errors, TypeOK
<1> QED
  BY <1>1, <1>2, <1>3, <1>4, <1>5, <1>6 DEF Next

\* Every variable keeps its type: no handler leaves the values the code declares.
THEOREM TypeCorrect == Spec => []TypeOK
BY TypeInit, TypeNext, PTL DEF Spec

-----------------------------------------------------------------------------
(* One verdict *)

\* While nobody has committed there are no events, and at most one transaction
\* has inserted the order.
IntakeInv ==
  /\ claim = "none" => events = {}
  /\ \A h \in Handlers : At(h, "intx") => claim = "none" /\ holder = h

\* Other handlers keep their step, and only Claim enters the transaction.
LEMMA IntakeMoves ==
  ASSUME TypeOK, NEW h \in Handlers, Begin(h) \/ CatchupJob(h) \/ Step(h) \/ Fails(h)
  PROVE  /\ \A g \in Handlers : g # h => job'[g] = job[g]
         /\ job'[h].step = "intx" => Claim(h) /\ ~Taken
<1> USE DEF TypeOK, Goto, Fetch, Continue, Ended, Fresh, Job
<1>1. CASE Begin(h)
  BY <1>1 DEF Begin, OrderWebhook, PaymentWebhook, LoyaltyEvent, RedeemEvent, Audit
<1>2. CASE CatchupJob(h)
  BY <1>2 DEF CatchupJob
<1>3. CASE Step(h)
  <2>1. CASE Identify(h)
    BY <2>1 DEF Identify
  <2>2. CASE Check(h)
    BY <2>2 DEF Check, AfterDuplicate
  <2>3. CASE Claim(h)
    BY <2>3 DEF Claim, AfterDuplicate
  <2>4. CASE Commit(h)
    BY <2>4 DEF Commit, AfterIntake
  <2>5. CASE LookUp(h)
    BY <2>5 DEF LookUp
  <2>6. CASE FreeItem(h)
    BY <2>6 DEF FreeItem
  <2>7. CASE Redeem(h)
    BY <2>7 DEF Redeem
  <2>8. CASE Finish(h)
    BY <2>8 DEF Finish
  <2> QED
    BY <1>3, <2>1, <2>2, <2>3, <2>4, <2>5, <2>6, <2>7, <2>8 DEF Step
<1>4. CASE Fails(h)
  <2>1. CASE Rollback(h)
    BY <2>1 DEF Rollback, AfterError
  <2>2. CASE RedeemFails(h)
    BY <2>2 DEF RedeemFails
  <2>3. CASE ReturnsFail(h)
    BY <2>3 DEF ReturnsFail
  <2>4. CASE LookUpFails(h)
    BY <2>4 DEF LookUpFails
  <2> QED
    BY <1>4, <2>1, <2>2, <2>3, <2>4 DEF Fails
<1> QED
  BY <1>1, <1>2, <1>3, <1>4

\* Only Claim, Commit, Rollback and a restart touch the intake's tables and lock.
LEMMA IntakeKept ==
  ASSUME NEW h \in Handlers, Begin(h) \/ CatchupJob(h) \/ Step(h) \/ Fails(h),
         ~Claim(h), ~Commit(h), ~Rollback(h)
  PROVE  UNCHANGED <<claim, events, holder>>
BY DEF Begin, OrderWebhook, PaymentWebhook, LoyaltyEvent, RedeemEvent, Audit, CatchupJob,
       Step, Identify, Check, LookUp, FreeItem, Redeem, Finish,
       Fails, LookUpFails, RedeemFails, ReturnsFail, NothingElse, intake

\* A commit is the abstract decision.
LEMMA CommitDecides ==
  ASSUME TypeOK, IntakeInv, NEW h \in Handlers, Commit(h)
  PROVE  Credit!Decide
<1>1. claim = "none" /\ events = {}
  BY DEF Commit, IntakeInv
<1>2. claim' \in Verdicts /\ events' \in SUBSET {"paid", "reward"}
  BY <1>1 DEF Commit, Record, Counted, Verdicts
<1>3. events' # {} <=> claim' = "qualifying"
  BY <1>1 DEF Commit, Record
<1> QED
  BY <1>1, <1>2, <1>3 DEF Credit!Decide, Credit!Verdicts, Credit!Lines, Verdicts

\* Every step of the handlers is the abstract decision or leaves it alone.
LEMMA DecideOrKeep ==
  ASSUME TypeOK, IntakeInv, [Next]_vars
  PROVE  Credit!Decide \/ UNCHANGED <<claim, events>>
<1> USE DEF intake
<1>1. ASSUME NEW h \in Handlers, Begin(h) \/ CatchupJob(h) \/ Step(h) \/ Fails(h)
      PROVE  Credit!Decide \/ UNCHANGED <<claim, events>>
  BY <1>1, CommitDecides, IntakeKept DEF Claim, Rollback
<1>2. Restart \/ CacheExpires \/ Attach \/ UNCHANGED vars => UNCHANGED <<claim, events>>
  BY DEF Restart, CacheExpires, Attach, vars
<1>3. ASSUME NEW r \in Rewards, Elsewhere(r) PROVE UNCHANGED <<claim, events>>
  BY <1>3 DEF Elsewhere
<1> QED
  BY <1>1, <1>2, <1>3 DEF Next

LEMMA IntakeNext == TypeOK /\ IntakeInv /\ [Next]_vars => IntakeInv'
<1> SUFFICES ASSUME TypeOK, IntakeInv, [Next]_vars PROVE IntakeInv'
  OBVIOUS
<1>1. claim' = "none" => events' = {} /\ claim = "none"
  BY DecideOrKeep DEF IntakeInv, Credit!Decide, Credit!Verdicts
<1>2. ASSUME NEW g \in Handlers, job'[g].step = "intx"
      PROVE  claim' = "none" /\ holder' = g
  <2>1. ASSUME NEW h \in Handlers, Begin(h) \/ CatchupJob(h) \/ Step(h) \/ Fails(h)
        PROVE  claim' = "none" /\ holder' = g
    <3>1. CASE g = h
      BY <1>2, <2>1, <3>1, IntakeMoves DEF Claim, Taken
    <3>2. CASE g # h
      <4>1. claim = "none" /\ holder = g
        BY <1>2, <2>1, <3>2, IntakeMoves DEF IntakeInv, At
      <4>2. ~At(h, "intx")
        BY <3>2, <4>1 DEF IntakeInv
      <4>3. ~Commit(h) /\ ~Claim(h)
        BY <4>1, <4>2, NobodyAssumption DEF Commit, Claim
      <4>4. Rollback(h) => claim' = claim /\ holder' = holder
        BY <3>2, <4>1 DEF Rollback
      <4> QED
        BY <2>1, <4>1, <4>3, <4>4, IntakeKept
    <3> QED
      BY <3>1, <3>2
  <2>2. CASE Restart
    BY <1>2, <2>2 DEF Restart, Begun, Fresh, Ended
  <2>3. CASE CacheExpires \/ Attach \/ UNCHANGED vars
    BY <1>2, <2>3 DEF CacheExpires, Attach, vars, intake, IntakeInv, At
  <2>4. ASSUME NEW r \in Rewards, Elsewhere(r) PROVE claim' = "none" /\ holder' = g
    BY <1>2, <2>4 DEF Elsewhere, intake, IntakeInv, At
  <2> QED
    BY <2>1, <2>2, <2>3, <2>4 DEF Next
<1> QED
  BY <1>1, <1>2 DEF IntakeInv, At

LEMMA IntakeInit == Init => IntakeInv
BY DEF Init, IntakeInv, At, Fresh

\* However many handlers take the order in, it is given one verdict for good, and
\* purchase events exactly with the verdict that it qualifies.
THEOREM OneVerdict == Spec => CreditedOnce
<1>1. Init => Credit!Init
  BY DEF Init, Credit!Init
<1>2. TypeOK /\ IntakeInv /\ [Next]_vars => [Credit!Decide]_<<claim, events>>
  BY DecideOrKeep
<1> QED
  BY <1>1, <1>2, TypeInit, TypeNext, IntakeInit, IntakeNext, PTL
  DEF Spec, CreditedOnce, Credit!Spec

-----------------------------------------------------------------------------
(* One redemption *)

LEMMA RowsKept ==
  ASSUME NEW h \in Handlers, Begin(h) \/ CatchupJob(h) \/ Step(h) \/ Fails(h), ~Redeem(h)
  PROVE  UNCHANGED redeemed
BY DEF Begin, OrderWebhook, PaymentWebhook, LoyaltyEvent, RedeemEvent, Audit, CatchupJob,
       Step, Identify, Check, Claim, Commit, LookUp, FreeItem, Finish,
       Fails, Rollback, LookUpFails, RedeemFails, ReturnsFail, NothingElse

\* What redeeming a reward comes to.
LEMMA RedeemCases ==
  ASSUME NEW h \in Handlers, Redeem(h)
  PROVE  \E r \in job[h].todo :
           /\ Continue(h, Remaining(h, r)) \/ Continue(h, AfterThrow(h, r))
           /\ \/ UNCHANGED redeemed
              \/ /\ status[r] = "earned"
                 /\ status' = [status EXCEPT ![r] = "redeemed"]
                 /\ rows' = [rows EXCEPT ![r] = @ + 1]
<1>1. PICK r \in job[h].todo :
        IF Redeemable(r)
        THEN /\ status' = [status EXCEPT ![r] = "redeemed"]
             /\ rows' = [rows EXCEPT ![r] = @ + 1]
             /\ Continue(h, Remaining(h, r))
             /\ UNCHANGED aborted
        ELSE /\ Continue(h, AfterThrow(h, r))
             /\ aborted' = (aborted \/ AfterThrow(h, r) # Remaining(h, r))
             /\ UNCHANGED redeemed
  BY DEF Redeem
<1> QED
  BY <1>1 DEF Redeemable

LEMMA RedeemedInit == Init => RedeemedOnce
BY DEF Init, RedeemedOnce

LEMMA RedeemedNext == TypeOK /\ RedeemedOnce /\ [Next]_vars => RedeemedOnce'
<1> SUFFICES ASSUME TypeOK, RedeemedOnce, [Next]_vars PROVE RedeemedOnce'
  OBVIOUS
<1>1. ASSUME NEW h \in Handlers, Begin(h) \/ CatchupJob(h) \/ Step(h) \/ Fails(h)
      PROVE  RedeemedOnce'
  <2>1. CASE Redeem(h)
    BY <2>1, RedeemCases DEF RedeemedOnce, TypeOK, redeemed
  <2> QED
    BY <1>1, <2>1, RowsKept DEF RedeemedOnce, redeemed
<1>2. CASE Restart \/ CacheExpires \/ Attach \/ UNCHANGED vars
  BY <1>2 DEF Restart, CacheExpires, Attach, vars, redeemed, RedeemedOnce
<1>3. ASSUME NEW r \in Rewards, Elsewhere(r) PROVE RedeemedOnce'
  BY <1>3 DEF Elsewhere, RedeemedOnce, TypeOK
<1> QED
  BY <1>1, <1>2, <1>3 DEF Next

\* A reward redeemed on the order has one redemption, however many handlers have
\* found it earned.
THEOREM OneRedemption == Spec => []RedeemedOnce
BY TypeInit, TypeNext, RedeemedInit, RedeemedNext, PTL DEF Spec

-----------------------------------------------------------------------------
(* No more rewards than units *)

Used == {r \in Rewards : rows[r] > 0}

\* The rewards whose discount is on the order, or one reward for a free line.
Within(S) == S \subseteq Discounts \/ (FreeLine /\ \E r \in Rewards : S \subseteq {r})

\* When only those look for redemptions who took the order in: nobody looks before
\* the order is taken in, one handler at most looks afterwards, and it has used
\* nothing before it chooses what to redeem.
GuardInv ==
  Unguarded = {} =>
  /\ claim = "none" => Used = {} /\ \A h \in Handlers : ~Looking(h)
  /\ \A g, h \in Handlers : Looking(g) /\ Looking(h) => g = h
  /\ \A h \in Handlers : job[h].step \in {"lookup", "free"} => Used = {}
  /\ \A h \in Handlers : At(h, "redeem") => Within(Used \cup job[h].todo)
  /\ Within(Used)

LEMMA WithinSubset ==
  ASSUME NEW S, NEW T, T \subseteq S, Within(S)
  PROVE  Within(T)
BY DEF Within

LEMMA InputKept ==
  ASSUME [Next]_vars
  PROVE  UNCHANGED input
BY DEF Next, Begin, OrderWebhook, PaymentWebhook, LoyaltyEvent, RedeemEvent, Audit, CatchupJob,
       Step, Identify, Check, Claim, Commit, LookUp, FreeItem, Redeem, Finish,
       Fails, Rollback, LookUpFails, RedeemFails, ReturnsFail, Restart, CacheExpires, Attach,
       Elsewhere, NothingElse, vars

\* Then a handler begins to look when it commits.
LEMMA LooksAfterCommit ==
  ASSUME TypeOK, Unguarded = {},
         NEW h \in Handlers, Begin(h) \/ CatchupJob(h) \/ Step(h) \/ Fails(h),
         ~Looking(h), ~Commit(h)
  PROVE  ~(Looking(h)')
<1> USE DEF TypeOK, Goto, Fetch, Ended, Fresh, Job, Looking, Unguarded, Is, At
<1>1. CASE Begin(h)
  BY <1>1 DEF Begin, OrderWebhook, PaymentWebhook, LoyaltyEvent, RedeemEvent, Audit
<1>2. CASE CatchupJob(h)
  BY <1>2 DEF CatchupJob
<1>3. CASE Step(h)
  <2>1. CASE Identify(h)
    BY <2>1 DEF Identify
  <2>2. CASE Check(h)
    BY <2>2 DEF Check, AfterDuplicate
  <2>3. CASE Claim(h)
    BY <2>3 DEF Claim, AfterDuplicate
  <2> QED
    BY <1>3, <2>1, <2>2, <2>3 DEF Step, LookUp, FreeItem, Redeem, Finish
<1>4. CASE Fails(h)
  BY <1>4 DEF Fails, Rollback, AfterError, LookUpFails, RedeemFails, ReturnsFail
<1> QED
  BY <1>1, <1>2, <1>3, <1>4

\* Nobody else's step and nothing else makes a handler look.
LEMMA OthersLook ==
  ASSUME TypeOK, [Next]_vars, Unguarded = {}, NEW g \in Handlers, Looking(g)', ~Looking(g)
  PROVE  Commit(g)
<1>1. ASSUME NEW h \in Handlers, Begin(h) \/ CatchupJob(h) \/ Step(h) \/ Fails(h)
      PROVE  Commit(g)
  <2>1. g = h
    BY <1>1, IntakeMoves DEF Looking
  <2> QED
    BY <1>1, <2>1, LooksAfterCommit
<1>2. ~(Restart \/ CacheExpires \/ Attach \/ UNCHANGED vars)
  BY DEF Restart, CacheExpires, Attach, vars, Looking, Begun, Fresh, Ended
<1>3. \A r \in Rewards : ~Elsewhere(r)
  BY DEF Elsewhere, Looking
<1> QED
  BY <1>1, <1>2, <1>3 DEF Next

LEMMA GuardInit == Init => GuardInv
<1> SUFFICES ASSUME Init PROVE GuardInv
  OBVIOUS
<1>1. Used = {}
  BY DEF Init, Used
<1>2. \A h \in Handlers : ~Looking(h) /\ job[h].step = "start"
  BY DEF Init, Looking, Fresh
<1> QED
  BY <1>1, <1>2 DEF GuardInv, Within, At

\* What GuardInv asks of the detections under way.
Detections ==
  /\ \A h \in Handlers : job[h].step \in {"lookup", "free"} => Used = {}
  /\ \A h \in Handlers : At(h, "redeem") => Within(Used \cup job[h].todo)
  /\ Within(Used)

LEMMA RedeemDetections ==
  ASSUME TypeOK, GuardInv, Unguarded = {}, UNCHANGED input, NEW h \in Handlers, Redeem(h)
  PROVE  Detections'
<1>1. PICK r \in job[h].todo :
        /\ Continue(h, Remaining(h, r)) \/ Continue(h, AfterThrow(h, r))
        /\ \/ UNCHANGED redeemed
           \/ /\ status[r] = "earned"
              /\ status' = [status EXCEPT ![r] = "redeemed"]
              /\ rows' = [rows EXCEPT ![r] = @ + 1]
  BY RedeemCases
<1>2. r \in Rewards /\ job[h].todo \in SUBSET Rewards
  BY <1>1 DEF TypeOK, Job
<1>3. Used' \subseteq Used \cup {r}
  BY <1>1, <1>2 DEF Used, TypeOK, redeemed
<1>4. /\ job'[h].todo \subseteq job[h].todo
      /\ job'[h].step \in {"redeem", "finish"}
      /\ \A g \in Handlers : g # h => job'[g] = job[g]
  BY <1>1 DEF Continue, Remaining, AfterThrow, TypeOK, Job
<1>5. Within(Used \cup job[h].todo)
  BY DEF GuardInv, Redeem
<1>6. Used' \cup job'[h].todo \subseteq Used \cup job[h].todo
  BY <1>1, <1>3, <1>4
<1>7. Within(Used' \cup job'[h].todo) /\ Within(Used')
  BY <1>5, <1>6, WithinSubset
<1>8. \A S : Within(S)' <=> Within(S')
  BY DEF Within, Discounts, FreeLine, input
<1>9. \A g \in Handlers : g # h => job'[g].step \notin {"lookup", "free", "redeem"}
  BY <1>4 DEF GuardInv, Looking, Redeem, At
<1> QED
  BY <1>4, <1>7, <1>9 DEF Detections, At, Within, Discounts, FreeLine, input

LEMMA ChoiceDetections ==
  ASSUME TypeOK, GuardInv, Unguarded = {}, UNCHANGED input,
         NEW h \in Handlers, LookUp(h) \/ FreeItem(h)
  PROVE  Detections'
<1>1. Used = {} /\ Used' = {}
  BY DEF GuardInv, LookUp, FreeItem, At, NothingElse, redeemed, Used
<1>2. \A g \in Handlers : g # h => job'[g] = job[g] /\ ~Looking(g)
  <2>1. Looking(h)
    BY DEF Looking, LookUp, FreeItem, At
  <2>2. \A g \in Handlers : g # h => job'[g] = job[g]
    BY IntakeMoves DEF Step
  <2> QED
    BY <2>1, <2>2 DEF GuardInv
<1>3. job'[h].step = "redeem" => Within(job'[h].todo)
  <2>1. CASE LookUp(h)
    BY <2>1 DEF LookUp, Goto, TypeOK, Job, Within, Matched, Ended, Fresh
  <2>2. CASE FreeItem(h)
    BY <2>2 DEF FreeItem, Fallback, Goto, TypeOK, Job, Within, Ended, Fresh
  <2> QED
    BY <2>1, <2>2
<1>4. Within({})
  BY DEF Within
<1> QED
  BY <1>1, <1>2, <1>3, <1>4 DEF Detections, At, Looking, Within, Discounts, FreeLine, input

LEMMA OtherDetections ==
  ASSUME TypeOK, IntakeInv, GuardInv, Unguarded = {}, UNCHANGED input, NEW h \in Handlers,
         Begin(h) \/ CatchupJob(h) \/ Step(h) \/ Fails(h),
         ~Redeem(h), ~LookUp(h), ~FreeItem(h)
  PROVE  Detections'
<1>1. Used' = Used
  BY RowsKept DEF redeemed, Used
<1>2. \A g \in Handlers : g # h => job'[g] = job[g]
  BY IntakeMoves
<1>3. CASE Commit(h)
  <2>1. Used = {} /\ \A g \in Handlers : ~Looking(g)
    BY <1>3 DEF Commit, IntakeInv, GuardInv
  <2>2. job'[h].step \in {"lookup", "done"}
    BY <1>3 DEF Commit, AfterIntake, Goto, TypeOK, Job, Ended, Fresh
  <2> QED
    BY <1>1, <1>2, <2>1, <2>2 DEF Detections, At, Looking, Within
<1>4. CASE ~Commit(h) /\ ~Looking(h)
  <2>1. job'[h].step \notin {"lookup", "free", "redeem"}
    BY <1>4, LooksAfterCommit DEF Looking
  <2> QED
    BY <1>1, <1>2, <2>1 DEF Detections, GuardInv, At, Within, Discounts, FreeLine, input
<1>5. CASE ~Commit(h) /\ Looking(h)
  <2>1. LookUpFails(h) \/ RedeemFails(h) \/ ReturnsFail(h) \/ Finish(h)
    BY <1>5 DEF Looking, At, Begin, OrderWebhook, PaymentWebhook, LoyaltyEvent, RedeemEvent, Audit,
            CatchupJob, Step, Identify, Check, Claim, Fails, Rollback
  <2>2. /\ job'[h].step \notin {"lookup", "free"}
        /\ job'[h].step = "redeem" => At(h, "redeem") /\ job'[h].todo \subseteq job[h].todo
    <3> USE DEF TypeOK, Job, Ended, Fresh, At
    <3>1. CASE RedeemFails(h)
      <4>1. PICK r \in job[h].todo : Continue(h, AfterThrow(h, r))
        BY <3>1 DEF RedeemFails
      <4>2. AfterThrow(h, r) \subseteq job[h].todo
        BY DEF AfterThrow, Remaining
      <4>3. job'[h].todo = AfterThrow(h, r) /\ job'[h].step \in {"redeem", "finish"}
        BY <4>1 DEF Continue
      <4> QED
        BY <3>1, <4>2, <4>3 DEF RedeemFails
    <3>2. CASE ReturnsFail(h)
      BY <3>2 DEF ReturnsFail
    <3>3. CASE Finish(h)
      BY <3>3 DEF Finish, Goto
    <3>4. CASE LookUpFails(h)
      BY <3>4 DEF LookUpFails, Goto
    <3> QED
      BY <2>1, <3>1, <3>2, <3>3, <3>4
  <2>3. job'[h].step = "redeem" => Within(Used \cup job'[h].todo)
    <3> SUFFICES ASSUME job'[h].step = "redeem" PROVE Within(Used \cup job'[h].todo)
      OBVIOUS
    <3>1. Within(Used \cup job[h].todo)
      BY <2>2 DEF GuardInv
    <3> QED
      BY <2>2, <3>1, WithinSubset
  <2> QED
    BY <1>1, <1>2, <2>2, <2>3 DEF Detections, GuardInv, At, Within, Discounts, FreeLine, input
<1> QED
  BY <1>3, <1>4, <1>5

LEMMA GuardNext == TypeOK /\ IntakeInv /\ GuardInv /\ [Next]_vars => GuardInv'
<1> SUFFICES ASSUME TypeOK, IntakeInv, GuardInv, [Next]_vars, Unguarded = {}
             PROVE  /\ claim' = "none" => Used' = {} /\ \A h \in Handlers : ~(Looking(h)')
                    /\ \A g, h \in Handlers : Looking(g)' /\ Looking(h)' => g = h
                    /\ Detections'
  BY InputKept DEF GuardInv, Detections, Unguarded, input
<1>0. UNCHANGED input
  BY InputKept
<1>1. Detections'
  <2>1. ASSUME NEW h \in Handlers, Begin(h) \/ CatchupJob(h) \/ Step(h) \/ Fails(h)
        PROVE  Detections'
    BY <1>0, <2>1, RedeemDetections, ChoiceDetections, OtherDetections
  <2>2. CASE Restart
    <3>1. Used' = Used
      BY <2>2 DEF Restart, redeemed, Used
    <3>2. \A h \in Handlers : job'[h].step \in {"start", "done"}
      BY <2>2 DEF Restart, Begun, Fresh, Ended
    <3> QED
      BY <1>0, <3>1, <3>2 DEF Detections, GuardInv, At, Within, Discounts, FreeLine, input
  <2>3. CASE CacheExpires \/ Attach \/ UNCHANGED vars
    <3>1. Used' = Used /\ job' = job
      BY <2>3 DEF CacheExpires, Attach, vars, redeemed, Used
    <3> QED
      BY <1>0, <3>1 DEF Detections, GuardInv, At, Within, Discounts, FreeLine, input
  <2>4. ASSUME NEW r \in Rewards, Elsewhere(r) PROVE Detections'
    <3>1. Used' = Used /\ job' = job
      BY <2>4 DEF Elsewhere, Used
    <3> QED
      BY <1>0, <3>1 DEF Detections, GuardInv, At, Within, Discounts, FreeLine, input
  <2> QED
    BY <2>1, <2>2, <2>3, <2>4 DEF Next
<1>2. ASSUME NEW g \in Handlers, Looking(g)', ~Looking(g)
      PROVE  At(g, "intx") /\ claim = "none" /\ claim' # "none" /\ holder = g
  BY <1>2, OthersLook DEF Commit, Record, IntakeInv
<1>3. ASSUME claim' = "none" PROVE claim = "none" /\ \A h \in Handlers : ~(Looking(h)')
  <2>1. claim = "none"
    BY <1>3, DecideOrKeep DEF Credit!Decide
  <2> QED
    BY <1>2, <1>3, <2>1 DEF GuardInv
<1>4. ASSUME claim' = "none" PROVE Used' = {}
  <2>1. Used = {} /\ \A h \in Handlers : ~Redeem(h)
    BY <1>3, <1>4 DEF GuardInv, Redeem, At, Looking
  <2>2. UNCHANGED rows
    <3>1. ASSUME NEW h \in Handlers, Begin(h) \/ CatchupJob(h) \/ Step(h) \/ Fails(h)
          PROVE  UNCHANGED rows
      BY <2>1, <3>1, RowsKept DEF redeemed
    <3>2. Restart \/ CacheExpires \/ Attach \/ UNCHANGED vars => UNCHANGED rows
      BY DEF Restart, CacheExpires, Attach, vars, redeemed
    <3>3. ASSUME NEW r \in Rewards, Elsewhere(r) PROVE UNCHANGED rows
      BY <3>3 DEF Elsewhere
    <3> QED
      BY <3>1, <3>2, <3>3 DEF Next
  <2> QED
    BY <2>1, <2>2 DEF Used
<1>5. ASSUME NEW g \in Handlers, NEW h \in Handlers, Looking(g)', Looking(h)' PROVE g = h
  BY <1>2, <1>5 DEF GuardInv
<1> QED
  BY <1>1, <1>3, <1>4, <1>5

\* The rewards used are no more than the units given away.
LEMMA UnitsEnough ==
  ASSUME TypeOK, Within(Used)
  PROVE  OneFreeUnit
<1> DEFINE D == order.full \cup order.part
<1>1. IsFiniteSet(Rewards)
  BY NumAssumption, FS_Interval DEF Rewards
<1>2. /\ IsFiniteSet(order.full) /\ IsFiniteSet(order.part)
      /\ Cardinality(order.full) \in Nat /\ Cardinality(order.part) \in Nat
  BY <1>1, FS_Subset, FS_CardinalityType DEF TypeOK, OrderType
<1>3. /\ IsFiniteSet(D)
      /\ Cardinality(D) <= Cardinality(order.full) + Cardinality(order.part)
  <2>1. /\ IsFiniteSet(D)
        /\ Cardinality(D) = Cardinality(order.full) + Cardinality(order.part)
                            - Cardinality(order.full \cap order.part)
    BY <1>2, FS_Union
  <2>2. Cardinality(order.full \cap order.part) \in Nat
    BY <1>2, FS_Subset, FS_CardinalityType
  <2> QED
    BY <1>2, <2>1, <2>2
<1>4. CASE Used \subseteq Discounts
  <2>1. /\ Cardinality(Used) <= Cardinality(D)
        /\ Cardinality(Used) \in Nat /\ Cardinality(D) \in Nat
    BY <1>3, <1>4, FS_Subset, FS_CardinalityType DEF Discounts
  <2> QED
    BY <1>2, <1>3, <2>1 DEF OneFreeUnit, Units, Used
<1>5. CASE FreeLine /\ \E r \in Rewards : Used \subseteq {r}
  <2>1. PICK r \in Rewards : Used \subseteq {r}
    BY <1>5
  <2>2. Cardinality(Used) <= 1 /\ Cardinality(Used) \in Nat
    <3>1. IsFiniteSet({r}) /\ Cardinality({r}) = 1
      BY FS_Singleton
    <3>2. IsFiniteSet(Used) /\ Cardinality(Used) <= Cardinality({r})
      BY <2>1, <3>1, FS_Subset
    <3> QED
      BY <3>1, <3>2, FS_CardinalityType
  <2>3. order.full # {} => Cardinality(order.full) # 0
    BY <1>2, FS_EmptySet
  <2> QED
    BY <1>2, <1>5, <2>2, <2>3 DEF OneFreeUnit, Units, Used, FreeLine
<1> QED
  BY <1>4, <1>5 DEF Within

\* While only those look for redemptions who took the order in, an order uses up no
\* more rewards than it gives units away, whoever else handles it and whatever fails.
THEOREM UnitsGuarded == Spec => []GuardedUnits
<1>1. TypeOK /\ GuardInv => GuardedUnits
  BY UnitsEnough DEF GuardInv, GuardedUnits
<1> QED
  BY <1>1, TypeInit, TypeNext, IntakeInit, IntakeNext, GuardInit, GuardNext, PTL DEF Spec

\* A reward that is gone stays so.
LEMMA GoneStays ==
  ASSUME TypeOK, [Next]_vars, NEW r \in Rewards, status[r] = "gone"
  PROVE  status'[r] = "gone"
<1>1. ASSUME NEW h \in Handlers, Begin(h) \/ CatchupJob(h) \/ Step(h) \/ Fails(h)
      PROVE  status'[r] = "gone"
  BY <1>1, RowsKept, RedeemCases DEF redeemed, TypeOK
<1>2. Restart \/ CacheExpires \/ Attach \/ UNCHANGED vars => UNCHANGED status
  BY DEF Restart, CacheExpires, Attach, vars, redeemed
<1>3. ASSUME NEW s \in Rewards, Elsewhere(s) PROVE status'[r] = "gone"
  BY <1>3 DEF Elsewhere, TypeOK
<1> QED
  BY <1>1, <1>2, <1>3 DEF Next

\* The events change when they are first written.
LEMMA EventsWritten ==
  ASSUME TypeOK, [Next]_vars, events' # events
  PROVE  \E h \in Handlers : Commit(h)
<1>1. ASSUME NEW h \in Handlers, Begin(h) \/ CatchupJob(h) \/ Step(h) \/ Fails(h)
      PROVE  Commit(h)
  BY <1>1, IntakeKept DEF Claim, Rollback
<1>2. ~(Restart \/ CacheExpires \/ Attach \/ UNCHANGED vars)
  BY DEF Restart, CacheExpires, Attach, vars, intake
<1>3. \A r \in Rewards : ~Elsewhere(r)
  BY DEF Elsewhere, intake
<1> QED
  BY <1>1, <1>2, <1>3 DEF Next

\* An intake that could not read the rewards stays so.
LEMMA BlindStays ==
  ASSUME TypeOK, [Next]_vars
  PROVE  blind => blind'
<1> USE DEF errors, NothingElse
<1>1. ASSUME NEW h \in Handlers, Begin(h) \/ CatchupJob(h) \/ Fails(h) PROVE UNCHANGED blind
  BY <1>1 DEF Begin, OrderWebhook, PaymentWebhook, LoyaltyEvent, RedeemEvent, Audit, CatchupJob,
              Fails, Rollback, LookUpFails, RedeemFails, ReturnsFail
<1>2. ASSUME NEW h \in Handlers, Step(h), ~Commit(h) PROVE UNCHANGED blind
  BY <1>2 DEF Step, Identify, Check, Claim, LookUp, FreeItem, Redeem, Finish
<1>3. ASSUME NEW h \in Handlers, Commit(h) PROVE UNCHANGED blind \/ blind' = TRUE
  BY <1>3 DEF Commit
<1>4. Restart \/ CacheExpires \/ Attach \/ UNCHANGED vars => UNCHANGED blind
  BY DEF Restart, CacheExpires, Attach, vars
<1>5. ASSUME NEW r \in Rewards, Elsewhere(r) PROVE UNCHANGED blind
  BY <1>5 DEF Elsewhere
<1> QED
  BY <1>1, <1>2, <1>3, <1>4, <1>5 DEF Next

LEMMA UncountedNext ==
  TypeOK /\ IntakeInv /\ GuardInv /\ RedeemedOnce /\ RewardUncounted /\ [Next]_vars
    => RewardUncounted'
<1> SUFFICES ASSUME TypeOK, IntakeInv, GuardInv, RedeemedOnce, RewardUncounted, [Next]_vars,
                    Unguarded = {}, ~blind', "reward" \in events'
             PROVE  \E r \in order.part : status'[r] = "gone" \/ r \in order.byRule
  BY InputKept DEF RewardUncounted, Unguarded, input
<1>0. ~blind
  BY BlindStays
<1>1. order.part \subseteq Rewards
  BY DEF TypeOK, OrderType
<1>2. CASE "reward" \in events
  BY <1>0, <1>1, <1>2, GoneStays DEF RewardUncounted
<1>3. CASE "reward" \notin events
  <2>1. PICK h \in Handlers : Commit(h)
    BY <1>3, EventsWritten
  <2>2. claim = "none" /\ Used = {}
    BY <2>1 DEF Commit, IntakeInv, GuardInv
  <2>3. PICK r \in order.part : status[r] # "earned" \/ r \in order.byRule
    BY <1>3, <2>1 DEF Commit, Record, Counted, Ours, TypeOK
  <2>4. rows[r] = 0
    BY <1>1, <2>2, <2>3 DEF Used, TypeOK
  <2>5. status[r] = "gone" \/ r \in order.byRule
    BY <1>1, <2>3, <2>4 DEF RedeemedOnce, TypeOK
  <2> QED
    BY <1>1, <2>3, <2>5, GoneStays
<1> QED
  BY <1>2, <1>3

\* Then a line that a reward paid for is counted towards the next reward only when
\* the reward was used elsewhere or taken back before the order was taken in, or
\* when the order refers to it by its pricing rule, which the line filter overlooks.
THEOREM RewardLinesUncounted == Spec => []RewardUncounted
<1>1. Init => RewardUncounted
  BY DEF Init, RewardUncounted
<1> QED
  BY <1>1, UncountedNext, TypeInit, TypeNext, IntakeInit, IntakeNext, GuardInit, GuardNext,
     RedeemedInit, RedeemedNext, PTL DEF Spec

-----------------------------------------------------------------------------
(* What the payment webhook may rely on *)

\* While a detection is under way, it still has every reward that matches in hand;
\* one that has nothing left to do leaves none behind.
SkipInv ==
  /\ SkipIsSafe
  /\ \A h \in Handlers :
       /\ job[h].step \in {"free", "finish"} => aborted \/ Matched = {}
       /\ At(h, "redeem") => aborted \/ Matched \subseteq job[h].todo

\* A reward that is no longer earned does not become earned again, and a detection
\* that was ended by an error stays so.
LEMMA MatchedShrinks ==
  ASSUME TypeOK, [Next]_vars
  PROVE  Matched' \subseteq Matched /\ (aborted => aborted')
<1> USE DEF errors, NothingElse, redeemed
<1>0. order' = order /\ Discounts \subseteq Rewards
  BY InputKept DEF input, TypeOK, OrderType, Discounts
<1>1. \A r \in Rewards : status'[r] = "earned" => status[r] = "earned"
  <2>1. ASSUME NEW h \in Handlers, Begin(h) \/ CatchupJob(h) \/ Step(h) \/ Fails(h)
        PROVE  \A r \in Rewards : status'[r] = "earned" => status[r] = "earned"
    BY <2>1, RowsKept, RedeemCases DEF TypeOK
  <2>2. Restart \/ CacheExpires \/ Attach \/ UNCHANGED vars => UNCHANGED status
    BY DEF Restart, CacheExpires, Attach, vars
  <2>3. ASSUME NEW s \in Rewards, Elsewhere(s)
        PROVE  \A r \in Rewards : status'[r] = "earned" => status[r] = "earned"
    BY <2>3 DEF Elsewhere, TypeOK
  <2> QED
    BY <2>1, <2>2, <2>3 DEF Next
<1>2. aborted => aborted'
  <2>1. ASSUME NEW h \in Handlers, Begin(h) \/ CatchupJob(h) \/ Fails(h) PROVE aborted => aborted'
    BY <2>1 DEF Begin, OrderWebhook, PaymentWebhook, LoyaltyEvent, RedeemEvent, Audit, CatchupJob,
                Fails, Rollback, LookUpFails, RedeemFails, ReturnsFail
  <2>2. ASSUME NEW h \in Handlers, Step(h) PROVE aborted => aborted'
    BY <2>2 DEF Step, Identify, Check, Claim, Commit, LookUp, FreeItem, Redeem, Finish
  <2>3. Restart \/ CacheExpires \/ Attach \/ UNCHANGED vars => (aborted => aborted')
    BY DEF Restart, CacheExpires, Attach, vars
  <2>4. ASSUME NEW s \in Rewards, Elsewhere(s) PROVE UNCHANGED aborted
    BY <2>4 DEF Elsewhere
  <2> QED
    BY <2>1, <2>2, <2>3, <2>4 DEF Next
<1> QED
  BY <1>0, <1>1, <1>2 DEF Matched, Discounts

\* What SkipInv asks of one handler.
InHand(h) ==
  /\ job[h].step \in {"free", "finish"} => aborted \/ Matched = {}
  /\ At(h, "redeem") => aborted \/ Matched \subseteq job[h].todo

LEMMA RedeemInHand ==
  ASSUME TypeOK, SkipInv, NEW h \in Handlers, Redeem(h)
  PROVE  InHand(h)'
<1>1. PICK r \in job[h].todo :
        IF Redeemable(r)
        THEN /\ status' = [status EXCEPT ![r] = "redeemed"]
             /\ rows' = [rows EXCEPT ![r] = @ + 1]
             /\ Continue(h, Remaining(h, r))
             /\ UNCHANGED aborted
        ELSE /\ Continue(h, AfterThrow(h, r))
             /\ aborted' = (aborted \/ AfterThrow(h, r) # Remaining(h, r))
             /\ UNCHANGED redeemed
  BY DEF Redeem
<1>2. aborted \/ Matched \subseteq job[h].todo
  BY DEF Redeem, SkipInv
<1>3. order' = order /\ Discounts \subseteq Rewards /\ r \in Rewards
  BY <1>1 DEF Redeem, input, TypeOK, OrderType, Discounts, Job
<1>4. PICK left : Continue(h, left) /\ (aborted' \/ (left = Remaining(h, r) /\ aborted' = aborted))
  BY <1>1 DEF TypeOK
<1>5. /\ job'[h].todo = left
      /\ job'[h].step = IF left = {} THEN "finish" ELSE "redeem"
  BY <1>4 DEF Continue, TypeOK, Job
<1>6. Matched' \subseteq Matched \ {r}
  <2>1. CASE Redeemable(r)
    BY <1>1, <1>3, <2>1 DEF Matched, Discounts, TypeOK
  <2>2. CASE ~Redeemable(r)
    BY <1>1, <1>3, <2>2 DEF Matched, Discounts, Redeemable, redeemed
  <2> QED
    BY <2>1, <2>2
<1>7. aborted' \/ Matched' \subseteq left
  BY <1>2, <1>4, <1>6 DEF Remaining
<1> QED
  BY <1>5, <1>7 DEF InHand, At

LEMMA StepInHand ==
  ASSUME TypeOK, SkipInv, [Next]_vars,
         NEW h \in Handlers, Begin(h) \/ CatchupJob(h) \/ Step(h) \/ Fails(h)
  PROVE  InHand(h)'
<1> USE DEF TypeOK, Goto, Fetch, Ended, Fresh, Job, InHand, At
<1>1. CASE Begin(h)
  BY <1>1 DEF Begin, OrderWebhook, PaymentWebhook, LoyaltyEvent, RedeemEvent, Audit
<1>2. CASE CatchupJob(h)
  BY <1>2 DEF CatchupJob
<1>3. CASE Step(h)
  <2>1. CASE Identify(h)
    BY <2>1 DEF Identify
  <2>2. CASE Check(h)
    BY <2>2 DEF Check, AfterDuplicate
  <2>3. CASE Claim(h)
    BY <2>3 DEF Claim, AfterDuplicate
  <2>4. CASE Commit(h)
    BY <2>4 DEF Commit, AfterIntake
  <2>5. CASE LookUp(h)
    <3>1. Matched' = Matched
      BY <2>5 DEF LookUp, NothingElse, input, redeemed, Matched, Discounts
    <3> QED
      BY <2>5, <3>1 DEF LookUp
  <2>6. CASE FreeItem(h)
    <3>1. Matched' = Matched /\ aborted' = aborted
      BY <2>6 DEF FreeItem, NothingElse, input, redeemed, errors, Matched, Discounts
    <3>2. aborted \/ Matched = {}
      BY <2>6 DEF FreeItem, SkipInv
    <3> QED
      BY <2>6, <3>1, <3>2 DEF FreeItem
  <2>7. CASE Redeem(h)
    BY <2>7, RedeemInHand
  <2>8. CASE Finish(h)
    BY <2>8 DEF Finish
  <2> QED
    BY <1>3, <2>1, <2>2, <2>3, <2>4, <2>5, <2>6, <2>7, <2>8 DEF Step
<1>4. CASE Fails(h)
  <2>1. CASE Rollback(h)
    BY <2>1 DEF Rollback, AfterError
  <2>2. CASE RedeemFails(h) \/ LookUpFails(h)
    BY <2>2 DEF RedeemFails, LookUpFails
  <2>3. CASE ReturnsFail(h)
    BY <2>3 DEF ReturnsFail
  <2> QED
    BY <1>4, <2>1, <2>2, <2>3 DEF Fails
<1> QED
  BY <1>1, <1>2, <1>3, <1>4

\* The cache is written by Finish, when the detection has nothing left.
LEMMA CacheWritten ==
  ASSUME TypeOK, SkipInv, [Next]_vars, cache' = "awarded"
  PROVE  aborted \/ Matched = {}
<1> USE DEF NothingElse
<1>1. CASE cache = "awarded"
  BY <1>1 DEF SkipInv, SkipIsSafe
<1>2. CASE cache # "awarded"
  <2>1. ASSUME NEW h \in Handlers, Begin(h) \/ CatchupJob(h) \/ Step(h) \/ Fails(h)
        PROVE  aborted \/ Matched = {}
    <3>1. Finish(h)
      BY <1>2, <2>1 DEF Begin, OrderWebhook, PaymentWebhook, LoyaltyEvent, RedeemEvent, Audit,
             CatchupJob, Step, Identify, Check, Claim, Commit, LookUp, FreeItem, Redeem,
             Fails, Rollback, LookUpFails, RedeemFails, ReturnsFail
    <3> QED
      BY <3>1 DEF Finish, SkipInv, At
  <2>2. ~(Restart \/ CacheExpires \/ Attach \/ UNCHANGED vars)
    BY <1>2 DEF Restart, CacheExpires, Attach, vars
  <2>3. \A r \in Rewards : ~Elsewhere(r)
    BY <1>2 DEF Elsewhere
  <2> QED
    BY <2>1, <2>2, <2>3 DEF Next
<1> QED
  BY <1>1, <1>2

LEMMA SkipNext == TypeOK /\ SkipInv /\ [Next]_vars => SkipInv'
<1> SUFFICES ASSUME TypeOK, SkipInv, [Next]_vars PROVE SkipInv'
  OBVIOUS
<1>1. SkipIsSafe'
  BY CacheWritten, MatchedShrinks DEF SkipIsSafe
<1>2. ASSUME NEW g \in Handlers, job'[g] = job[g] PROVE InHand(g)'
  BY <1>2, MatchedShrinks DEF InHand, At, SkipInv
<1>3. ASSUME NEW g \in Handlers PROVE InHand(g)'
  <2>1. ASSUME NEW h \in Handlers, Begin(h) \/ CatchupJob(h) \/ Step(h) \/ Fails(h)
        PROVE  InHand(g)'
    <3>1. CASE g = h
      BY <2>1, <3>1, StepInHand
    <3>2. CASE g # h
      BY <1>2, <2>1, <3>2, IntakeMoves
    <3> QED
      BY <3>1, <3>2
  <2>2. CASE Restart
    <3>1. job'[g].step \in {"start", "done"}
      BY <2>2 DEF Restart, Begun, Fresh, Ended
    <3> QED
      BY <3>1 DEF InHand, At
  <2>3. CASE CacheExpires \/ Attach \/ UNCHANGED vars
    BY <1>2, <2>3 DEF CacheExpires, Attach, vars
  <2>4. ASSUME NEW r \in Rewards, Elsewhere(r) PROVE InHand(g)'
    BY <1>2, <2>4 DEF Elsewhere
  <2> QED
    BY <2>1, <2>2, <2>3, <2>4 DEF Next
<1> QED
  BY <1>1, <1>3 DEF SkipInv, InHand, At

\* The payment webhook skips an order remembered as awarded only when no reward whose
\* discount is on it is left to be redeemed, unless a detection ended early.
THEOREM NothingLeftBehind == Spec => []SkipIsSafe
<1>1. Init => SkipInv
  BY DEF Init, SkipInv, SkipIsSafe, At, Fresh
<1>2. SkipInv => SkipIsSafe
  BY DEF SkipInv
<1> QED
  BY <1>1, <1>2, SkipNext, TypeInit, TypeNext, PTL DEF Spec

-----------------------------------------------------------------------------
(* What is true once the handlers are at rest *)

\* From the moment an order is taken in by a handler that looks for redemptions,
\* somebody looks until nothing is left to be redeemed.
Followed == ~aborted /\ Matched # {} => \E h \in Handlers : Looking(h)
FollowInv == (claim # "none" /\ \A h \in Handlers : ~Is(h, "event")) => Followed

\* Whoever stops looking leaves nothing behind.
LEMMA StopsLooking ==
  ASSUME TypeOK, SkipInv, [Next]_vars, NEW g \in Handlers, Looking(g), ~Looking(g)'
  PROVE  aborted' \/ Matched' = {}
<1> USE DEF TypeOK, Goto, Fetch, Ended, Fresh, Job, Looking, At
<1>1. ASSUME NEW h \in Handlers, Begin(h) \/ CatchupJob(h) \/ Step(h) \/ Fails(h)
      PROVE  aborted' \/ Matched' = {}
  <2>1. g = h
    BY <1>1, IntakeMoves
  <2>2. ~Begin(h) /\ ~CatchupJob(h)
    BY <2>1 DEF Begin, OrderWebhook, PaymentWebhook, LoyaltyEvent, RedeemEvent, Audit, CatchupJob
  <2>3. Step(h) => Finish(h)
    <3>1. ~Identify(h) /\ ~Check(h) /\ ~Claim(h) /\ ~Commit(h)
      BY <2>1 DEF Identify, Check, Claim, Commit
    <3>2. ~LookUp(h) /\ ~FreeItem(h)
      BY <2>1 DEF LookUp, FreeItem
    <3>3. ASSUME Redeem(h) PROVE FALSE
      <4>1. At(h, "redeem") /\ \E left : Continue(h, left)
        BY <3>3, RedeemCases DEF Redeem
      <4>2. job'[h].step \in {"redeem", "finish"}
        BY <4>1 DEF Continue
      <4> QED
        BY <2>1, <4>2
    <3> QED
      BY <3>1, <3>2, <3>3 DEF Step
  <2>4. Fails(h) => ReturnsFail(h)
    <3>1. ~Rollback(h) /\ ~LookUpFails(h)
      BY <2>1 DEF Rollback, LookUpFails
    <3>2. ASSUME RedeemFails(h) PROVE FALSE
      <4>1. PICK r \in job[h].todo : Continue(h, AfterThrow(h, r))
        BY <3>2 DEF RedeemFails
      <4>2. job'[h].step \in {"redeem", "finish"}
        BY <4>1 DEF Continue
      <4> QED
        BY <2>1, <4>2
    <3> QED
      BY <3>1, <3>2 DEF Fails
  <2>5. aborted \/ Matched = {}
    BY <1>1, <2>2, <2>3, <2>4 DEF Finish, ReturnsFail, SkipInv
  <2> QED
    BY <2>5, MatchedShrinks
<1>2. Restart => aborted'
  BY DEF Restart
<1>3. ~(CacheExpires \/ Attach \/ UNCHANGED vars)
  BY DEF CacheExpires, Attach, vars
<1>4. \A r \in Rewards : ~Elsewhere(r)
  BY DEF Elsewhere
<1> QED
  BY <1>1, <1>2, <1>3, <1>4 DEF Next

\* Whoever takes the order in, other than for a loyalty event, looks.
LEMMA CommitLooks ==
  ASSUME TypeOK, IntakeInv, [Next]_vars, claim = "none", claim' # "none",
         \A h \in Handlers : ~Is(h, "event")
  PROVE  \E h \in Handlers : Looking(h)'
<1>1. ASSUME NEW h \in Handlers, Begin(h) \/ CatchupJob(h) \/ Step(h) \/ Fails(h)
      PROVE  Looking(h)'
  <2>1. Commit(h)
    BY <1>1, IntakeKept DEF Claim, Rollback
  <2> QED
    BY <2>1 DEF Commit, AfterIntake, Goto, Looking, TypeOK, Job
<1>2. ~(Restart \/ CacheExpires \/ Attach \/ UNCHANGED vars)
  BY DEF Restart, CacheExpires, Attach, vars, intake
<1>3. \A r \in Rewards : ~Elsewhere(r)
  BY DEF Elsewhere, intake
<1> QED
  BY <1>1, <1>2, <1>3 DEF Next

LEMMA FollowNext == TypeOK /\ IntakeInv /\ SkipInv /\ FollowInv /\ [Next]_vars => FollowInv'
<1> SUFFICES ASSUME TypeOK, IntakeInv, SkipInv, FollowInv, [Next]_vars,
                    claim' # "none", \A h \in Handlers : ~Is(h, "event")',
                    ~aborted', Matched' # {}
             PROVE  \E h \in Handlers : Looking(h)'
  BY DEF FollowInv, Followed
<1>1. \A h \in Handlers : ~Is(h, "event")
  BY InputKept DEF Is, input
<1>2. CASE claim = "none"
  BY <1>1, <1>2, CommitLooks
<1>3. CASE claim # "none"
  <2>1. PICK g \in Handlers : Looking(g)
    BY <1>1, <1>3, MatchedShrinks DEF FollowInv, Followed
  <2> QED
    BY <2>1, StopsLooking
<1> QED
  BY <1>2, <1>3

\* What RedemptionFollows promises is there at the latest when nobody looks any
\* more: every reward used on an order that was taken in is redeemed, unless an
\* error or a restart has ended a detection (runRedemptionDetection).
THEOREM RedeemedAtRest ==
  Spec => [](/\ claim # "none" /\ \A h \in Handlers : ~Is(h, "event")
             /\ \A h \in Handlers : ~Looking(h)
             => Matched = {} \/ aborted)
<1> DEFINE AtRest == /\ claim # "none" /\ \A h \in Handlers : ~Is(h, "event")
                     /\ \A h \in Handlers : ~Looking(h)
                     => Matched = {} \/ aborted
<1>1. Init => SkipInv /\ FollowInv
  BY DEF Init, SkipInv, SkipIsSafe, At, Fresh, FollowInv
<1>2. FollowInv => AtRest
  BY DEF FollowInv, Followed
<1> HIDE DEF AtRest
<1>3. Spec => []AtRest
  BY <1>1, <1>2, FollowNext, SkipNext, TypeInit, TypeNext, IntakeInit, IntakeNext, PTL DEF Spec
<1> QED
  BY <1>3 DEF AtRest

\* The job is past the intake only when the order has been taken in.
PassedInv ==
  \A h \in Handlers :
    Is(h, "catchup") /\ (Looking(h) \/ At(h, "done")) => claim # "none"

LEMMA PassedStep ==
  ASSUME TypeOK, PassedInv, IntakeInv, [Next]_vars, NEW h \in Handlers, Is(h, "catchup"),
         Begin(h) \/ CatchupJob(h) \/ Step(h) \/ Fails(h),
         Looking(h)' \/ At(h, "done")'
  PROVE  claim' # "none"
<1> USE DEF TypeOK, Goto, Fetch, Ended, Fresh, Job, Looking, At, Is
<1>0. claim # "none" => claim' # "none"
  BY DecideOrKeep DEF Credit!Decide, Credit!Verdicts
<1>1. ~Begin(h) /\ ~CatchupJob(h)
  BY DEF Begin, OrderWebhook, PaymentWebhook, LoyaltyEvent, RedeemEvent, Audit, CatchupJob
<1>2. CASE Step(h)
  <2>1. ~Identify(h)
    BY DEF Identify
  <2>2. CASE Check(h)
    BY <1>0, <2>2 DEF Check
  <2>3. CASE Claim(h)
    BY <1>0, <2>3 DEF Claim, Taken
  <2>4. CASE Commit(h)
    BY <2>4 DEF Commit, Record
  <2>5. CASE LookUp(h) \/ FreeItem(h) \/ Redeem(h) \/ Finish(h)
    BY <1>0, <2>5 DEF LookUp, FreeItem, Redeem, Finish, PassedInv
  <2> QED
    BY <1>2, <2>1, <2>2, <2>3, <2>4, <2>5 DEF Step
<1>3. CASE Fails(h)
  <2>1. ~Rollback(h) /\ ~ReturnsFail(h)
    BY DEF Rollback, AfterError, ReturnsFail
  <2> QED
    BY <1>0, <1>3, <2>1 DEF Fails, LookUpFails, RedeemFails, PassedInv
<1> QED
  BY <1>1, <1>2, <1>3

LEMMA PassedNext == TypeOK /\ IntakeInv /\ PassedInv /\ [Next]_vars => PassedInv'
<1> SUFFICES ASSUME TypeOK, IntakeInv, PassedInv, [Next]_vars, NEW g \in Handlers,
                    Is(g, "catchup")', Looking(g)' \/ At(g, "done")'
             PROVE  claim' # "none"
  BY DEF PassedInv
<1>0. claim # "none" => claim' # "none"
  BY DecideOrKeep DEF Credit!Decide, Credit!Verdicts
<1>1. Is(g, "catchup")
  BY InputKept DEF Is, input
<1>2. ASSUME job'[g] = job[g] PROVE claim' # "none"
  BY <1>0, <1>1, <1>2 DEF PassedInv, Looking, At
<1>3. ASSUME NEW h \in Handlers, Begin(h) \/ CatchupJob(h) \/ Step(h) \/ Fails(h)
      PROVE  claim' # "none"
  BY <1>1, <1>2, <1>3, PassedStep, IntakeMoves
<1>4. CASE Restart
  <2>1. job'[g] = job[g]
    BY <1>1, <1>4 DEF Restart, Begun, Fresh, Ended, Looking, At
  <2> QED
    BY <1>2, <2>1
<1>5. CASE CacheExpires \/ Attach \/ UNCHANGED vars
  BY <1>2, <1>5 DEF CacheExpires, Attach, vars
<1>6. ASSUME NEW r \in Rewards, Elsewhere(r) PROVE claim' # "none"
  BY <1>2, <1>6 DEF Elsewhere
<1> QED
  BY <1>3, <1>4, <1>5, <1>6 DEF Next

\* What TakenIn promises is there when the catch-up job is through with an order:
\* no error, restart or other handler's intake makes it leave an order untaken.
THEOREM CaughtUp ==
  Spec => []\A h \in Handlers : Is(h, "catchup") /\ At(h, "done") => claim # "none"
<1>1. Init => PassedInv
  BY DEF Init, PassedInv, Looking, At, Fresh
<1>2. PassedInv => \A h \in Handlers : Is(h, "catchup") /\ At(h, "done") => claim # "none"
  BY DEF PassedInv
<1> QED
  BY <1>1, <1>2, PassedNext, TypeInit, TypeNext, IntakeInit, IntakeNext, PTL DEF Spec
=============================================================================
