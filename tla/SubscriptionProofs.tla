-------------------------- MODULE SubscriptionProofs --------------------------
(* Proofs about Subscription, for any requests, addresses, webhooks and merchants. *)
EXTENDS Subscription, FiniteSetTheorems, TLAPS

Row == [exists : BOOLEAN, status : Statuses, merchant : Merchants \cup {NoMerchant},
        square : BOOLEAN, promo : BOOLEAN]

RowsOK     == subs \in [Emails -> Row]
RequestsOK == requests \in [Requests -> Request]

\* What a webhook has still to write is a status a merchant can have.
Bridged == \A w \in Workers : webhooks[w] = Idle \/ webhooks[w].to \in Access

\* Past the insert, a request has its row; it knows its address from the start.
Inserted == {"pay", "subscribe", "activate", "bridge", "claim", "use", "done", "refused"}
HasRow ==
  \A r \in Requests :
    /\ requests[r].at # "idle" => requests[r].email \in Emails
    /\ requests[r].at \in Inserted => subs[requests[r].email].exists

Typed == TypeOK /\ Bridged /\ HasRow

\* A request that is still to charge its card has not done so, and is the only one of its
\* address; who was charged has a row.
Charging(r) ==
  requests[r].at = "pay" \/ (requests[r].at = "subscribe" /\ requests[r].path = "full")
OneCharge ==
  /\ \A r \in Requests :
       /\ Charging(r) => charges[requests[r].email] = 0
       /\ requests[r].at = "pay" => requests[r].path = "discount"
  /\ \A r, s \in Requests :
       r # s /\ Charging(r) /\ Charging(s) => requests[r].email # requests[s].email
  /\ \A e \in Emails : charges[e] > 0 => subs[e].exists
  /\ ChargedOnce

\* From its activation on, a request has a row that the webhooks of Square find.
Activated == {"bridge", "claim", "use", "done", "refused"}
Served ==
  \A r \in Requests : requests[r].at \in Activated => subs[requests[r].email].square

\* A use is counted before it is recorded in the row.
Carriers == {e \in Emails : subs[e].promo}
Users    == {r \in Requests : requests[r].at = "use"}
Counted  == used <= MaxUses /\ Cardinality(Carriers) + Cardinality(Users) <= used
-----------------------------------------------------------------------------
LEMMA ConstantTypes ==
  /\ None \in Row /\ Waiting \in Request /\ Idle \in Webhook
  /\ \A m \in Merchants \cup {NoMerchant} : PlanOf(m) \in Merchants
BY OwnerAssumption DEF None, Row, Statuses, Waiting, Request, Stages, Idle, Webhook, Access, PlanOf

\* A request goes on, keeping its address and, unless it ends, the rest.
LEMMA GoFacts ==
  ASSUME RequestsOK, NEW r \in Requests, NEW stage \in Stages, Go(r, stage)
  PROVE  /\ RequestsOK'
         /\ \A s \in Requests \ {r} : requests'[s] = requests[s]
         /\ requests'[r].at = stage
         /\ requests'[r].email = requests[r].email
         /\ stage \notin Ended => /\ requests'[r].path = requests[r].path
                                  /\ requests'[r].promo = requests[r].promo
                                  /\ requests'[r].merchant = requests[r].merchant
<1>1. requests[r] \in Request
  BY DEF RequestsOK
<1>2. CASE stage \in Ended
  <2>1. requests' = [requests EXCEPT ![r] = [Waiting EXCEPT !.at = stage, !.email = requests[r].email]]
    BY <1>2 DEF Go
  <2>2. [Waiting EXCEPT !.at = stage, !.email = requests[r].email] \in Request
    BY <1>1 DEF Waiting, Request
  <2> QED
    BY <1>2, <2>1, <2>2 DEF RequestsOK, Waiting
<1>3. CASE stage \notin Ended
  <2>1. requests' = [requests EXCEPT ![r] = [requests[r] EXCEPT !.at = stage]]
    BY <1>3 DEF Go
  <2>2. [requests[r] EXCEPT !.at = stage] \in Request
    BY <1>1 DEF Request
  <2> QED
    BY <1>1, <1>3, <2>1, <2>2 DEF RequestsOK, Request
<1> QED
  BY <1>2, <1>3

\* The steps a request takes after it was submitted, the last of them being Fail.
LEMMA SignUpType ==
  ASSUME Typed, NEW r \in Requests, SignUp(r) \/ Fail(r)
  PROVE  Typed'
<1> USE DEF Typed, TypeOK, RowsOK, RequestsOK, Row
<1>0. requests[r] \in Request
  BY DEF TypeOK
<1>1. ASSUME InsertSubscriber(r) PROVE Typed'
  <2> DEFINE q == requests[r]
             next == IF q.path = "discount" THEN "pay" ELSE "subscribe"
  <2>1. q.email \in Emails
    BY <1>1 DEF HasRow, InsertSubscriber
  <2>2. CASE q.email \in Subscribed
    <3>1. Go(r, "failed") /\ UNCHANGED <<subs, access, charges, used, webhooks>>
      BY <1>1, <2>2 DEF InsertSubscriber
    <3>2. HasRow'
      BY <2>1, <3>1, GoFacts DEF HasRow, Stages, Inserted
    <3> QED
      BY <3>1, <3>2, GoFacts DEF Stages, Bridged
  <2>3. CASE q.email \notin Subscribed
    <3>1. /\ Go(r, next) /\ next \in Stages
          /\ subs' = [subs EXCEPT ![q.email] =
                         [None EXCEPT !.exists = TRUE, !.merchant = PlanOf(q.merchant)]]
          /\ UNCHANGED <<access, charges, used, webhooks>>
      BY <1>1, <2>3 DEF InsertSubscriber, Stages
    <3>2. [None EXCEPT !.exists = TRUE, !.merchant = PlanOf(q.merchant)] \in Row
      BY <1>0, ConstantTypes DEF Request
    <3>3. RowsOK' /\ RequestsOK'
      BY <3>1, <3>2, GoFacts
    <3>4. subs'[q.email].exists /\ \A e \in Emails \ {q.email} : subs'[e] = subs[e]
      BY <2>1, <3>1 DEF None
    <3>5. HasRow'
      BY <2>1, <3>1, <3>4, GoFacts DEF HasRow, Inserted
    <3> QED
      BY <3>1, <3>3, <3>5 DEF Bridged
  <2> QED
    BY <2>2, <2>3
<1>2. ASSUME UNCHANGED <<subs, webhooks>>, NEW stage \in Stages \ {"idle"}, Go(r, stage),
             requests[r].at \in Inserted \/ stage = "failed",
             requests[r].at # "idle",
             access' \in [Merchants -> Access], charges' \in [Emails -> Nat], used' \in Nat
      PROVE  Typed'
  BY <1>2, GoFacts DEF HasRow, Bridged, Inserted
<1>3. ASSUME Pay(r) \/ SquareSubscribe(r) PROVE Typed'
  <2>1. requests[r].email \in Emails
    BY <1>3 DEF HasRow, Pay, SquareSubscribe
  <2>2. charges' \in [Emails -> Nat]
    BY <1>3, <2>1 DEF Pay, SquareSubscribe
  <2> QED
    BY <1>2, <1>3, <2>2 DEF Pay, SquareSubscribe, Stages, Inserted
<1>4. ASSUME ActivateMerchant(r) PROVE Typed'
  <2> DEFINE next == IF requests[r].promo THEN "claim" ELSE "done"
  <2>1. access' \in [Merchants -> Access]
    BY <1>4 DEF ActivateMerchant, Access
  <2>2. next \in Stages \ {"idle"}
    BY DEF Stages
  <2> QED
    BY <1>2, <1>4, <2>1, <2>2 DEF ActivateMerchant, Inserted
<1>5. ASSUME ClaimPromo(r) PROVE Typed'
  BY <1>2, <1>5 DEF ClaimPromo, Stages, Inserted
<1>6. ASSUME Fail(r) PROVE Typed'
  BY <1>2, <1>6 DEF Fail, Stages
<1>7. ASSUME NEW stage \in Stages \ {"idle"}, Go(r, stage), requests[r].at \in Inserted,
             UNCHANGED <<access, charges, used, webhooks>>, RowsOK',
             \A e \in Emails : subs[e].exists => subs'[e].exists
      PROVE  Typed'
  BY <1>7, GoFacts DEF HasRow, Bridged, Inserted
<1>8. ASSUME ActivateSubscriber(r) PROVE Typed'
  <2> DEFINE next == IF requests[r].merchant # NoMerchant THEN "bridge"
                     ELSE IF requests[r].promo THEN "claim" ELSE "done"
  <2>1. next \in Stages \ {"idle"}
    BY DEF Stages
  <2>2. requests[r].email \in Emails /\ subs[requests[r].email] \in Row
    BY <1>8 DEF HasRow, ActivateSubscriber
  <2>3. RowsOK' /\ \A e \in Emails : subs[e].exists => subs'[e].exists
    BY <1>8, <2>2 DEF ActivateSubscriber, Statuses
  <2> QED
    BY <1>7, <1>8, <2>1, <2>3 DEF ActivateSubscriber, Inserted
<1>9. ASSUME RecordUse(r) PROVE Typed'
  <2>2. requests[r].email \in Emails /\ subs[requests[r].email] \in Row
    BY <1>9 DEF HasRow, RecordUse
  <2>3. RowsOK' /\ \A e \in Emails : subs[e].exists => subs'[e].exists
    BY <1>9, <2>2 DEF RecordUse
  <2> QED
    BY <1>7, <1>9, <2>3 DEF RecordUse, Inserted, Stages
<1> QED
  BY <1>1, <1>3, <1>4, <1>5, <1>6, <1>8, <1>9 DEF SignUp

\* The steps of everybody else.
LEMMA OtherType ==
  ASSUME Typed, Next, \A r \in Requests : ~ (SignUp(r) \/ Fail(r))
  PROVE  Typed'
<1> USE DEF Typed, TypeOK, RowsOK, RequestsOK, Row
<1>1. ASSUME NEW r \in Requests, NEW e \in Emails, NEW m \in Merchants \cup {NoMerchant},
             Submit(r, e, m)
      PROVE  Typed'
  <2>1. PICK promo \in {PromoValid(PlanOf(m)), FALSE} :
          \E path \in IF promo THEN {"discount", "free", "full"} ELSE {"full"} :
            requests' = [requests EXCEPT ![r] =
              [at |-> "insert", email |-> e, merchant |-> m, path |-> path, promo |-> promo]]
    BY <1>1 DEF Submit
  <2>2. promo \in BOOLEAN
    BY <2>1 DEF PromoValid, HasOwner
  <2>3. PICK path \in {"discount", "free", "full"} :
          requests' = [requests EXCEPT ![r] =
            [at |-> "insert", email |-> e, merchant |-> m, path |-> path, promo |-> promo]]
    BY <2>1
  <2>4. [at |-> "insert", email |-> e, merchant |-> m, path |-> path, promo |-> promo] \in Request
    BY <2>2 DEF Request, Stages
  <2>5. RequestsOK' /\ HasRow'
    BY <1>1, <2>3, <2>4 DEF HasRow, Inserted, Submit
  <2> QED
    BY <1>1, <2>5 DEF Submit, Bridged
<1>2. ASSUME NEW e \in Emails, NEW s \in Statuses, subs[e].exists, SetStatus(e, s)
      PROVE  RowsOK' /\ (requests' = requests => HasRow')
  <2>1. subs[e] \in Row /\ subs' = [subs EXCEPT ![e] = [subs[e] EXCEPT !.status = s]]
    BY <1>2 DEF SetStatus
  <2>2. RowsOK' /\ \A f \in Emails : subs'[f].exists = subs[f].exists
    BY <2>1
  <2> QED
    BY <2>2 DEF HasRow, Inserted
<1>3. ASSUME NEW w \in Workers, NEW e \in Emails, Notify(w, e) PROVE Typed'
  <2>1. PICK s \in Statuses :
          /\ SetStatus(e, s)
          /\ webhooks' = [webhooks EXCEPT ![w] =
               IF BridgedTo[s] = "none" THEN Idle
               ELSE [to |-> BridgedTo[s], merchant |-> subs[e].merchant]]
    BY <1>3 DEF Notify, Statuses
  <2>2. subs[e].exists /\ subs[e] \in Row
    BY <1>3 DEF Notify, Subscribed
  <2>3. BridgedTo[s] \in Access \cup {"none"}
    BY DEF BridgedTo, Statuses, Access
  <2>4. BridgedTo[s] # "none" =>
          [to |-> BridgedTo[s], merchant |-> subs[e].merchant] \in Webhook
    BY <2>2, <2>3 DEF Webhook
  <2>5. webhooks' \in [Workers -> Webhook] /\ Bridged'
    BY <2>1, <2>3, <2>4, ConstantTypes DEF Bridged
  <2> QED
    BY <1>2, <1>3, <2>1, <2>2, <2>5 DEF Notify
<1>4. ASSUME NEW w \in Workers, Bridge(w) \/ WebhookFails(w) PROVE Typed'
  <2>1. webhooks' \in [Workers -> Webhook] /\ Bridged'
    BY <1>4, ConstantTypes DEF Bridge, WebhookFails, Bridged
  <2>2. access' \in [Merchants -> Access]
    BY <1>4 DEF Bridge, WebhookFails, Bridged
  <2>3. HasRow'
    BY <1>4 DEF Bridge, WebhookFails, HasRow
  <2> QED
    BY <1>4, <2>1, <2>2, <2>3 DEF Bridge, WebhookFails
<1>5. ASSUME NEW e \in Emails, Refund(e) \/ CheckStatus(e) PROVE Typed'
  BY <1>2, <1>5 DEF Refund, CheckStatus, Statuses, Subscribed, Bridged
<1>6. ASSUME NEW e \in Emails, RevertPromo(e) PROVE Typed'
  <2>1. subs[e] \in Row
    OBVIOUS
  <2>2. RowsOK' /\ \A f \in Emails : subs'[f].exists = subs[f].exists
    BY <1>6, <2>1 DEF RevertPromo
  <2>3. HasRow'
    BY <1>6, <2>2 DEF RevertPromo, HasRow, Inserted
  <2> QED
    BY <1>6, <2>2, <2>3 DEF RevertPromo, Bridged
<1>7. ASSUME NEW m \in Merchants, NEW from, NEW to \in Access, SetAccess(m, from, to)
      PROVE  Typed'
  BY <1>7 DEF SetAccess, HasRow, Bridged
<1>8. ASSUME NEW m \in Merchants,
             ExpireTrial(m) \/ ExtendTrial(m) \/ DeactivateMerchant(m) \/ CompMerchant(m)
      PROVE  Typed'
  BY <1>7, <1>8 DEF ExpireTrial, ExtendTrial, DeactivateMerchant, CompMerchant, Access
<1> QED
  BY <1>1, <1>3, <1>4, <1>5, <1>6, <1>8 DEF Next

LEMMA TypedStep ==
  ASSUME Typed, [Next]_vars
  PROVE  Typed'
<1>1. CASE \E r \in Requests : SignUp(r) \/ Fail(r)
  BY <1>1, SignUpType
<1>2. CASE Next /\ \A r \in Requests : ~ (SignUp(r) \/ Fail(r))
  BY <1>2, OtherType
<1>3. CASE UNCHANGED vars
  BY <1>3 DEF vars, Typed, TypeOK, Bridged, HasRow
<1> QED
  BY <1>1, <1>2, <1>3

LEMMA TypedInit == Init => Typed
BY ConstantTypes, OwnerAssumption
   DEF Init, Typed, TypeOK, Row, Access, Bridged, HasRow, Inserted, Waiting
-----------------------------------------------------------------------------
\* What a sign-up does, as far as the invariants see it: the row keeps what it had, and
\* the request goes from one stage to another.
LEMMA RowsKept ==
  ASSUME Typed, [Next]_vars, NEW e \in Emails, subs[e].exists
  PROVE  /\ subs'[e].exists
         /\ subs[e].square => subs'[e].square
<1> USE DEF Typed, TypeOK, Subscribed
<1>1. CASE \E r \in Requests : SignUp(r) \/ Fail(r)
  BY <1>1 DEF SignUp, InsertSubscriber, Pay, SquareSubscribe, ActivateSubscriber,
              ActivateMerchant, ClaimPromo, RecordUse, Fail
<1>2. CASE Next /\ \A r \in Requests : ~ (SignUp(r) \/ Fail(r))
  BY <1>2 DEF Next, Submit, Notify, SetStatus, Bridge, WebhookFails, Refund, CheckStatus,
              RevertPromo, ExpireTrial, ExtendTrial, DeactivateMerchant, CompMerchant, SetAccess
<1>3. CASE UNCHANGED vars
  BY <1>3 DEF vars
<1> QED
  BY <1>1, <1>2, <1>3

\* Everybody else leaves the requests that have been submitted and the charges alone.
LEMMA OthersKeep ==
  ASSUME Typed, [Next]_vars, \A r \in Requests : ~ (SignUp(r) \/ Fail(r))
  PROVE  /\ charges' = charges /\ used' = used
         /\ \A r \in Requests :
              requests'[r] = requests[r] \/ (requests[r].at = "idle" /\ requests'[r].at = "insert")
         /\ \A e \in Emails : subs'[e].promo => subs[e].promo
<1> USE DEF Typed, TypeOK
<1>1. CASE Next
  BY <1>1 DEF Next, Submit, Notify, SetStatus, Bridge, WebhookFails, Refund, CheckStatus,
              RevertPromo, ExpireTrial, ExtendTrial, DeactivateMerchant, CompMerchant, SetAccess
<1>2. CASE UNCHANGED vars
  BY <1>2 DEF vars
<1> QED
  BY <1>1, <1>2
-----------------------------------------------------------------------------
(* One address is charged once. *)

\* A step that charges nobody and lets no request come to its charge.
LEMMA ChargeFrame ==
  ASSUME Typed, OneCharge, [Next]_vars, charges' = charges,
         \A r \in Requests : \/ requests'[r] = requests[r]
                             \/ ~ Charging(r)' /\ requests'[r].at # "pay"
  PROVE  OneCharge'
BY RowsKept DEF OneCharge, Charging, ChargedOnce, Typed, TypeOK

LEMMA OneChargeStep ==
  ASSUME Typed, OneCharge, [Next]_vars
  PROVE  OneCharge'
<1> USE DEF Typed, RequestsOK
<1>1. ASSUME NEW r \in Requests, InsertSubscriber(r) PROVE OneCharge'
  <2> DEFINE q == requests[r]
             next == IF q.path = "discount" THEN "pay" ELSE "subscribe"
  <2>1. CASE q.email \in Subscribed
    <3>1. charges' = charges /\ Go(r, "failed")
      BY <1>1, <2>1 DEF InsertSubscriber
    <3> QED
      BY <3>1, GoFacts, ChargeFrame DEF Stages, Charging, TypeOK
  <2>2. CASE q.email \notin Subscribed
    <3>1. charges' = charges /\ Go(r, next) /\ next \in Stages \ Ended /\ q.email \in Emails
      BY <1>1, <2>2 DEF InsertSubscriber, HasRow, Stages, Ended
    <3>2. \A s \in Requests \ {r} : requests'[s] = requests[s]
      BY <3>1, GoFacts DEF TypeOK
    <3>3. requests'[r].at = next /\ requests'[r].email = q.email /\ requests'[r].path = q.path
      BY <3>1, GoFacts DEF TypeOK
    <3>4. charges[q.email] = 0
      BY <2>2, <3>1 DEF OneCharge, Subscribed, TypeOK
    <3>5. \A s \in Requests \ {r} : Charging(s)' => requests'[s].email # q.email
      BY <2>2, <3>1, <3>2 DEF Charging, HasRow, Inserted, Subscribed
    <3>6. \A s \in Requests \ {r} : Charging(s)' <=> Charging(s)
      BY <3>2 DEF Charging
    <3>7. \A e \in Emails : charges'[e] > 0 => subs'[e].exists
      BY <3>1, RowsKept DEF OneCharge
    <3>8. \A s \in Requests : /\ Charging(s)' => charges'[requests'[s].email] = 0
                              /\ requests'[s].at = "pay" => requests'[s].path = "discount"
      BY <3>1, <3>2, <3>3, <3>4, <3>6 DEF OneCharge
    <3>9. \A s, t \in Requests : s # t /\ Charging(s)' /\ Charging(t)' =>
                                 requests'[s].email # requests'[t].email
      BY <3>2, <3>3, <3>5, <3>6 DEF OneCharge
    <3> QED
      BY <3>1, <3>7, <3>8, <3>9 DEF OneCharge, ChargedOnce
  <2> QED
    BY <2>1, <2>2
<1>2. ASSUME NEW r \in Requests, Pay(r) \/ SquareSubscribe(r) PROVE OneCharge'
  <2> DEFINE e == requests[r].email
  <2>1. requests[r].at \in Inserted /\ e \in Emails /\ subs[e].exists
    BY <1>2 DEF Pay, SquareSubscribe, HasRow, Inserted
  <2>2. /\ \A s \in Requests \ {r} : requests'[s] = requests[s]
        /\ ~ Charging(r)' /\ requests'[r].at # "pay"
    <3>1. CASE Pay(r)
      <4>1. Go(r, "subscribe") /\ requests[r].path = "discount"
        BY <3>1 DEF Pay, OneCharge
      <4> QED
        BY <4>1, GoFacts DEF Stages, Ended, Charging, TypeOK
    <3>2. CASE SquareSubscribe(r)
      <4>1. Go(r, "activate")
        BY <3>2 DEF SquareSubscribe
      <4> QED
        BY <4>1, GoFacts DEF Stages, Ended, Charging, TypeOK
    <3> QED
      BY <1>2, <3>1, <3>2
  <2>3. CASE charges' = charges
    BY <2>2, <2>3, ChargeFrame
  <2>4. CASE charges' # charges
    <3>1. Charging(r) /\ charges' = [charges EXCEPT ![e] = charges[e] + 1]
      BY <1>2, <2>4 DEF Pay, SquareSubscribe, Charging
    <3>2. charges'[e] = 1 /\ \A f \in Emails \ {e} : charges'[f] = charges[f]
      BY <2>1, <3>1 DEF OneCharge, TypeOK
    <3>3. \A s \in Requests : Charging(s)' => Charging(s) /\ s # r /\ requests'[s] = requests[s]
      BY <2>2 DEF Charging
    <3>4. \A s \in Requests : Charging(s)' => requests[s].email \in Emails \ {e}
      BY <3>1, <3>3 DEF OneCharge, HasRow, Charging, Inserted
    <3>5. \A f \in Emails : charges'[f] > 0 => subs'[f].exists
      BY <2>1, <3>2, RowsKept DEF OneCharge
    <3>6. ChargedOnce'
      BY <3>2 DEF OneCharge, ChargedOnce
    <3>7. \A s \in Requests : /\ Charging(s)' => charges'[requests'[s].email] = 0
                              /\ requests'[s].at = "pay" => requests'[s].path = "discount"
      BY <2>2, <3>2, <3>3, <3>4 DEF OneCharge
    <3>8. \A s, t \in Requests : s # t /\ Charging(s)' /\ Charging(t)' =>
                                 requests'[s].email # requests'[t].email
      BY <3>3 DEF OneCharge
    <3> QED
      BY <3>5, <3>6, <3>7, <3>8 DEF OneCharge
  <2> QED
    BY <2>3, <2>4
<1>3. ASSUME NEW r \in Requests, ActivateSubscriber(r) \/ ActivateMerchant(r)
             \/ ClaimPromo(r) \/ RecordUse(r) \/ Fail(r)
      PROVE  OneCharge'
  <2>1. charges' = charges
    BY <1>3 DEF ActivateSubscriber, ActivateMerchant, ClaimPromo, RecordUse, Fail
  <2>2. PICK stage \in {"bridge", "claim", "use", "done", "refused", "failed"} : Go(r, stage)
    BY <1>3 DEF ActivateSubscriber, ActivateMerchant, ClaimPromo, RecordUse, Fail
  <2> QED
    BY <2>1, <2>2, GoFacts, ChargeFrame DEF Stages, Charging, TypeOK
<1>4. ASSUME \A r \in Requests : ~ (SignUp(r) \/ Fail(r)) PROVE OneCharge'
  BY <1>4, OthersKeep, ChargeFrame DEF Charging
<1> QED
  BY <1>1, <1>2, <1>3, <1>4 DEF SignUp
-----------------------------------------------------------------------------
(* A sign-up that was activated is known to the webhooks. *)

LEMMA ServedStep ==
  ASSUME Typed, Served, [Next]_vars
  PROVE  Served'
<1> USE DEF Typed, RequestsOK, TypeOK
<1>1. ASSUME \A r \in Requests :
               \/ requests'[r] = requests[r]
               \/ requests'[r].at \notin Activated
               \/ /\ requests'[r].email = requests[r].email
                  /\ requests[r].at \in Activated \/ subs'[requests[r].email].square
      PROVE  Served'
  BY <1>1, RowsKept DEF Served, HasRow, Activated, Inserted
<1>2. ASSUME NEW r \in Requests, NEW stage \in Stages, Go(r, stage),
             \/ stage \notin Activated
             \/ requests[r].at \in Activated
             \/ subs'[requests[r].email].square
      PROVE  Served'
  BY <1>1, <1>2, GoFacts
<1>3. ASSUME NEW r \in Requests, SignUp(r) \/ Fail(r) PROVE Served'
  <2>1. CASE InsertSubscriber(r) \/ Pay(r) \/ SquareSubscribe(r) \/ Fail(r)
    <3>1. PICK stage \in {"pay", "subscribe", "activate", "failed"} : Go(r, stage)
      BY <2>1 DEF InsertSubscriber, Pay, SquareSubscribe, Fail
    <3> QED
      BY <1>2, <3>1 DEF Stages, Activated
  <2>2. CASE ActivateSubscriber(r)
    <3>1. subs'[requests[r].email].square
      BY <2>2 DEF ActivateSubscriber, HasRow
    <3>2. PICK stage \in {"bridge", "claim", "done"} : Go(r, stage)
      BY <2>2 DEF ActivateSubscriber
    <3> QED
      BY <1>2, <3>1, <3>2 DEF Stages
  <2>3. CASE ActivateMerchant(r) \/ ClaimPromo(r) \/ RecordUse(r)
    <3>1. PICK stage \in {"claim", "use", "done", "refused"} : Go(r, stage)
      BY <2>3 DEF ActivateMerchant, ClaimPromo, RecordUse
    <3>2. requests[r].at \in Activated
      BY <2>3 DEF ActivateMerchant, ClaimPromo, RecordUse, Activated
    <3> QED
      BY <1>2, <3>1, <3>2 DEF Stages
  <2> QED
    BY <1>3, <2>1, <2>2, <2>3 DEF SignUp
<1>4. ASSUME \A r \in Requests : ~ (SignUp(r) \/ Fail(r)) PROVE Served'
  BY <1>1, <1>4, OthersKeep DEF Activated
<1> QED
  BY <1>3, <1>4
-----------------------------------------------------------------------------
(* The promo code is used within its limit. *)

\* Fewer rows and requests carry or claim the code, and nothing more was counted.
LEMMA CountFrame ==
  ASSUME Counted, used \in Nat, used' = used, Carriers' \subseteq Carriers, Users' \subseteq Users
  PROVE  Counted'
<1>1. IsFiniteSet(Carriers) /\ IsFiniteSet(Users)
  BY FiniteAssumption, FS_Subset DEF Carriers, Users
<1>2. Cardinality(Carriers') <= Cardinality(Carriers) /\ Cardinality(Users') <= Cardinality(Users)
  BY <1>1, FS_Subset
<1>3. /\ Cardinality(Carriers) \in Nat /\ Cardinality(Users) \in Nat
      /\ Cardinality(Carriers') \in Nat /\ Cardinality(Users') \in Nat
  BY <1>1, FS_Subset, FS_CardinalityType
<1> QED
  BY <1>2, <1>3, UsesAssumption DEF Counted

LEMMA CountedStep ==
  ASSUME Typed, Counted, [Next]_vars
  PROVE  Counted'
<1> USE DEF Typed, RequestsOK, TypeOK
<1>0. /\ IsFiniteSet(Carriers) /\ IsFiniteSet(Users)
      /\ Cardinality(Carriers) \in Nat /\ Cardinality(Users) \in Nat
  BY FiniteAssumption, FS_Subset, FS_CardinalityType DEF Carriers, Users
<1>1. ASSUME NEW r \in Requests, ClaimPromo(r), used < MaxUses PROVE Counted'
  <2>1. Go(r, "use") /\ used' = used + 1 /\ subs' = subs /\ requests[r].at = "claim"
    BY <1>1 DEF ClaimPromo
  <2>2. Users' = Users \cup {r} /\ r \notin Users
    BY <2>1, GoFacts DEF Users, Stages
  <2>3. Carriers' = Carriers
    BY <2>1 DEF Carriers
  <2>4. Cardinality(Users') = Cardinality(Users) + 1
    BY <1>0, <2>2, FS_AddElement
  <2> QED
    BY <1>0, <1>1, <2>1, <2>3, <2>4, UsesAssumption DEF Counted
<1>2. ASSUME NEW r \in Requests, RecordUse(r) PROVE Counted'
  <2> DEFINE e == requests[r].email
  <2>1. /\ Go(r, "done") /\ used' = used /\ requests[r].at = "use"
        /\ subs' = [subs EXCEPT ![e].promo = TRUE]
    BY <1>2 DEF RecordUse
  <2>2. Users' = Users \ {r} /\ r \in Users
    BY <2>1, GoFacts DEF Users, Stages
  <2>3. Carriers' = Carriers \cup {e}
    BY <2>1 DEF Carriers, HasRow
  <2>4. Cardinality(Users') = Cardinality(Users) - 1
    BY <1>0, <2>2, FS_RemoveElement
  <2>5. /\ Cardinality(Carriers') <= Cardinality(Carriers) + 1
        /\ Cardinality(Carriers') \in Nat
    <3>1. Cardinality(Carriers \cup {e}) = IF e \in Carriers THEN Cardinality(Carriers)
                                          ELSE Cardinality(Carriers) + 1
      BY <1>0, FS_AddElement
    <3>2. Cardinality(Carriers') = Cardinality(Carriers \cup {e})
      BY <2>3
    <3> HIDE DEF e
    <3> QED
      BY <1>0, <3>1, <3>2
  <2>6. used \in Nat /\ used <= MaxUses /\ Cardinality(Carriers) + Cardinality(Users) <= used
    BY DEF Counted
  <2> QED
    BY <1>0, <2>1, <2>4, <2>5, <2>6, UsesAssumption DEF Counted
<1>3. ASSUME NEW r \in Requests, SignUp(r) \/ Fail(r),
             ~ (ClaimPromo(r) /\ used < MaxUses), ~ RecordUse(r)
      PROVE  Counted'
  <2>1. PICK stage \in Stages \ {"use"} : Go(r, stage)
    BY <1>3 DEF SignUp, InsertSubscriber, Pay, SquareSubscribe, ActivateSubscriber,
                ActivateMerchant, ClaimPromo, Fail, Stages
  <2>2. Users' \subseteq Users
    BY <2>1, GoFacts DEF Users
  <2>3. used' = used
    BY <1>3 DEF SignUp, InsertSubscriber, Pay, SquareSubscribe, ActivateSubscriber,
                ActivateMerchant, ClaimPromo, Fail
  <2>4. \A e \in Emails : subs'[e].promo => subs[e].promo
    <3>1. CASE InsertSubscriber(r)
      <4>1. None.promo = FALSE
        BY DEF None
      <4>2. \A m : [None EXCEPT !.exists = TRUE, !.merchant = m].promo = FALSE
        BY <4>1 DEF None
      <4>3. \A e \in Emails :
              \/ subs'[e] = subs[e]
              \/ \E m : subs'[e] = [None EXCEPT !.exists = TRUE, !.merchant = m]
        <5>1. CASE subs' = subs
          BY <5>1
        <5>2. CASE subs' = [subs EXCEPT ![requests[r].email] =
                      [None EXCEPT !.exists = TRUE, !.merchant = PlanOf(requests[r].merchant)]]
          BY <5>2 DEF TypeOK
        <5> QED
          BY <3>1, <5>1, <5>2 DEF InsertSubscriber
      <4> QED
        BY <4>2, <4>3
    <3>2. CASE ActivateSubscriber(r)
      BY <3>2 DEF ActivateSubscriber
    <3>3. CASE subs' = subs
      BY <3>3
    <3> QED
      BY <1>3, <3>1, <3>2, <3>3 DEF SignUp, Pay, SquareSubscribe, ActivateMerchant, ClaimPromo, Fail
  <2> QED
    BY <2>2, <2>3, <2>4, CountFrame DEF Carriers
<1>4. ASSUME \A r \in Requests : ~ (SignUp(r) \/ Fail(r)) PROVE Counted'
  <2>1. Users' \subseteq Users /\ Carriers' \subseteq Carriers /\ used' = used
    BY <1>4, OthersKeep DEF Users, Carriers
  <2> QED
    BY <2>1, CountFrame
<1> QED
  BY <1>1, <1>2, <1>3, <1>4
-----------------------------------------------------------------------------
LEMMA AllInit == Init => Typed /\ OneCharge /\ Served /\ Counted
<1> SUFFICES ASSUME Init PROVE OneCharge /\ Served /\ Counted
  BY TypedInit
<1>1. OneCharge
  BY DEF Init, OneCharge, Charging, ChargedOnce, Waiting
<1>2. Served
  BY DEF Init, Served, Activated, Waiting
<1>3. Carriers = {} /\ Users = {}
  BY DEF Init, Carriers, Users, None, Waiting
<1>4. Counted
  BY <1>3, FS_EmptySet, UsesAssumption DEF Init, Counted
<1> QED
  BY <1>1, <1>2, <1>4

\* The tables, the requests and the webhooks keep their types for any number of them: in
\* particular no webhook writes a status that merchants.subscription_status does not allow.
THEOREM TypeCorrect == Spec => []TypeOK
<1>1. Typed => TypeOK
  BY DEF Typed
<1> QED
  BY <1>1, TypedInit, TypedStep, PTL DEF Spec

\* However many sign-ups of one address found it free, its card is charged once: the row
\* with the unique e-mail is inserted before the first charge.
THEOREM CardChargedOnce == Spec => []ChargedOnce
<1>1. OneCharge => ChargedOnce
  BY DEF OneCharge
<1> QED
  BY <1>1, AllInit, TypedStep, OneChargeStep, PTL DEF Spec

\* A sign-up that was refused for the promo code, its card charged, has made a subscriber
\* that the webhooks of its subscription find.
THEOREM RefusedIsServed == Spec => []MaxedIsServed
<1>1. Served => MaxedIsServed
  BY DEF Served, MaxedIsServed, Activated
<1> QED
  BY <1>1, AllInit, TypedStep, ServedStep, PTL DEF Spec

\* No promo code is used more often than it may, whatever the requests read of it before.
THEOREM PromoWithinLimit == Spec => []PromoLimit
<1>1. Typed /\ Counted => PromoLimit
  <2>1. /\ IsFiniteSet(Carriers) /\ IsFiniteSet(Users)
        /\ Cardinality(Carriers) \in Nat /\ Cardinality(Users) \in Nat
    BY FiniteAssumption, FS_Subset, FS_CardinalityType DEF Carriers, Users
  <2> QED
    BY <2>1 DEF Typed, TypeOK, Counted, PromoLimit, Carriers
<1> QED
  BY <1>1, AllInit, TypedStep, CountedStep, PTL DEF Spec
=============================================================================
