----------------------------- MODULE Subscription -----------------------------
(***************************************************************************)
(* Billing and access.  A sign-up charges a card at Square and makes a row *)
(* of subscribers; webhooks of Square move its status; each of these is    *)
(* bridged, in a write of its own, to the subscription_status of a         *)
(* merchant, which decides whether the merchant may use the application.   *)
(* A promo code lowers the first charge of at most MaxUses sign-ups.       *)
(***************************************************************************)
EXTENDS FiniteSets, Naturals

CONSTANTS
  Requests,    \* sign-up requests, each handled once
  Emails,      \* the e-mail addresses they are for
  Workers,     \* webhooks under way at a time
  Merchants,   \* merchants connected to the application
  Owner,       \* the merchant set as platform_owner_merchant_id
  NoMerchant,  \* a sign-up of somebody who is not logged in
  NoEmail,     \* the address of a request that has not come in
  MaxUses      \* max_uses of the promo code

ASSUME OwnerAssumption == Owner \in Merchants /\ NoMerchant \notin Merchants
ASSUME EmailAssumption == NoEmail \notin Emails
ASSUME UsesAssumption == MaxUses \in Nat
ASSUME FiniteAssumption == IsFiniteSet(Requests) /\ IsFiniteSet(Emails)

VARIABLES
  access,    \* merchants.subscription_status
  subs,      \* subscribers, by e-mail
  charges,   \* at Square: how often the card of an address was charged at a sign-up
  used,      \* promo_codes.times_used
  requests,  \* where each sign-up is
  webhooks   \* what each webhook has still to do

vars == <<access, subs, charges, used, requests, webhooks>>
-----------------------------------------------------------------------------
Access   == {"trial", "active", "suspended", "cancelled", "expired", "platform_owner"}
Statuses == {"trial", "active", "past_due", "canceled", "expired"}
Stages   == {"idle", "insert", "pay", "subscribe", "activate", "bridge", "claim", "use",
             "done", "refused", "failed"}
Ended    == {"done", "refused", "failed"}

Request  == [at : Stages, email : Emails \cup {NoEmail},
             merchant : Merchants \cup {NoMerchant},   \* of the session
             path : {"discount", "free", "full"}, promo : BOOLEAN]
Webhook  == [to : Access \cup {"none"}, merchant : Merchants \cup {NoMerchant}]
Waiting  == [at |-> "idle", email |-> NoEmail, merchant |-> NoMerchant,
             path |-> "full", promo |-> FALSE]
Idle     == [to |-> "none", merchant |-> NoMerchant]

\* No row.
None == [exists |-> FALSE, status |-> "trial", merchant |-> NoMerchant,
         square |-> FALSE, promo |-> FALSE]

TypeOK ==
  /\ access \in [Merchants -> Access]
  /\ subs \in [Emails -> [exists : BOOLEAN, status : Statuses,
                          merchant : Merchants \cup {NoMerchant},
                          square : BOOLEAN,    \* square_subscription_id is set
                          promo : BOOLEAN]]    \* promo_code_id is set
  /\ charges \in [Emails -> Nat]
  /\ used \in Nat
  /\ requests \in [Requests -> Request]
  /\ webhooks \in [Workers -> Webhook]

Init ==
  /\ access = [m \in Merchants |-> IF m = Owner THEN "platform_owner" ELSE "trial"]
  /\ subs = [e \in Emails |-> None]
  /\ charges = [e \in Emails |-> 0]
  /\ used = 0
  /\ requests = [r \in Requests |-> Waiting]
  /\ webhooks = [w \in Workers |-> Idle]

Subscribed == {e \in Emails : subs[e].exists}
HasOwner   == access[Owner] = "platform_owner"

\* The code is the owner's, valid for others as long as that merchant is the owner.
PromoValid(m) == used < MaxUses /\ (m = Owner \/ HasOwner)

\* Whose plan a sign-up takes, and whose subscriber it makes.
PlanOf(m) == IF m = NoMerchant THEN Owner ELSE m

Go(r, stage) ==
  requests' = [requests EXCEPT ![r] =
    IF stage \in Ended THEN [Waiting EXCEPT !.at = stage, !.email = requests[r].email]
    ELSE [@ EXCEPT !.at = stage]]

SetStatus(e, s) == subs' = [subs EXCEPT ![e].status = s]
-----------------------------------------------------------------------------
(* Sign-up: createSubscription. *)

\* The address is not taken, and the plan is the session's merchant's or the owner's.
\* A code that is not valid is ignored, and so is the discount.
Submit(r, e, m) ==
  /\ requests[r].at = "idle"
  /\ e \notin Subscribed
  /\ m = NoMerchant => HasOwner
  /\ \E promo \in {PromoValid(PlanOf(m)), FALSE} :
       \E path \in IF promo THEN {"discount", "free", "full"} ELSE {"full"} :
         requests' = [requests EXCEPT ![r] =
           [at |-> "insert", email |-> e, merchant |-> m, path |-> path, promo |-> promo]]
  /\ UNCHANGED <<access, subs, charges, used, webhooks>>

\* Mutant: an address that has signed up meanwhile is taken over, not refused.
InsertAnyway(r) ==
  LET q == requests[r]
  IN /\ q.at = "insert"
     /\ Go(r, IF q.path = "discount" THEN "pay" ELSE "subscribe")
     /\ subs' = [subs EXCEPT ![q.email] = [None EXCEPT !.exists = TRUE, !.merchant = PlanOf(q.merchant)]]
     /\ UNCHANGED <<access, charges, used, webhooks>>

\* subscribers.email is unique; the row is on trial until it is paid.
InsertSubscriber(r) ==
  LET q == requests[r]
  IN /\ q.at = "insert"
     /\ IF q.email \in Subscribed
        THEN Go(r, "failed") /\ UNCHANGED subs
        ELSE /\ Go(r, IF q.path = "discount" THEN "pay" ELSE "subscribe")
             /\ subs' = [subs EXCEPT ![q.email] =
                           [None EXCEPT !.exists = TRUE, !.merchant = PlanOf(q.merchant)]]
     /\ UNCHANGED <<access, charges, used, webhooks>>

\* The first cycle at the promo price; Square bills the plan from the next one.
Pay(r) ==
  /\ requests[r].at = "pay"
  /\ Go(r, "subscribe")
  /\ charges' = [charges EXCEPT ![requests[r].email] = @ + 1]
  /\ UNCHANGED <<access, subs, used, webhooks>>

\* Mutant: the promo code is claimed before the subscriber is activated.
ClaimFirst(r) ==
  LET q == requests[r]
  IN /\ q.at = "subscribe"
     /\ Go(r, IF q.promo /\ used >= MaxUses THEN "refused" ELSE "activate")
     /\ charges' = IF q.path = "full" THEN [charges EXCEPT ![q.email] = @ + 1] ELSE charges
     /\ UNCHANGED <<access, subs, used, webhooks>>

\* The subscription is created at Square, which charges the first cycle of a full price.
SquareSubscribe(r) ==
  LET q == requests[r]
  IN /\ q.at = "subscribe"
     /\ Go(r, "activate")
     /\ charges' = IF q.path = "full" THEN [charges EXCEPT ![q.email] = @ + 1] ELSE charges
     /\ UNCHANGED <<access, subs, used, webhooks>>

ActivateSubscriber(r) ==
  LET q == requests[r]
  IN /\ q.at = "activate"
     /\ Go(r, IF q.merchant # NoMerchant THEN "bridge" ELSE IF q.promo THEN "claim" ELSE "done")
     /\ subs' = [subs EXCEPT ![q.email].square = TRUE, ![q.email].status = "active"]
     /\ UNCHANGED <<access, charges, used, webhooks>>

ActivateMerchant(r) ==
  LET q == requests[r]
  IN /\ q.at = "bridge"
     /\ Go(r, IF q.promo THEN "claim" ELSE "done")
     /\ access' = [access EXCEPT ![q.merchant] = "active"]
     /\ UNCHANGED <<subs, charges, used, webhooks>>

\* Mutant: the use is counted without looking at max_uses again.
ClaimBlindly(r) ==
  /\ requests[r].at = "claim"
  /\ Go(r, "use")
  /\ used' = used + 1
  /\ UNCHANGED <<access, subs, charges, webhooks>>

\* times_used is raised unless others have used the code up: then the sign-up ends in
\* PROMO_MAXED, charged and active.
ClaimPromo(r) ==
  /\ requests[r].at = "claim"
  /\ IF used < MaxUses
     THEN Go(r, "use") /\ used' = used + 1
     ELSE Go(r, "refused") /\ UNCHANGED used
  /\ UNCHANGED <<access, subs, charges, webhooks>>

RecordUse(r) ==
  /\ requests[r].at = "use"
  /\ Go(r, "done")
  /\ subs' = [subs EXCEPT ![requests[r].email].promo = TRUE]
  /\ UNCHANGED <<access, charges, used, webhooks>>

\* A call of Square or of the database fails, or the server stops: nothing is undone.
Fail(r) ==
  /\ requests[r].at \notin Ended \cup {"idle"}
  /\ Go(r, "failed")
  /\ UNCHANGED <<access, subs, charges, used, webhooks>>
-----------------------------------------------------------------------------
(* Webhooks, in any order; cancellation by the subscriber is handled as they are. *)

\* What a status of the subscriber is bridged to; the trial of a pending subscription
\* is not.
BridgedTo == [active |-> "active", past_due |-> "suspended", canceled |-> "cancelled",
              expired |-> "cancelled", trial |-> "none"]

\* Payments, failures and deletions find the subscriber by customer, the states of a
\* subscription by square_subscription_id.
Notify(w, e) ==
  /\ webhooks[w] = Idle
  /\ e \in Subscribed
  /\ \E s \in IF subs[e].square THEN Statuses ELSE {"active", "past_due", "canceled"} :
       /\ SetStatus(e, s)
       /\ webhooks' = [webhooks EXCEPT ![w] =
            IF BridgedTo[s] = "none" THEN Idle
            ELSE [to |-> BridgedTo[s], merchant |-> subs[e].merchant]]
  /\ UNCHANGED <<access, charges, used, requests>>

\* Suspending and cancelling spare a platform owner; activating does not look.
Bridge(w) ==
  LET m == webhooks[w].merchant
  IN /\ webhooks[w] # Idle
     /\ webhooks' = [webhooks EXCEPT ![w] = Idle]
     /\ access' = IF webhooks[w].to # "active" /\ access[m] = "platform_owner" THEN access
                  ELSE [access EXCEPT ![m] = webhooks[w].to]
     /\ UNCHANGED <<subs, charges, used, requests>>

WebhookFails(w) ==
  /\ webhooks[w] # Idle
  /\ webhooks' = [webhooks EXCEPT ![w] = Idle]
  /\ UNCHANGED <<access, subs, charges, used, requests>>
-----------------------------------------------------------------------------
(* Administration, jobs and reads that write. *)

\* A refund ends the subscription of the subscriber only.
Refund(e) ==
  /\ e \in Subscribed
  /\ charges[e] > 0
  /\ SetStatus(e, "canceled")
  /\ UNCHANGED <<access, charges, used, requests, webhooks>>

\* Asking for the status of a trial or a period that has ended.
CheckStatus(e) ==
  /\ e \in Subscribed
  /\ subs[e].status \in {"trial", "active"}
  /\ SetStatus(e, "expired")
  /\ UNCHANGED <<access, charges, used, requests, webhooks>>

RevertPromo(e) ==
  /\ e \in Subscribed
  /\ subs[e].status = "active"
  /\ subs[e].promo
  /\ subs' = [subs EXCEPT ![e].promo = FALSE]
  /\ UNCHANGED <<access, charges, used, requests, webhooks>>

SetAccess(m, from, to) ==
  /\ access[m] \in from
  /\ access' = [access EXCEPT ![m] = to]
  /\ UNCHANGED <<subs, charges, used, requests, webhooks>>

ExpireTrial(m)       == SetAccess(m, {"trial"}, "expired")
ExtendTrial(m)       == SetAccess(m, {"expired", "suspended"}, "trial")
DeactivateMerchant(m) == SetAccess(m, Access, "expired")
CompMerchant(m)      == SetAccess(m, Access, "active")
-----------------------------------------------------------------------------
SignUp(r) ==
  \/ InsertSubscriber(r) \/ Pay(r) \/ SquareSubscribe(r) \/ ActivateSubscriber(r)
  \/ ActivateMerchant(r) \/ ClaimPromo(r) \/ RecordUse(r)

Next ==
  \/ \E r \in Requests, e \in Emails, m \in Merchants \cup {NoMerchant} : Submit(r, e, m)
  \/ \E r \in Requests : SignUp(r) \/ Fail(r)
  \/ \E w \in Workers, e \in Emails : Notify(w, e)
  \/ \E w \in Workers : Bridge(w) \/ WebhookFails(w)
  \/ \E e \in Emails : Refund(e) \/ CheckStatus(e) \/ RevertPromo(e)
  \/ \E m \in Merchants \ {Owner} :  \* administrators leave the owner alone
       ExpireTrial(m) \/ ExtendTrial(m) \/ DeactivateMerchant(m) \/ CompMerchant(m)

Spec == Init /\ [][Next]_vars
-----------------------------------------------------------------------------
(* Properties. *)

\* Sign-ups that validate one code at a time do not use it more than max_uses times, and
\* every subscriber that carries it has been counted.
PromoLimit ==
  /\ used <= MaxUses
  /\ Cardinality({e \in Emails : subs[e].promo}) <= used

\* Two sign-ups of one address, both of which found it free, charge one card once.
ChargedOnce == \A e \in Emails : charges[e] <= 1

\* A sign-up whose charged card lost the promo code to another sign-up has still made
\* its subscriber one that the webhooks of its subscription find.
MaxedIsServed ==
  \A r \in Requests, e \in Emails :
    requests[r].at \in {"done", "refused"} /\ requests[r].email = e
      => subs[e].square
=============================================================================
