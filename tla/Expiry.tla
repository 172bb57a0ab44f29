-------------------------------- MODULE Expiry --------------------------------
(***************************************************************************)
(* Expiry discounts: the tier an item is in for the days left until it     *)
(* expires, the product sets of Square's pricing rules that discount the   *)
(* items of the automatic tiers, and what changes tiers and dates under a  *)
(* run: staff, purchase orders, receipts, and the catalog sync, which      *)
(* copies the date kept as an attribute at Square over the local one.      *)
(*                                                                         *)
(* A tier is its rank (0 is OK, Expired is EXPIRED), and a date is the tier   *)
(* it calls for today.                                                     *)
(***************************************************************************)
EXTENDS Integers, Sequences, SequencesExt

CONSTANTS
  Variations, \* variations with a row in variation_expiration
  Runners,    \* runs of the automation, an evaluation or an application at a time
  Expired,    \* the most urgent tier, EXPIRED
  AutoTiers   \* the tiers that discount by themselves, AUTO25 and AUTO50

ASSUME TierAssumption == Expired \in Nat /\ AutoTiers \subseteq 1 .. (Expired - 1)

VARIABLES
  due,     \* variation_expiration: the tier the date calls for, or NoDate, or Never
  attr,    \* the same, in the attributes of the variation at Square
  tier,    \* variation_discount_status: current_tier_id, or NoTier without a row
  flagged, \* needs_manual_review
  applied, \* the tier whose discounted price is recorded, or NoTier
  live,    \* variations: not marked is_deleted
  rules,   \* at Square: the product sets of the pricing rule of each automatic tier
  runs,    \* what each runner has read and is about to do
  cleared  \* history: a purchase order took the date away, and staff gave none since

vars == <<due, attr, tier, flagged, applied, live, rules, runs, cleared>>
-----------------------------------------------------------------------------
NoDate == -1  \* no expiration_date
Never  == -2  \* does_not_expire
NoTier == -1
Keep   == -1  \* a verdict: the tier stays
Regress == -2 \* a verdict: the tier would fall
Tiers  == 0 .. Expired
Dates  == Tiers \cup {NoDate, Never}

Run == [do : {"idle", "evaluate", "read", "search", "write", "record", "sweep"},
        then : BOOLEAN,                     \* the discounts are applied afterwards
        plan : [Variations -> Tiers \cup {Keep, Regress}],
        todo : SUBSET AutoTiers,            \* tiers still to apply
        items : SUBSET Variations,          \* what it read of the first of them
        valid : SUBSET Variations,          \* those of them Square confirmed
        found : Nat,                        \* the product set it found, 0 for none
        fresh : BOOLEAN]                    \* whose version is still the one it read
Plain == [v \in Variations |-> Keep]
Idle  == [do |-> "idle", then |-> FALSE, plan |-> Plain, todo |-> {}, items |-> {},
          valid |-> {}, found |-> 0, fresh |-> TRUE]

TypeOK ==
  /\ due \in [Variations -> Dates] /\ attr \in [Variations -> Dates]
  /\ tier \in [Variations -> Tiers \cup {NoTier}]
  /\ flagged \in [Variations -> BOOLEAN]
  /\ applied \in [Variations -> AutoTiers \cup {NoTier}]
  /\ live \in [Variations -> BOOLEAN]
  /\ rules \in [AutoTiers -> Seq(SUBSET Variations)]
  /\ runs \in [Runners -> Run]
  /\ cleared \in [Variations -> BOOLEAN]

Init ==
  /\ due = [v \in Variations |-> NoDate] /\ attr = due
  /\ tier = [v \in Variations |-> NoTier] /\ applied = tier
  /\ flagged = [v \in Variations |-> FALSE] /\ cleared = flagged
  /\ live = [v \in Variations |-> TRUE]
  /\ rules = [t \in AutoTiers |-> <<>>]
  /\ runs = [r \in Runners |-> Idle]

Set(r, run) == runs' = [runs EXCEPT ![r] = run]
InTier(t)   == {v \in Variations : tier[v] = t /\ live[v]}
Urgent(ts)  == CHOOSE t \in ts : \A u \in ts : u <= t
-----------------------------------------------------------------------------
(* Staff, purchase orders and the sync. *)

\* A date is saved, pushed to Square if Square takes it, and the tier follows at once.
SaveDate(v, d) ==
  /\ due' = [due EXCEPT ![v] = d]
  /\ \E taken \in BOOLEAN : attr' = IF taken THEN [attr EXCEPT ![v] = d] ELSE attr
  /\ tier' = [tier EXCEPT ![v] = d]
  /\ flagged' = [flagged EXCEPT ![v] = FALSE]
  /\ cleared' = [cleared EXCEPT ![v] = FALSE]
  /\ UNCHANGED <<applied, live, rules, runs>>

\* An empty date is saved as one long past; the evaluation will find it expired.
SaveNoDate(v) ==
  /\ due' = [due EXCEPT ![v] = Expired]
  /\ \E taken \in BOOLEAN : attr' = IF taken THEN [attr EXCEPT ![v] = Expired] ELSE attr
  /\ cleared' = [cleared EXCEPT ![v] = FALSE]
  /\ UNCHANGED <<tier, flagged, applied, live, rules, runs>>

Forget(vs) ==
  /\ tier' = [v \in Variations |-> IF v \in vs THEN NoTier ELSE tier[v]]
  /\ applied' = [v \in Variations |-> IF v \in vs THEN NoTier ELSE applied[v]]
  /\ flagged' = [v \in Variations |-> flagged[v] /\ v \notin vs]

\* An item that does not expire leaves the discounts.
SaveNever(v) ==
  /\ due' = [due EXCEPT ![v] = Never]
  /\ \E taken \in BOOLEAN : attr' = IF taken THEN [attr EXCEPT ![v] = Never] ELSE attr
  /\ Forget({v})
  /\ cleared' = [cleared EXCEPT ![v] = FALSE]
  /\ UNCHANGED <<live, rules, runs>>

\* The catalog sync copies the attributes, where Square has any, and leaves the tier.
SyncCatalog(v) ==
  /\ attr[v] # NoDate
  /\ due' = [due EXCEPT ![v] = attr[v]]
  /\ UNCHANGED <<attr, tier, flagged, applied, live, rules, runs, cleared>>

\* A purchase order for a discounted item takes it out of its tier and drops the date.
Reorder(v) ==
  /\ tier[v] \in AutoTiers
  /\ tier' = [tier EXCEPT ![v] = 0]
  /\ applied' = [applied EXCEPT ![v] = NoTier]
  /\ due' = [due EXCEPT ![v] = IF @ = Never THEN Never ELSE NoDate]
  /\ cleared' = [cleared EXCEPT ![v] = TRUE]
  /\ UNCHANGED <<attr, flagged, live, rules, runs>>

\* A receipt, a larger stock, or the last unit expected to be sold at a discount.
AskForReview(v) ==
  /\ tier[v] # NoTier
  /\ ~flagged[v]
  /\ flagged' = [flagged EXCEPT ![v] = TRUE]
  /\ UNCHANGED <<due, attr, tier, applied, live, rules, runs, cleared>>

\* Staff settle a flag: the tier the date calls for, or the present one.
Resolve(v) ==
  /\ tier[v] # NoTier
  /\ \/ due[v] \in Tiers /\ tier' = [tier EXCEPT ![v] = due[v]]
     \/ flagged[v] /\ UNCHANGED tier
  /\ flagged' = [flagged EXCEPT ![v] = FALSE]
  /\ cleared' = [cleared EXCEPT ![v] = FALSE]
  /\ UNCHANGED <<due, attr, applied, live, rules, runs>>

\* Days pass, and a date calls for the next tier.
Age(v) ==
  \E d \in {due[v], attr[v]} \cap 0 .. (Expired - 1) :
    /\ due' = [due EXCEPT ![v] = IF @ = d THEN d + 1 ELSE @]
    /\ attr' = [attr EXCEPT ![v] = IF @ = d THEN d + 1 ELSE @]
    /\ UNCHANGED <<tier, flagged, applied, live, rules, runs, cleared>>
-----------------------------------------------------------------------------
(* Runs. *)

\* Mutant: a regression is taken for no change.
Lenient(v) ==
  IF ~live[v] \/ due[v] \notin Tiers \/ due[v] <= tier[v] THEN Keep ELSE due[v]

\* What an evaluation makes of an item: more urgent moves it, less urgent is for staff.
Verdict(v) ==
  IF ~live[v] \/ due[v] \notin Tiers \/ due[v] = tier[v] THEN Keep
  ELSE IF due[v] < tier[v] THEN Regress
  ELSE due[v]

\* All rows are read at once, then written one by one.
Evaluate(r, then) ==
  /\ runs[r].do = "idle"
  /\ Set(r, [Idle EXCEPT !.do = "evaluate", !.then = then,
                         !.plan = [v \in Variations |-> Verdict(v)]])
  /\ UNCHANGED <<due, attr, tier, flagged, applied, live, rules, cleared>>

Applying == [Idle EXCEPT !.do = "read", !.todo = AutoTiers]

EvaluateRow(r) ==
  LET rows == {v \in Variations : runs[r].plan[v] # Keep} IN
  /\ runs[r].do = "evaluate"
  /\ \/ \E v \in rows :
          LET to == runs[r].plan[v] IN
          /\ flagged' = [flagged EXCEPT ![v] = to = Regress /\ (@ \/ tier[v] # NoTier)]
          /\ tier' = IF to = Regress THEN tier ELSE [tier EXCEPT ![v] = to]
          /\ Set(r, [runs[r] EXCEPT !.plan[v] = Keep])
     \/ /\ rows = {}
        /\ Set(r, IF runs[r].then THEN Applying ELSE Idle)
        /\ UNCHANGED <<tier, flagged>>
  /\ UNCHANGED <<due, attr, applied, live, rules, cleared>>

Apply(r) ==
  /\ runs[r].do = "idle"
  /\ Set(r, Applying)
  /\ UNCHANGED <<due, attr, tier, flagged, applied, live, rules, cleared>>

\* Mutant: a tier without items is passed over, and its pricing rule stays.
ReadFilled(r) ==
  /\ runs[r].do = "read"
  /\ Set(r, IF runs[r].todo = {} THEN [runs[r] EXCEPT !.do = "sweep"]
            ELSE LET t == Urgent(runs[r].todo) IN
                 IF InTier(t) = {} THEN [runs[r] EXCEPT !.todo = @ \ {t}]
                 ELSE [runs[r] EXCEPT !.do = "search", !.items = InTier(t)])
  /\ UNCHANGED <<due, attr, tier, flagged, applied, live, rules, cleared>>

\* The items of the next automatic tier, none included: its rule must be emptied then.
ReadTier(r) ==
  /\ runs[r].do = "read"
  /\ Set(r, IF runs[r].todo = {} THEN [runs[r] EXCEPT !.do = "sweep"]
            ELSE [runs[r] EXCEPT !.do = "search", !.items = InTier(Urgent(runs[r].todo))])
  /\ UNCHANGED <<due, attr, tier, flagged, applied, live, rules, cleared>>

\* Square is asked which items exist, and for the product set of the tier by its name.
Search(r) ==
  LET t == Urgent(runs[r].todo)
      go(vs) == Set(r, [runs[r] EXCEPT !.do = "write", !.valid = vs,
                                       !.found = Len(rules[t]), !.fresh = TRUE])
  IN
  /\ runs[r].do = "search"
  /\ go(runs[r].items)
  /\ UNCHANGED <<due, attr, tier, flagged, applied, live, rules, cleared>>

\* Items Square could not be asked about, one batch or all, are taken for deleted: they
\* are marked so, then leave the discounts.  An error of either statement is swallowed.
SearchFails(r) ==
  /\ runs[r].do = "search"
  /\ \E lost \in SUBSET runs[r].items \ {{}}, statements \in 0 .. 2 :
       /\ live' = [v \in Variations |-> live[v] /\ (statements = 0 \/ v \notin lost)]
       /\ IF statements = 2 THEN Forget(lost) ELSE UNCHANGED <<tier, flagged, applied>>
       /\ Set(r, [runs[r] EXCEPT !.do = "write", !.valid = runs[r].items \ lost, !.fresh = TRUE,
                                 !.found = Len(rules[Urgent(runs[r].todo)])])
  /\ UNCHANGED <<due, attr, rules, cleared>>

\* The set found is replaced if its version is the one read, or deleted when the tier is
\* empty; a set that was not found is created, whoever created one meanwhile.
Write(r) ==
  LET t   == Urgent(runs[r].todo)
      n   == runs[r].found
      vs  == runs[r].valid
      old == rules[t]
  IN
  /\ runs[r].do = "write"
  /\ vs # {} => runs[r].fresh
  /\ rules' = [rules EXCEPT ![t] =
       IF vs = {} THEN IF n \in 1 .. Len(old) THEN RemoveAt(old, n) ELSE old
       ELSE IF n = 0 THEN Append(old, vs) ELSE [old EXCEPT ![n] = vs]]
  /\ runs' = [u \in Runners |->
       IF u = r THEN [runs[r] EXCEPT !.do = "record"]
       ELSE IF runs[u].do = "write" /\ Urgent(runs[u].todo) = t
         THEN [runs[u] EXCEPT !.fresh = (n = 0 /\ runs[u].found = 0)]
       ELSE runs[u]]
  /\ UNCHANGED <<due, attr, tier, flagged, applied, live, cleared>>

Done(run) == [run EXCEPT !.do = "read", !.todo = @ \ {Urgent(@)}, !.items = {},
                         !.valid = {}, !.found = 0, !.fresh = TRUE]

\* The price is recorded in the row of each item read, whatever tier the row is in now.
Record(r) ==
  /\ runs[r].do = "record"
  /\ applied' = [v \in Variations |-> IF v \in runs[r].items /\ tier[v] # NoTier
                                        THEN Urgent(runs[r].todo) ELSE applied[v]]
  /\ Set(r, Done(runs[r]))
  /\ UNCHANGED <<due, attr, tier, flagged, live, rules, cleared>>

\* Square refuses, or the database does: the tier is left for the next run.
TierFails(r) ==
  /\ runs[r].do \in {"search", "write", "record"}
  /\ Set(r, Done(runs[r]))
  /\ UNCHANGED <<due, attr, tier, flagged, applied, live, rules, cleared>>

\* The prices recorded in rows that are in no automatic tier are removed.
Sweep(r) ==
  /\ runs[r].do = "sweep"
  /\ applied' = [v \in Variations |-> IF tier[v] \in Tiers \ AutoTiers THEN NoTier ELSE applied[v]]
  /\ Set(r, Idle)
  /\ UNCHANGED <<due, attr, tier, flagged, live, rules, cleared>>

\* The process stops.
Crash(r) ==
  /\ runs[r].do # "idle"
  /\ Set(r, Idle)
  /\ UNCHANGED <<due, attr, tier, flagged, applied, live, rules, cleared>>
-----------------------------------------------------------------------------
Work(r) ==
  \/ EvaluateRow(r) \/ ReadTier(r) \/ Search(r) \/ Write(r) \/ Record(r) \/ Sweep(r)

Next ==
  \/ \E v \in Variations :
       \/ \E d \in Tiers : SaveDate(v, d)
       \/ SaveNoDate(v) \/ SaveNever(v) \/ SyncCatalog(v) \/ Reorder(v)
       \/ AskForReview(v) \/ Resolve(v) \/ Age(v)
  \/ \E r \in Runners :
       \/ \E then \in BOOLEAN : Evaluate(r, then)
       \/ Apply(r) \/ Work(r) \/ SearchFails(r) \/ TierFails(r) \/ Crash(r)

\* The automation runs every morning, whatever else was run, and what runs goes on; the
\* process does not stop in the middle of every evaluation.
Fairness ==
  /\ SF_vars(\E r \in Runners : Evaluate(r, TRUE))
  /\ \A r \in Runners : SF_vars(EvaluateRow(r)) /\ WF_vars(Work(r) \/ TierFails(r))

Spec == Init /\ [][Next]_vars /\ Fairness
-----------------------------------------------------------------------------
(* Properties. *)

Discounted(t) == UNION {rules[t][i] : i \in 1 .. Len(rules[t])}

Follows ==
  /\ \A t \in AutoTiers : Discounted(t) = InTier(t)
  /\ \A v \in Variations : live[v] => applied[v] = IF tier[v] \in AutoTiers THEN tier[v] ELSE NoTier

\* Only runs go on, and nothing fails.
Calm == \E r \in Runners : Work(r) \/ Apply(r) \/ \E then \in BOOLEAN : Evaluate(r, then)

\* Whatever was changed under a run, or failed in one: when nothing but runs goes on, the
\* items discounted at Square become those of the automatic tiers, and the prices recorded
\* those of their tiers.  The rule of an empty tier is updated too, "to clear out items
\* that moved to other tiers".  For one run at a time: two at once may each create the
\* product set of a tier, and only the first of them is found again.
SquareFollows == <>[][Calm]_vars => <>[]Follows

\* An item whose discount is steeper than its date calls for is not left so unseen: again
\* and again its date calls for more, its tier is lowered, or it is up for review.
RegressionSeen ==
  \A v \in Variations :
    []<>(~(due[v] \in Tiers /\ due[v] < tier[v]) \/ flagged[v] \/ ~live[v])

=============================================================================
