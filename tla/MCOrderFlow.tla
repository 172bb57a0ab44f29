----------------------------- MODULE MCOrderFlow -----------------------------
(* Instances of OrderFlow for TLC. *)
EXTENDS OrderFlow, TLC

CONSTANTS h1, h2, h3

\* A reward's free line, a line made free by hand, two rewards at once, one of them
\* spread over its line, an order without lines, and a line over which a reward is
\* spread that the order refers to by its pricing rule.
Sale(full, part, byRule, manual, paid) ==
  [full |-> full, part |-> part, byRule |-> byRule, manual |-> manual, paid |-> paid]
Sales ==
  {Sale({1}, {},  {},  FALSE, TRUE),
   Sale({},  {},  {},  TRUE,  TRUE),
   Sale({1}, {2}, {},  FALSE, FALSE),
   Sale({},  {},  {},  FALSE, FALSE),
   Sale({},  {2}, {2}, FALSE, FALSE)}

\* The webhooks of one sale, with the job, and with the audit.
Mix(a, b, c) == [h \in Handlers |-> CASE h = h1 -> a [] h = h2 -> b [] h = h3 -> c]
SaleMixes ==
  {Mix("order", "payment", "event"), Mix("order", "payment", "catchup"),
   Mix("order", "redeem", "audit")}
=============================================================================
