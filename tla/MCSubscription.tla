---------------------------- MODULE MCSubscription ----------------------------
EXTENDS Subscription, TLC

Symmetry == Permutations(Requests) \cup Permutations(Emails)
===============================================================================
