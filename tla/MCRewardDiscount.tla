--------------------------- MODULE MCRewardDiscount ---------------------------
(* Instances of RewardDiscount for TLC. *)
EXTENDS RewardDiscount, TLC

CONSTANTS g1, g2, g3, r1, r2, r3

Serially ==
  [callers |-> {"purchase", "retry", "redeem", "expire"},
   hazards |-> {"lost", "key_forgotten"}]
WithAdmin ==
  [callers |-> {"purchase", "sync", "check", "redeem", "expire"},
   hazards |-> {"lost", "merchant", "key_forgotten"}]
Overlapping ==
  [callers |-> {"purchase", "retry", "redeem", "expire"},
   hazards |-> {"overlap", "lost", "key_forgotten"}]
Faulty ==
  [callers |-> {"flush", "purchase", "retry", "redeem", "expire"},
   hazards |-> {"overlap", "open_tx", "delete_fails", "db_fails", "crash"}]
SyncRegimes   == {Serially, Overlapping}
FaultyRegimes == {WithAdmin, Faulty}

\* Ids are only compared, so that they may be exchanged.
Symmetry == Permutations(Groups) \cup Permutations(Rules)
=============================================================================
