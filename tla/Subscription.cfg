CONSTANTS
  Requests = {r1, r2}
  Emails = {e1, e2}
  Workers = {w1}
  Merchants = {owner, m1}
  Owner = owner
  NoMerchant = NoMerchant
  NoEmail = NoEmail
  MaxUses = 1
SPECIFICATION Spec
INVARIANTS PromoLimit ChargedOnce MaxedIsServed
SYMMETRY Symmetry
