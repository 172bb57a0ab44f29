CONSTANTS
  Variations = {v1}
  Runners = {r1}
  Expired = 4
  AutoTiers = {2, 3}
SPECIFICATION Spec
PROPERTIES SquareFollows RegressionSeen
