SPECIFICATION FairSpec
CONSTANTS
  Workspaces = {w1, w2, w3}
  MaxEnsures = 3
  MaxOps = 0
  MaxTries = 0
  MaxDeaths = 0
  OpKinds = {}
  Caps = {1}
  Fits = {"oldimage"}
  Flaky = FALSE
INVARIANT OvershootBounded
PROPERTY EnsuresSettle
CHECK_DEADLOCK FALSE
