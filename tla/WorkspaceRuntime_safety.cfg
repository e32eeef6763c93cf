SPECIFICATION Spec
CONSTANTS
  Workspaces = {w1, w2}
  MaxEnsures = 2
  MaxOps = 1
  MaxTries = 1
  MaxDeaths = 1
  OpKinds = {"stop", "remove", "restart"}
  Caps = {1, 2}
  Fits = {"oldimage"}
  Flaky = TRUE
SYMMETRY Interchangeable
INVARIANTS SlotAccounting NoStaleCache NewestIsJoined
