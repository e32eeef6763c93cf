SPECIFICATION Spec
CONSTANTS
  Sockets = {s1, s2}
  None = none
  Urls = {u1, u2}
  Channels = {k1, k2}
  Patches <- SomePatches
  MaxPatches = 1
  MaxStarts = 1
  MaxFaults = 1
  MaxInputs = 3
INVARIANTS OneUpstream CacheAgrees HeldIsSelected
SYMMETRY Interchangeable
