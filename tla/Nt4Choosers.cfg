SPECIFICATION FairChooserSpec
CONSTANTS
  Sockets = {s1, s2}
  Endpoints = {u1, u2}
  Choosers = {c1}
  Options = {o1, o2}
  Ids = {i1, i2}
  Null = null
  MaxEvents = 3
INVARIANTS PublishedFirst QuietAgrees
PROPERTIES PollsReconnect
CHECK_DEADLOCK FALSE
