SPECIFICATION FairSpec
CONSTANTS
  Rooms = {c1, c2}
  Names = {alex}
  Cap = 1
  Cleaners = {"end", "sweep"}
  MaxJoins = 2
  MaxDeletes = 0
  MaxFaults = 2
PROPERTIES OverIsCleaned CleanersReturn
CHECK_DEADLOCK FALSE
