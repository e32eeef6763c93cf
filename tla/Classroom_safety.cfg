SPECIFICATION Spec
CONSTANTS
  Rooms = {c1}
  Names = {alex, blake}
  Cap = 2
  Cleaners = {"end", "sweep", "user"}
  MaxJoins = 3
  MaxDeletes = 1
  MaxFaults = 1
SYMMETRY InterchangeableNames
INVARIANTS StudentsApart
PROPERTIES RefinesRoster
CHECK_DEADLOCK FALSE
