SPECIFICATION FairSpec
CONSTANTS
  MaxSwaps = 2
  MaxFaults = 1
  MaxInputs = 4
INVARIANTS NeverSilentlyStale PreviewIsCurrent HeldOnlyWhenCaptured
PROPERTIES SwapsSettle ReleaseReachesRobot
CHECK_DEADLOCK FALSE
