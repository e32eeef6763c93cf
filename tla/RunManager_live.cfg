SPECIFICATION FairSpec
CONSTANTS
    Workspaces = {w1}
    Connections = {}
    Modes = {"run", "debug"}
    MaxRuns = 2
    MaxCrashes = 0
PROPERTIES
    CanceledEnds
    SlotsAreReturned
