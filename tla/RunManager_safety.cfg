SPECIFICATION Spec
CONSTANTS
    Workspaces = {w1}
    Connections = {c1}
    Modes = {"run", "debug", "build"}
    MaxRuns = 2
    MaxCrashes = 1
INVARIANTS
    SnapshotMatchesRow
    SnapshotIsNewest
    IdleClientsToldTerminal
PROPERTIES
    RefinesLifecycle
