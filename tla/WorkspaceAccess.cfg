SPECIFICATION Spec
CONSTANTS
    Jobs = {j1, j2}
    MaxImports = 1
    Nobody = Nobody
    Own = Own
    Sessions = {s1}
    RunSockets = {c1}
INVARIANTS
    RecordMatches
    EndedHoldsNothing
PROPERTIES
    DeletedStaysDown
    AbandonedIsSwept
CHECK_DEADLOCK FALSE
