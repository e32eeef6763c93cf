SPECIFICATION TabSpec
CONSTANTS
    Urls = {u1, u2}
    None = none
    Limit = 2
    MaxSends = 5
    MaxMoves = 3
    MaxAsked = 3
    MaxShifts = 2
    MaxRefusals = 1
    MaxTurns = 2
    MaxLosses = 3
    MaxLessons = 3
    Shares = {30, 70}
    Fallback = 50
INVARIANTS
    PanesFollowChoices
PROPERTIES
    RefinesPipe
    EndsTogether
    NothingWaits
    PageCatchesUp
CHECK_DEADLOCK FALSE
