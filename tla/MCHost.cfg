SPECIFICATION HostSpec
CONSTANTS
    MaxRuns = 2
    Stops = {k1, k2}
    Hosts = {h1}
    Modes = {"debug", "build"}
    People = {p1, p2}
    BootAdmins = {p1}
    Requests = {q1, q2}
    MaxRequests = 3
    MaxOutside = 1
    MaxRestarts = 1
    Homes = {home}
    Newest = 2
    Panels = {r1, r2}
    MaxChanges = 2
    MaxTools = 3
    MaxCrashes = 2
    Savers = {w1, w2}
    MaxSaves = 3
    MaxEdits = 2
    Uploads = {u1, u2}
    Assets = {a1, a2}
    Bundled = bundled
    Boxes = {b1, b2}
    LastPort = 3
    MaxPortFaults = 2
INVARIANTS
    StopKillsWhatItSaw
    RosterIsKept
    DataSurvives
    FilesAreWhole
    PortsAreOwn
SYMMETRY Interchangeable
CHECK_DEADLOCK FALSE
