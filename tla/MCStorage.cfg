SPECIFICATION MCSpec
CONSTANTS
    Absent = Absent
    Torn = Torn
    NoVersion = NoVersion
    Pids = {p1, p2}
    ClientVersions = {v1, v2}
    MaxClock = 2
    MaxEnvs = 2
    MaxTransactions = 2
    MaxThreads = 2
    Keys = {1, 2}
    Values = {0, 1, 2}
    MaxRows = 3
INVARIANTS
    EndsAccountedFor
    VersionHeeded
    WritesReachTheTable
    ExclusiveAccess
    HistoryNamesTheClient
    DurableUnlessAsked
    WalksMeetEveryRow
PROPERTIES
    RefusedForTheHolder
SYMMETRY Symmetry
CHECK_DEADLOCK FALSE
