SPECIFICATION Spec
CONSTANTS
    Threads = {t1, t2, t3}
    max_txs = 3
    MaxCursors = 2
    MaxCommits = 1
    MaxFailures = 1
INVARIANTS
    UsersKeptApart
    HeldCountsExact
    NeverMoreThanMaxTxs
    ClosedWithTheLastCursor
SYMMETRY Symmetry
CHECK_DEADLOCK FALSE
