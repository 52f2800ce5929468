SPECIFICATION MCSpec
CONSTANTS
    committed_subdags_per_block = 2
    Commits <- MCCommits
    Subdags <- MCSubdags
    Garbage = Garbage
    Undecodable = {Garbage}
    None = None
    MaxVec = 2
    MaxIndex = 5
    Transactions <- MCTransactions
    ParentNonces <- MCParentNonces
    BlockGasLimit = 5
    MaxBlobCount = 2
    SubdagsInBatch = 2
    MaxSlots = 4
INVARIANTS
    PendingIsTheRest
    CommitsCountWhole
    FilledRightly
    ProposalAsCommitted
    FollowsTheLoops
CHECK_DEADLOCK FALSE
