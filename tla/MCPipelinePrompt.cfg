SPECIFICATION FairSpec
CONSTANTS
    committed_subdags_per_block = 2
    Subdags <- SubdagsOfAllKinds
    CommitLogs <- LogsOfAllKinds
    None = None
    PromptPuller = TRUE
    MaxLost = 1
    MaxReplays = 1
    MaxPushFailures = 1
    MaxEpoch = 2
INVARIANTS
    PendingWaits
    EveryCommitInOneBlock
    TimestampsNeverGoBack
PROPERTIES
    ImplementsLedger
    EpochOfParent
    EveryBatchOrdered
    EveryExecutableMined
CHECK_DEADLOCK FALSE
