SPECIFICATION Spec
CONSTANTS
    committed_subdags_per_block = 1
    Subdags <- SubdagsOneByOne
    CommitLogs <- LogsOneByOne
    None = None
    PromptPuller = FALSE
    MaxLost = 1
    MaxReplays = 1
    MaxPushFailures = 1
    MaxEpoch = 1
INVARIANT
    NoLockCycle
CHECK_DEADLOCK FALSE
