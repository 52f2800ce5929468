SPECIFICATION FairSpec
CONSTANTS
    CommitLogs <- LogsOfAllKinds
    Subdags <- SubdagsOfAllKinds
    None = None
    committed_subdags_per_block = 2
    MAX_PAYLOAD_BUFFER_SIZE = 2
    MaxReplays = 1
    MaxFailures = 1
INVARIANTS
    LoopKeepsStep
PROPERTIES
    ImplementsLedger
    EveryBatchExecuted
CHECK_DEADLOCK FALSE
