SPECIFICATION FairSpec
CONSTANTS
    K = 2
    Configs <- MCConfigs
    MaxCommits = 4
    MaxCrashes = 3
    MaxSetupErrors = 1
INVARIANTS
    FilesAreFollowed
    ChainFollowsTheLog
PROPERTIES
    
    CatchesUp
CHECK_DEADLOCK FALSE
