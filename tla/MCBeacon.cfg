SPECIFICATION BeaconSpec
CONSTANTS
    ZERO = ZERO
    NoAddress = NoAddress
    t1 = t1
    t2 = t2
    Subdags <- MCSubdags
    d1 = d1
    d2 = d2
    p1 = p1
    Eth1Datas <- MCEth1Datas
    Bodies <- MCBodies
    Roots = {r1, r2}
    GenesisHash = GenesisHash
    None = None
    SLOTS_PER_EPOCH = 2
    SLOTS_PER_HISTORICAL_ROOT = 2
    EPOCHS_PER_HISTORICAL_VECTOR = 2
    MaxSlot = 2
    MaxSubdags = 2
    MaxBlocks = 3
    MaxRoots = 2
INVARIANTS
    BlocksTakeEffect
    RingsKeepWhatWasPut
    PayloadsChained
CHECK_DEADLOCK FALSE
