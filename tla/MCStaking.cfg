CONSTANTS
    Addr <- MCAddr
    GenesisStake <- MCGenesisStake
    Amounts = {3}
    AmountMax = 6
    MinSelfStake = 3
    UnbondingPeriod = 1
    MaxValidators = 2
    DoubleSignDen = 2
    DowntimeDen = 4
    JailBlocks = 1
    MissedThreshold = 2
    MaxHeight = 1
    MaxQueue = 2
    MaxRestarts = 1
SPECIFICATION Spec
CHECK_DEADLOCK FALSE
INVARIANTS
    TypeOK
    UnslashedBacked
    SharesCoverDelegations
    TombstonedOut
    JailServed
PROPERTIES
    SlashedOnce
