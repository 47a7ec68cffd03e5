CONSTANTS
    Addr <- MCAddr
    Genesis <- MCGenesis
    Tx <- MCTxCrash
    AmountMax = 4
    NonceMax = 9
    MaxHeight = 2
    MaxBlockTxs = 2
    MaxCrashes = 1
    FaultyPeers = TRUE
    Bogus = Bogus
SPECIFICATION Spec
CHECK_DEADLOCK FALSE
INVARIANTS
    Recoverable
    NeverMints
    IndexAgrees
    NoReplay
    StateIsReplay
PROPERTIES
    CommittedImmutable
