CONSTANTS
    Addr <- MCAddr
    Genesis <- MCGenesis
    Tx <- MCTxFaulty
    AmountMax = 6
    NonceMax = 9
    MaxHeight = 2
    MaxBlockTxs = 2
    MaxCrashes = 0
    FaultyPeers = TRUE
    Bogus = Bogus
SPECIFICATION Spec
CHECK_DEADLOCK FALSE
INVARIANTS
    TypeOK
    Conservation
    CreditNeverOverflows
PROPERTIES
    HonestBlockAccepted
