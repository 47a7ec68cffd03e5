CONSTANTS
    Val <- MCVal
    Honest <- MCHonest
    Power <- MCPower
    Rank <- MCRank
    Payload <- MCPayload
    ByzNames <- MCByz
    Framable <- MCFramable
    Loaded <- MCLoaded
    MaxHeight = 3
    MaxRound = 1
    MaxCrashes = 2
    Nil = Nil
SPECIFICATION MCSpec
CHECK_DEADLOCK FALSE
INVARIANTS
    TypeOK
    OneBlockVotePerHeight
    CertificatesAgree
    HonestNotSlashed
    IndInv
