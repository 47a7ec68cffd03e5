CONSTANTS
    Val <- MCVal
    Honest <- MCVal
    Power <- MCPower
    Rank <- MCRank
    Payload = {p1}
    ByzNames = {}
    Framable = {}
    Loaded <- MCEmpty
    MaxHeight = 1
    MaxRound = 1
    MaxCrashes = 0
    Nil = Nil
SPECIFICATION Spec
CHECK_DEADLOCK FALSE
INVARIANTS
    NoForking
