CONSTANTS
    Val <- MCVal
    Power <- MCPower
    Rank <- MCRank
    MaxChanges = 6
SPECIFICATION Spec
INVARIANTS
    ProportionalShare
    PriorityBounded
PROPERTIES
    EveryoneProposes
