CONSTANTS
    Networks = {"local", "testnet"}
    Phrases = {"p"}
    Recipients <- MCRecipients
    Typed <- MCTyped
    Digits = 2
    Fee = 1
    Funds = 102
    NodePrefix = "sprx"
    NodeHash = "blake3"
    NodeOrder = "as declared"
    MaxSends = 2
    MaxEncrypting = 2
    MaxFetching = 2
    Matters = {"payments"}
SPECIFICATION MCSpec
CHECK_DEADLOCK FALSE
INVARIANTS
    HonestPaymentTaken
