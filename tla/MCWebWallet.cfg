CONSTANTS
    Networks = {"local", "testnet"}
    Phrases = {"p", "q"}
    Recipients <- MCRecipients
    Typed <- MCTyped
    Digits = 2
    Fee = 1
    Funds = 102
    NodePrefix = "sprax"
    NodeHash = "sha256"
    NodeOrder = "by name"
    MaxSends = 2
    MaxEncrypting = 2
    MaxFetching = 3
    Matters = {"payments", "balances"}
SPECIFICATION MCSpec
CHECK_DEADLOCK FALSE
INVARIANTS
    ButtonFollowsSend
    SubmittedWasTaken
PROPERTIES
    PaymentsImplemented
    BalanceSettles
    
