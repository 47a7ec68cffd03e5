CONSTANTS
    Networks = {"mainnet", "local"}
    FirstNetwork = "local"
    TotalPages <- MCTotalPages
    MaxPage = 2
    MaxRefreshes = 2
    MaxChanges = 1
    Ids = {"a", "b"}
    MaxPicks = 2
    Openings <- MCOpenings
    Wallets = {"web", "mobile"}
    Methods = {"getStatus", "getBlock"}
    Words = {"q1", "q2", "q3"}
    RecentsKept = 2
    MaxTimers = 2
SPECIFICATION Spec
CHECK_DEADLOCK FALSE
INVARIANTS
    ExplorerTypeOK
    RouteShowsItsRecord
    PageRendered
    WalletViewsAgree
    ButtonHasOneTimer
PROPERTIES
    FeedsSettle
    MenuStaysUnderPointer
