CONSTANTS
    Admins = {"root", "clerk"}
    Grants <- MCGrants
    Barred = {"clerk"}
    Tabs = {"dashboard", "app_users", "search_index", "blocks"}
    MaxTokens = 2
    MaxCalls = 2
    Flags = {"perps_enabled", "mainnet_enabled", "discover"}
    Critical = {"perps_enabled", "mainnet_enabled"}
    MaxRequests = 2
    MaxTyped = 2
    Projects = {"p", "q"}
    Names = {"ann", "bob"}
    MaxRetries = 1
    MaxPosts = 3
    Switches <- MCSwitches
SPECIFICATION Spec
CHECK_DEADLOCK FALSE
INVARIANTS
    WaitsForSomething
    EditsLand
PROPERTIES
    EndedSessionNoticed
    OnlyConfirmed
