SPECIFICATION HostSpec
CONSTANTS
    Node = {"n1", "n2"}
    Rank <- MCRank
    Retain = 2
    Batch = 1
    PageSize = 2
    ReplayLimit = 2
    MaxEvents = 4
    MaxFaults = 2
    MaxClock = 1
    MaxReads = 3
    Tailed = "n1"
    Sid = {"s1"}
    Foreign = {"w"}
    Caller = {"ann", "bob", "eve"}
    Scopes <- MCScopes
    Cleared = {"ann"}
    AnyWindow = TRUE
    CloudOptIn = FALSE
    MaxCalls = 2
    MaxTurns = 2
    MaxRestarts = 1
    Nobody = "nobody"
    Feed = {"f1", "f2"}
    Scraped = {"f2"}
    Screen = 1
    Job = {"j"}
    Status = {"ok", "failed"}
    MaxYield = 2
    MaxMisses = 2
    MaxChanges = 2
    ArchiveCap = 3
    PageLimit = 2
    MaxAppends = 6
    MaxGenerations = 1
    Pane = {"p1", "p2", "p3"}
    SafeLow = 1
    Target = 2
    SafeHigh = 2
    HardCeiling = 2
    MaxFree = 2
    Host = {"h1", "h2"}
    Self = "h1"

INVARIANTS
    RailIsHonest
    SessionsAreGuarded
    FeedsAreWhole
    PoolIsSound

PROPERTIES
    RefusedStaysRefused
    HostDelivers

CHECK_DEADLOCK FALSE
