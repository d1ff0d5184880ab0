SPECIFICATION AutopilotSpec

CONSTANTS
    FloorNum = 4
    FloorDen = 5
    Card = {c1}
    DirectCards = {}
    AutoMerge = {c1}
    WorkerPicks <- MCOnes
    MaxRounds = 1
    Ceiling = 1
    RoundWorlds <- MCWorlds
    Checks <- MCPassed
    Policies <- MCPolicies
    Assessments <- MCValid
    Placements <- MCLocal
    Origin = TRUE
    Toggles = FALSE
    MaxCrashes = 0
    MaxFaults = 0
    None = None
    Lanes = {"cycle"}
    e1 = e1
    e2 = e2
    Qid = {e1, e2}
    Epic = {e1, e2}
    Contents = {1, 2}
    Ttl = 1
    MaxNow = 1
    MaxQueued = 2
    MaxShown = 2
    MaxCut = 1
    RepoOf <- MCRepoOf
    DepthOf <- MCDepthOf
    Grounds <- MCGrounds
    Splits <- MCSplits
    HandTitles <- MCHandTitles
    Coherent <- MCCoherent
    MaxDepth = 2
    MaxChildren = 2
    MaxBudget = 3
    MaxTriages = 2
    MaxDeaths = 1

INVARIANT MergesCertifiedHead

CHECK_DEADLOCK FALSE
