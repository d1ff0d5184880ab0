SPECIFICATION AutopilotSpec

CONSTANTS
    FloorNum = 4
    FloorDen = 5
    Card = {c1, c2}
    DirectCards = {c2}
    AutoMerge = {c1, c2}
    WorkerPicks <- MCPicks
    MaxRounds = 2
    Ceiling = 0
    RoundWorlds <- MCWorlds
    Checks <- MCChecks
    Policies <- MCPolicies
    Assessments <- MCAssessments
    Placements <- MCPlacements
    Origin = TRUE
    Toggles = TRUE
    MaxCrashes = 1
    MaxFaults = 1
    None = None
    Lanes = {"cycle", "split", "answer"}
    e1 = e1
    e2 = e2
    Qid = {e1, e2}
    Epic = {e1, e2}
    Contents = {1, 2}
    Ttl = 1
    MaxNow = 1
    MaxQueued = 2
    MaxShown = 2
    MaxCut = 1
    RepoOf <- MCRepoOf
    DepthOf <- MCDepthOf
    Grounds <- MCGrounds
    Splits <- MCSplits
    HandTitles <- MCHandTitles
    Coherent <- MCCoherent
    MaxDepth = 2
    MaxChildren = 2
    MaxBudget = 3
    MaxTriages = 2
    MaxDeaths = 1

INVARIANTS
    
    BoardIsSound

PROPERTIES
    MergedOnlyThroughGates
    NothingForgotten
    AnswersWhatWasShown
