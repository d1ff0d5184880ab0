SPECIFICATION Spec

CONSTANTS
    Contract <- MCTwo
    Budget <- MCBudgetTwo
    Team <- MCTeamRoomy
    MaxConcurrency = 2
    Worktree <- MCWorktreeTwo
    WriteScope <- MCDisjointTwo
    Pred <- MCPredTwo
    LeaseTtl = 1
    Key = {k1, k2}
    DeliveryId = {}
    Deltas = {}
    Reports <- MCOne
    Outcomes <- MCCompleted
    Commit = {base}
    Base = base
    MaxTime = 2
    None = None

INVARIANTS
    MemoryAndDiskAgree

PROPERTIES
    NothingIsUndone
