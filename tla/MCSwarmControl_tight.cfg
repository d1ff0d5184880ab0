SPECIFICATION Spec

CONSTANTS
    Contract <- MCTwo
    Budget <- MCBudgetTwo
    Team <- MCTeamTight
    MaxConcurrency = 2
    Worktree <- MCWorktreeTwo
    WriteScope <- MCDisjointTwo
    Pred <- MCPredTwo
    LeaseTtl = 1
    Key = {k1, k2}
    DeliveryId = {1}
    Deltas <- MCOne
    Reports <- MCMixed
    Outcomes <- MCCompleted
    Commit = {base}
    Base = base
    MaxTime = 1
    None = None

SYMMETRY MCKeySymmetry

INVARIANTS
    TypeOK
    LedgerWithinTeam
    ChargedExactlyOnce
