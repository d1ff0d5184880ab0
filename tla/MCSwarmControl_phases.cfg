SPECIFICATION Spec

CONSTANTS
    Contract <- MCThree
    Budget <- MCBudgetThree
    Team <- MCTeamRoomy
    MaxConcurrency = 2
    Worktree <- MCWorktreeThree
    WriteScope <- MCSharedThree
    Pred <- MCPredThree
    LeaseTtl = 1
    Key = {k1, k2, k3}
    DeliveryId = {}
    Deltas = {}
    Reports = {}
    Outcomes <- MCOutcomes
    Commit = {base, other}
    Base = base
    MaxTime = 2
    None = None

SYMMETRY MCKeySymmetry

INVARIANTS
    PhasesHold
