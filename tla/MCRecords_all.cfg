SPECIFICATION RecordsSpec
CONSTANTS
    Lanes <- AllLanes
    Writer = {"w1", "w2"}
    MaxRows = 4
    MaxKills = 2
    NewlineLost = FALSE
    Putter = {"p1", "p2"}
    JobRunner = {"j1", "j2", "j3"}
    Absent = Absent
    Proposal = {"p", "q"}
    Proposer <- MCProposer
    Executable = {"q"}
    Agent = {"ann", "bob"}
    Approvers = {"ann", "bob"}
    Adapter = {"a1", "a2"}
    MaxDeaths = 1
    ReportsPrior = TRUE
    Original = "original"
    Peer = {"ann", "bob"}
    Attempt = {"x"}
    MaxLeases = 2
    MaxCalls = 2
    Unowned = Unowned
    Repetitions = 3
    Floor = 1
    Value = {0, 1, 2}
    RequireControls = TRUE
    Candidate = {"c1", "c2", "c3"}
    Objective = {"o1", "o2"}
    Missing = Missing
    Tolerance <- MCTolerance
    Settler = {"s1", "s2"}
    Earns <- MCEarns
    Costs <- MCCosts
    Namesake = {"s2"}
    Hanging = {"s1"}
    FixtureAmount = 1
    MaxFixtures = 2
    NoOne = "no one"
    Dispatch = {"d1", "d2", "d3"}
    CardOf <- MCCardOf
    Workers = 2
    Builders = 1
    FixtureCard = "c2"
    Cap = 2
    Price = {2}
    MaxDay = 2
    MaxTestRows = 1
    MaxEngineRuns = 2
    MaxMishaps = 1
    Deploy = {"e1", "e2"}
    Runner <- MCRunner
    Person = {"ann", "bob"}
    MaxHead = 2
    MaxTurns = 1
    MaxFaults = 1
    Nothing = Nothing
    Axes <- MCAxes
    Pinned = 1
    BaseAttempts = 2
    MaxAttempts = 3
    Window = 3
    MaxPasses = 2
    MaxEdits = 1
    NoGrade = NoGrade
    HalfGrade = HalfGrade
    NoModel = NoModel
    Refused = Refused
    NoMark = NoMark

INVARIANTS
    StoreIsWhole
    RefinementIsGoverned
    AccessFollowsLeases
    VerdictIsFair
    WalletIsExact
    CostIsBounded
    GradingIsRuled
PROPERTIES
    DeployIsChecked
    RecordsSettle
CHECK_DEADLOCK FALSE
