SPECIFICATION FairSpec

CONSTANTS
    Request = {r1}
    Owner = {o1, o2}
    Key = {k1}
    Content <- MCContents
    Kind <- MCKindOf
    Guarded = {"message", "cancelRun"}
    Supported = {"message", "cancelAgent", "cancelRun"}
    Owns <- MCEveryone
    HasHandler = FALSE
    Crashes = FALSE
    Ttl = 1
    MaxCommands = 1
    MaxTime = 2
    None = None

INVARIANTS
    FinalSweep

PROPERTIES
    TakenBeforeExpiry
    EveryCommandSettles

CHECK_DEADLOCK FALSE
