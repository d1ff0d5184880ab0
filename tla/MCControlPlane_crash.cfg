SPECIFICATION Spec

CONSTANTS
    Request = {r1, r2}
    Owner = {o1}
    Key = {k1, k2}
    Content <- MCMixed
    Kind <- MCKindMixed
    Guarded = {"message"}
    Supported = {"message", "cancelAgent"}
    Owns <- MCEveryone
    HasHandler = FALSE
    Crashes = TRUE
    Ttl = 1
    MaxCommands = 2
    MaxTime = 1
    None = None

INVARIANTS
    ActuatedAtMostOnce
    ReceiptsAreHonest
    JournalIsSound

PROPERTIES
    MailboxSpec

CHECK_DEADLOCK FALSE
