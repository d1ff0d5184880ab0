SPECIFICATION Spec
CONSTANTS
    Contract <- MCContract
    Role <- MCRole
    Phases <- MCPhases
    After <- MCAfter
    Commit = {"k0", "k1"}
    Base = "k0"
    Criteria = {"c1"}
    Trusted = {"v"}
    None = None
    Raws <- MCRaws
    Attestations <- MCAttestations
    CanHang = {"t"}
    MaxCancels = 1

INVARIANTS
    AuthorizedMeansComplete
    StopsAndResultsAreTrue

PROPERTIES
    RunReports

CHECK_DEADLOCK FALSE
