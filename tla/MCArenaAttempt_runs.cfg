SPECIFICATION Spec

CONSTANTS
    Attempt = {a1, a2}
    Delivery = {d1, d2}
    Capacity = 1
    Declares = TRUE
    MaxCrashes = 1
    None = None

SYMMETRY MCSymmetry

INVARIANTS
    AtMostOneLaunch
    EndedIsTerminal

PROPERTIES
    CancellationWins
    LiveRunsSpared

CHECK_DEADLOCK FALSE
