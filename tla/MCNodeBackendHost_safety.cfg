SPECIFICATION Spec
CONSTANTS
    Queries = {q1, q2}
    Flights = {f1}
    MaxLives = 2
    Stop = Stop
    NoModel = NoModel
    NoFlight = NoFlight
    Overlap = FALSE
SYMMETRY QuerySymmetry
INVARIANTS
    OneContext
    GeneratesOnResident
    ProbesFindTheDeviceFree
    DownIsUnloaded
    OldQueriesFail
CHECK_DEADLOCK FALSE
