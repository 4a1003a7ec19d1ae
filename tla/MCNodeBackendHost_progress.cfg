SPECIFICATION FairSpec
CONSTANTS
    Queries = {q1}
    Flights = {f1}
    MaxLives = 1
    Stop = Stop
    NoModel = NoModel
    NoFlight = NoFlight
    Overlap = FALSE
PROPERTIES
    QueriesSettle
    PauseEnds
    StopCompletes
CHECK_DEADLOCK FALSE
