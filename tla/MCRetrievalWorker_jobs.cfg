SPECIFICATION FairSpec
CONSTANTS
    s1 = s1
    i1 = i1
    p1 = p1
    Searches <- OneSearch
    Ingests <- OneIngest
    Probes <- OneProbe
    MaxCrashes = 2
INVARIANT NoOrphanThread
INVARIANT IdleWindowCovers
PROPERTY ReplacementSurvives
PROPERTY CallsSettle
CHECK_DEADLOCK FALSE
