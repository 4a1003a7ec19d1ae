SPECIFICATION FairSpec
CONSTANTS
    t1 = t1
    t2 = t2
    p1 = p1
    p2 = p2
    NoTab = NoTab
    Nothing = Nothing
    Tabs <- TwoTabs
    Profiles <- OneProfile
    MaxEpoch = 1
    MaxCuts = 2
    MaxLate = 1
    MaxSaves = 1
    Scope <- ScopeFail
PROPERTY ClearSpreads
PROPERTY PendingClearsHappen
INVARIANT NoClearUnderAHeldTurn
INVARIANT StaleViewIsNotified
CONSTRAINT LateOrCut
