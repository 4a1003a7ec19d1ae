SPECIFICATION Spec
CONSTANTS
    t1 = t1
    t2 = t2
    p1 = p1
    p2 = p2
    NoTab = NoTab
    Nothing = Nothing
    Tabs <- TwoTabs
    Profiles <- TwoProfiles
    MaxEpoch = 1
    MaxCuts = 1
    MaxLate = 0
    MaxSaves = 1
    Scope <- ScopeAll
SYMMETRY Symmetry
INVARIANT ClearedStaysCleared
CONSTRAINT NothingReadopted
