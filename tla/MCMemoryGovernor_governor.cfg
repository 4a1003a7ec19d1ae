SPECIFICATION FairGovSpec
CONSTANTS
    c1 = c1
    c2 = c2
    c3 = c3
    i1 = i1
    Clients <- ThreeClients
    Ingests <- OneIngest
    MaxConcurrent = 1
    PressureWindow = 2
    RecoveryWindow = 2
    StaleAge = 1
    MaxEpochs = 1
    MaxTicks = 1
    Never = Never
INVARIANT SlotsAreUsed
INVARIANT OneTickAtATime
INVARIANT OverrideFollowsMonitor
PROPERTY DowngradeIsSustained
PROPERTY UpgradeIsSafe
PROPERTY QueuedGenerationLeaves
PROPERTY PausedIngestGoesOn
PROPERTY ProfileFollowsMemory
