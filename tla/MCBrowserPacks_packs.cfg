SPECIFICATION FairSpec
CONSTANTS
    tab = tab
    pack = pack
    doc = doc
    Tabs <- OneTab
    Loading <- OneTab
    Browsing <- OneTab
    Packs <- OnePack
    Versions <- TwoVersions
    Docs <- OneDoc
    Contents <- Shared
    Supersedes <- Independent
    MaxRequests = 3
    MaxFaults = 1
    None = None
    Free = Free
INVARIANTS
    OneActive
    RowsHaveFiles
PROPERTIES
    ActivatedIsEmbedded
    StartsRepair
CHECK_DEADLOCK FALSE
