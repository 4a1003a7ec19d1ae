SPECIFICATION FairSpec
CONSTANTS
    MaxCommits = 2
    MaxBackups = 2
    MaxDamages = 2
    MaxCuts = 2
    DimsConfigured = TRUE
    Scope = {}
    Absent = Absent
    NoWal = NoWal
    NoCopy = NoCopy
    NoReader = NoReader
    NoPromise = NoPromise
    Mixed = Mixed
INVARIANT BackupsAreComplete
INVARIANT NothingLostUndamaged
PROPERTY RecoveredIsBackup
PROPERTY HeadlessRecovers
