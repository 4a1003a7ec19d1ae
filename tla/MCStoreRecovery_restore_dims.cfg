SPECIFICATION Spec
CONSTANTS
    MaxCommits = 2
    MaxBackups = 2
    MaxDamages = 1
    MaxCuts = 2
    DimsConfigured = FALSE
    Scope = {}
    Absent = Absent
    NoWal = NoWal
    NoCopy = NoCopy
    NoReader = NoReader
    NoPromise = NoPromise
    Mixed = Mixed
PROPERTY ValidBackupIsRestored
