\* Two writers while the company is deactivated, deleted and purged.
SPECIFICATION BackupSpec
CONSTANTS
    Writers = {w1, w2}
    Seed = Seed
INVARIANTS
    OrderRespectsForeignKeys
    SourceFilesAreArchived
    NoStrandedUser
    BackupRestores
CHECK_DEADLOCK FALSE
