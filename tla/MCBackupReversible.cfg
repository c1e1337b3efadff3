SPECIFICATION BackupSpec
CONSTANTS
    Dirs = {d1, d2, d3}
    NoDir = NoDir
    MaxWrites = 2
CHECK_DEADLOCK FALSE
INVARIANT Reversible
