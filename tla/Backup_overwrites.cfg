SPECIFICATION BackupSpec
CONSTANTS
    Process = {p1, p2}
    Path = {a}
    MaxCommits = 1
    MaxSetbacks = 0
    Null = Null
INVARIANTS
    ReturnedBackupIsKept
CHECK_DEADLOCK FALSE
