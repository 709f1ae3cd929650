SPECIFICATION CommandSpec
CONSTANTS
    Process = {p1, p2}
    Interpreter = {p1, p2}
    Path = {a, b}
    MaxCommits = 11
    Migrations = 2
    MaxSetbacks = 1
    MaxConfigured = 4
    Foreign <- MCForeign
    Payloads <- MCPayloads
    Registries <- MCRegistries
    MaxCommands = 4
    Null = Null
INVARIANTS
    CommandsTypeOK
    UndisturbedBackupIsKept
    RestoreGivesTheBackup
    OneOldHandlerAtMost
    
PROPERTIES
    UsesBackup
SYMMETRY MCSymmetry
CHECK_DEADLOCK FALSE
