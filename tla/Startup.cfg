SPECIFICATION FairSpec
CONSTANTS
    Thread = {"t1", "t2", "t3"}
    OsProcess = {"o1", "o2"}
    ProcessOf <- MCProcessOf
    Content = {"a", "b", "c"}
    Migrations <- MCMigrations
    LastVersion = 2
    OwnerName = "orchestrator"
    OtherName = {"tool"}
    MaxSetbacks = 2
    Null = Null
INVARIANTS
    StartupTypeOK
    DatabaseIsOfOneRelease
    ReadyIsMigrated
    OwnerIsAlone
PROPERTIES
    MigrationsAreKept
    EveryStartEnds
