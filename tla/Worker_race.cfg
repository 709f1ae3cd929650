SPECIFICATION WorkerSpec
CONSTANTS
    LastMicro = 0
    Process = {p1, p2}
    WorkerName = {"synthetic-worker"}
    WorkerId <- MCWorkerId
    Jobs = {"r1"}
    Priority <- MCPriority
    MaxAttempts <- MCMaxAttempts
    AttemptLimit = 2
    LeaseSeconds = {1}
    ScheduleTimes <- MCInstants
    Horizon = 2
    Null = Null
    RunOf <- MCSameRun
    MaxCrashes = 1
INVARIANTS
    WorkerTypeOK
    CheckpointIsBacked
    RowsHaveTheirFiles
    CompletedRunIsWhole
    LeaseIsExclusive
PROPERTIES
    CompletedArtifactsAreKept
    UsesQueue
    ImplementsCourse
SYMMETRY MCSymmetry
