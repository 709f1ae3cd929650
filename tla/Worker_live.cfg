SPECIFICATION FairWorkerSpec
CONSTANTS
    LastMicro = 0
    Process = {"p1"}
    WorkerName = {"synthetic-worker"}
    WorkerId <- MCWorkerId
    Jobs = {"r1"}
    Priority <- MCPriority
    MaxAttempts <- MCMaxAttempts
    AttemptLimit = 2
    LeaseSeconds = {1}
    ScheduleTimes <- MCInstants
    Horizon = 2
    Null = Null
    RunOf <- MCSameRun
    MaxCrashes = 0
PROPERTIES
    EveryRunSettles
