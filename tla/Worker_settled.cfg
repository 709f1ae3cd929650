SPECIFICATION WorkerSpec
CONSTANTS
    LastMicro = 0
    Process = {"p1", "p2"}
    WorkerName = {"synthetic-worker"}
    WorkerId <- MCWorkerId
    Jobs = {"r1", "r2"}
    Priority <- MCPriority
    MaxAttempts <- MCMaxAttempts
    AttemptLimit = 2
    LeaseSeconds = {1}
    ScheduleTimes <- MCInstants
    Horizon = 2
    Null = Null
    RunOf <- MCOwnRun
    MaxCrashes = 0
INVARIANTS
    CompletedRunSettledItsJob
