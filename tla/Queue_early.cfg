SPECIFICATION Spec
CONSTANTS
    LastMicro = 1
    Process = {"p1", "p2"}
    WorkerName = {"w1", "w2"}
    WorkerId <- MCOwnName
    Jobs = {"j1", "j2"}
    Priority <- MCPriority
    MaxAttempts <- MCMaxAttempts
    AttemptLimit = 2
    LeaseSeconds = {1}
    ScheduleTimes <- MCOneScheduleTime
    Horizon = 2
    Null = Null
PROPERTIES
    OnlyExpiredLeasesAbandoned
