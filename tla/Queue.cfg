SPECIFICATION FairSpec
CONSTANTS
    LastMicro = 1
    Process = {"p1", "p2"}
    WorkerName = {"w1", "w2"}
    WorkerId <- MCOwnName
    Jobs = {"j1", "j2"}
    Priority <- MCPriority
    MaxAttempts <- MCMaxAttempts
    AttemptLimit = 2
    LeaseSeconds = {1}
    ScheduleTimes <- MCScheduleTimes
    Horizon = 2
    Null = Null
INVARIANTS
    TypeOK
    LedgerAgrees
    LeaseFieldsAgree
    RetryBound
    AttemptsInTextOrder
    HeldLeaseIsOpenOrAbandoned
    AttemptsEndAfterTheyStart
PROPERTIES
    TerminalIsFinal
    ClosedAttemptsAreHistory
    LeaseKeptUntilItsLastSecond
    FinishesOwnAttempt
    ImplementsLifecycle
    EveryJobSettles
    ImplementsFairLifecycle
