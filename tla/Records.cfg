SPECIFICATION RecordsSpec
CONSTANTS
    Run = {r1, r2}
    Partition = {x1, x2}
    Listing = {l1, l2}
    Job = {j1, j2}
    Artifact = {a1}
    ParserRun = {k1}
    Batch = {b1, b2}
    PartitionKey <- MCPartitionKey
    Checksum = {c1}
    Url = {u, v}
    Time = {1, 2}
    MaxCalls = 7
    Null = Null
INVARIANTS
    RecordsTypeOK
    IdentityFollowsTheLog
    JobIdsAreStable
PROPERTIES
    RecordsAreAppendOnly
    FollowsLifecycles
SYMMETRY MCSymmetry
CHECK_DEADLOCK FALSE
