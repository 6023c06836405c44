SPECIFICATION FsSpec
CONSTANTS
    None = None
    p1 = p1
    file = file
    directory = directory
    Capacity = 1
    MaxGen = 2
    Owners <- MCOwners
    Targets = {file, directory}
    Devices = {}
    Prepared <- MCPrepared
    Submissions <- MCSubmissions
    Outcomes = {}
    MaxBatch = 1
    PerOwner = 1
    PerTarget = 1
    CostPerRequest = 1
    CostPerOwner = 1
    CostSystem = 2
    CompletionCapacity = 1
    CompletionBudget = 1
    DeadlineBudget = 1
    MaxTime = 1
    JobCapacity = 2
    NormalCapacity = 1
    MaxJobGeneration = 2
    Chunk = 1
    Background <- MCBackground
    MaxOther = 1
INVARIANTS
    BrokerMirrors
    JobsBridged
    NoneForgotten
PROPERTIES
    RequestsEnd
CHECK_DEADLOCK FALSE
