SPECIFICATION Spec
CONSTANTS
    None = None
    p1 = p1
    t1 = t1
    t2 = t2
    d1 = d1
    Capacity = 2
    MaxGen = 1
    Owners <- MCOwners
    Targets = {t1, t2}
    Devices = {d1}
    Submissions <- TwoTargets
    Outcomes <- GoodOutcome
    MaxBatch = 2
    PerOwner = 1
    PerTarget = 2
    CostPerRequest = 1
    CostPerOwner = 1
    CostSystem = 2
    CompletionCapacity = 1
    CompletionBudget = 1
    DeadlineBudget = 1
    MaxTime = 1
ACTION_CONSTRAINT
    ClockWaits
INVARIANTS
    PublishedOnce
    TargetExclusive
    QueuesExact
    ReleaseAfterDrain
    ActionsExact
    AccountsExact
PROPERTIES
    TerminalIsFinal
    CompletionBeatsDeadline
CHECK_DEADLOCK FALSE
