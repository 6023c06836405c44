SPECIFICATION Spec
CONSTANTS
    NumBlocks = 3
    EntryCount = 2
    BatchBlocks = 2
    ReadAhead = 2
    MaxSequence = 3
    MaxFailures = 1
    Transfers = {1, 2}
    DrainSteps = {1}
INVARIANTS
    ReadsLatest
    DurableSurvives
    Barrier
    AcceptsWhole
    FlushSuffices
