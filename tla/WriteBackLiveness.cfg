SPECIFICATION FairSpec
CONSTANTS
    NumBlocks = 2
    EntryCount = 1
    BatchBlocks = 1
    ReadAhead = 1
    MaxSequence = 2
    MaxFailures = 2
    Transfers = {1}
    DrainSteps = {1}
PROPERTIES
    TicketsDrain
