SPECIFICATION Spec
CONSTANTS
    None = None
    Capacity = 1
    DeviceCapacity = 1
    MaxGeneration = 3
    MaxDeviceGeneration = 1
    MaxEpoch = 2
    Requests <- Transfers
    Configs <- OneDisk
    Weights <- Ones
    Aging = 1
    Interval = 1
    PoolSize = 3
    MaxLease = 2
    Timeout = 2
    Config <- TheDisk
INVARIANTS
    NothingLeft
PROPERTIES
    LoanKept
    CallsReturn
