SPECIFICATION Spec
CONSTANTS
    None = None
    BufferCount = 2
    Capacity = 1
    AllocationMayFail = TRUE
    Sizes = {1, 2}
    RequestCapacity = 1
    MaxRequests = 3
    MaxHotkeys = 1
    MaxPointer = 1
    MaxHides = 1
INVARIANTS
    BuffersProtected
    ClientUnconfused
    PoolsExact
PROPERTIES
    ScreenKept
    
CHECK_DEADLOCK FALSE
