SPECIFICATION Spec
CONSTANTS
    a1 = a1
    a2 = a2
    b1 = b1
    A = A
    B = B
    None = None
    Keys = {a1, a2, b1}
    Process <- ThreeThreads
    Facets = {x}
    Sleepers = {a1, a2}
    Capacity = 3
    MaxGeneration = 2
    Times = {1}
    MaxTime = 1
    WaiterLimit = 1
SYMMETRY Siblings
INVARIANTS
    RuntimeExact
    SlotsOwned
    NoLostWakeup
    
PROPERTIES
    TokensFresh
