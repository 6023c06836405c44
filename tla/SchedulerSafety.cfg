SPECIFICATION Spec
CONSTANTS
    None = None
    Classes <- TwoClasses
    Keys = {1, 2, 3}
    BaseClasses <- Donors
    Quantum <- Ones
    Budget <- MCBudget
    Period <- Whole
    Starvation <- Ones
    MaxDonation = 1
    Chains <- TwoLinks
    DeadlineKeys = {1}
    SuspendKeys = {1}
    WaitingKeys = {1}
    Overrun = 1
    MaxLag = 0
INVARIANTS
    QueuesExact
    BoostsExact
