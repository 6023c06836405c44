SPECIFICATION Spec
CONSTANTS
    None = None
    Capacity = 2
    DeviceCapacity = 1
    MaxGeneration = 1
    MaxDeviceGeneration = 2
    MaxEpoch = 2
    Requests <- ThreeKinds
    Configs <- OneDisk
    Weights <- OneOneTwo
    Aging = 1
    Interval = 2
    Failures = {"IoError"}
    MaxDisturbances = 2
INVARIANTS
    HardwareExact
    EntriesExact
    FencesHold
    WorkConserving
