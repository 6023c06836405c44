SPECIFICATION Spec
CONSTANTS
    MaxSequence = 4
    MaxLive = 2
    MaxApps = 2
INVARIANTS
    CommitDurable
PROPERTIES
    TransitionEnds
