SPECIFICATION Spec
CONSTANTS
    MaxSequence = 2
    MaxLive = 1
    MaxApps = 0
INVARIANTS
    RemainsQuiesced
