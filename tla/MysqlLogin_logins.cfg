SPECIFICATION LoginFairSpec
CONSTANTS
    Workers = {w1, w2, w3}
    Size = 2
    None = None
    MaxFaults = 2
CHECK_DEADLOCK FALSE
INVARIANTS Exclusive UsedIffHeld RefusedOnlyByOthers RightReply
PROPERTIES LoginEnds ImplementsPool
