SPECIFICATION Spec
CONSTANTS
    K = 2
    Initial = 11
    IntBytes = 2
    Base = 4
    Lens <- MCLens
    MaxLen = 15
    EnableWrite = TRUE
CHECK_DEADLOCK FALSE
INVARIANTS AbortsOnlyOnNegative FramesIntact SizeBound
