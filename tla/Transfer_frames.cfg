SPECIFICATION FairTransferSpec
CONSTANTS
    Frames <- MCFrames
    Body = 2
    TestLen = 3
    Reply = 1
    CapIn = 5
    CapOut = 5
    Ahead = 2
    Garbage = {0, 2, 3}
CHECK_DEADLOCK FALSE
INVARIANTS FramesInStep NoStandstill
PROPERTY FramesDone
