SPECIFICATION FairSpec
CONSTANTS
    MinThreads = 1
    MaxThreads = 4
    MaxWork = 1
    InitThreads = 5
    MaxRuns = 3
    None = None
INVARIANTS NoSleeperWithWork PickFindsWork NoJobLostOrRunTwice ThreadBound AtMostOneLateJob
PROPERTIES ImplementsTaskPool EveryJobRuns
