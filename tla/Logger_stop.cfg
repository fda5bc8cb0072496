SPECIFICATION FairSpec
CONSTANTS
    Writers = {t1}
    Main = main
    Log = log
    MaxMsg = 1
    MaxSignals = 1
    None = None

CHECK_DEADLOCK FALSE
PROPERTY StopReturns
