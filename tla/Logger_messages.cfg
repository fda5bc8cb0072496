SPECIFICATION FairSpec
CONSTANTS
    Writers = {t1}
    Main = main
    Log = log
    MaxMsg = 2
    MaxSignals = 2
    None = None
CHECK_DEADLOCK FALSE
INVARIANTS LogInOrder NoWriteAfterClose AtMostOneLateWrite
PROPERTY MessagesWritten
