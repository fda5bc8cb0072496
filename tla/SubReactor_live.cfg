SPECIFICATION FairSpec
CONSTANTS
    Clients = {c1, c2}
    Fds = {f1, f2}
    Workers = {w1}
    MaxReq <- TwoAndNone
    MaxWire = 3
    Builds = {FALSE, TRUE}
    EnableMySql = TRUE
    None = None
CHECK_DEADLOCK FALSE
PROPERTIES FramesAreServed HangUpReleased
