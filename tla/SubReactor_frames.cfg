SPECIFICATION Spec
CONSTANTS
    Clients = {c1, c2}
    Fds = {f1, f2}
    Workers = {w1, w2}
    MaxReq <- TwoAndOne
    MaxWire = 3
    Builds = {FALSE, TRUE}
    EnableMySql = TRUE
    None = None
SYMMETRY SymmetryFds
CHECK_DEADLOCK FALSE
INVARIANTS TypeOK OneOwner NoDanglingTask EventsAreReal OneFrameInFlight
PROPERTIES ImplementsHandover
