SPECIFICATION Spec
CONSTANTS
    Clients = {c1, c2}
    Fds = {f1}
    Workers = {w1}
    MaxReq <- OneEach
    MaxWire = 3
    Builds = {FALSE}
    EnableMySql = FALSE
    None = None
SYMMETRY Symmetry
CHECK_DEADLOCK FALSE
INVARIANT JoinedHasUser
