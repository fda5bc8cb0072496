SPECIFICATION FairSpec
CONSTANTS
    Subs = 2
    Clients = {c1}
    Fds = {1, 2, 3, 4, 5, 6}
    Garbage = {1, 3}
CHECK_DEADLOCK FALSE
INVARIANTS AtMostOneLateBatch TermClosesOwn
PROPERTY ShutdownEnds
