SPECIFICATION FairSpec
CONSTANTS
    Conns = {1, 2, 3, 4}
    Addrs = {0}
    From <- MCFrom
    Subs = 3
    MaxReq = 2
    None = None
CHECK_DEADLOCK FALSE
INVARIANTS LeastLoaded AtMostOneSlips
PROPERTY AcceptedUnlessBurst
CONSTRAINT InOrder
