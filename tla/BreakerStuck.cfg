CONSTANTS
    Caller = {c1, c2}
    maxRequests = 1
    Trip = 1
    HasInterval = FALSE
SPECIFICATION FairSpec
PROPERTIES
    HalfOpenEnds
