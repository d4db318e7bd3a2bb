CONSTANTS
    Caller = {c1, c2}
    maxRequests = 1
    Trip = 1
    HasInterval = TRUE
SPECIFICATION FairSpec
INVARIANTS
    TypeOK
    ExpiryFitsState
    HalfOpenAdmits
PROPERTIES
    OpenWaitsForTimeout
    OpenEnds
    HalfOpenDecides
