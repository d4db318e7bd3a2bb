CONSTANTS
    Submitter = {s1, s2}
    Worker = {w1, w2}
    None = None
    Cap = 1
    MaxCap = 1
    Options <- DefaultOptions
    Spare = {0}
    MaxTunes = 0
    MaxReleases = 0
    MaxReboots = 0
SPECIFICATION Spec
CHECK_DEADLOCK FALSE
INVARIANTS
    CapacityLimitsGoroutines
