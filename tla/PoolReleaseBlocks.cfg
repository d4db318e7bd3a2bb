CONSTANTS
    Submitter = {s1, s2}
    Worker = {w1, w2}
    None = None
    Cap = 1
    MaxCap = 1
    Options <- DefaultOptions
    Spare = {0}
    MaxTunes = 0
    MaxReleases = 1
    MaxReboots = 0
SPECIFICATION FairSpec
CHECK_DEADLOCK FALSE
PROPERTIES
    NoCallerBlocksInfinitely
