CONSTANTS
    Submitter = {s1, s2, s3}
    Worker = {w1, w2, w3}
    None = None
    Cap = 2
    MaxCap = 2
    Options <- SafetyOptions
    Spare = {0}
    MaxTunes = 1
    MaxReleases = 1
    MaxReboots = 1
SPECIFICATION Spec
CHECK_DEADLOCK FALSE
SYMMETRY Symmetry
INVARIANTS
    TypeOK
    OneHolder
    TaskRunsExactlyOnce
    ReleasedStaysEmpty
    IdleNeverOverlooked
PROPERTIES
    NilMeansDrained
