CONSTANTS
    Request = {r1, r2}
    Unknown = {r2}
    MaxLimited = 1
SPECIFICATION FairSpec
CHECK_DEADLOCK FALSE
PROPERTIES
    ServedUntilHangUp
