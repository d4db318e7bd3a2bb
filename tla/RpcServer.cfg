CONSTANTS
    Request = {r1, r2, r3}
    Unknown = {r3}
    MaxLimited = 1
SPECIFICATION FairSpec
CHECK_DEADLOCK FALSE
INVARIANTS
    TypeOK
    AnsweredAtMostOnce
    ClosedAfterAnswers
PROPERTIES
    EveryRequestAnswered
    ClosedAfterHangUp
