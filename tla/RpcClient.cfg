CONSTANTS
    Call = {c1, c2}
    None = None
    MaxAnswers = 1
SPECIFICATION FairSpec
CHECK_DEADLOCK FALSE
INVARIANTS
    TypeOK
    DoneAtMostOnce
    NoCallForgotten
    ResponseReachesItsCall
PROPERTIES
    EveryCallEnds
