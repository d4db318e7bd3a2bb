CONSTANTS
    Worker = {w1, w2, w3, w4}
    Nil = Nil
    Size = 3
    ExpiryDuration = 1
    MaxTime = 3
SPECIFICATION Spec
SYMMETRY Symmetry
INVARIANTS
    TypeOK
    RingHoldsExactlyTheQueued
PROPERTIES
    ImplementsWorkerQueue
    RefreshEvictsExpired
