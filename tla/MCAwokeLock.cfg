SPECIFICATION LockSpec
CONSTANTS
    Threads = {t1, t2, t3}
    Types <- MCTypes
    MaxAcquires = 6
SYMMETRY Symmetry
INVARIANTS
    LockConserved
    NoPhantomLock
CHECK_DEADLOCK FALSE
