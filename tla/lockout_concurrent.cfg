SPECIFICATION FairSpec
CONSTANTS
    Request = {r1, r2, r3}
    Threshold = 2
    LockSeconds = 2
    Enabled = TRUE
    MaxTime = 4
    MaxStall = 1
    NoOne = NoOne
INVARIANTS LockConsistent LocksUnlessOverlapped
PROPERTIES LockoutStands EverySignInEnds
