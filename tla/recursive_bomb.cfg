\* The default limits: both are the same.
SPECIFICATION Spec
CONSTANTS
    b1 = b1
    b2 = b2
    b3 = b3
    Blobs <- TwoBlobs
    Lengths <- FourLengths
    MaxDepth = 2
    MaxTime = 1
    MaxExpansion = 2
    DecodeLimit = 2
    StepTimes <- ShortTimes
CHECK_DEADLOCK FALSE
INVARIANTS BombsAreReported
