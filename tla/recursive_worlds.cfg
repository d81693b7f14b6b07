\* Every world of three blobs; the analyzer's own limit below that of the decompressor.
SPECIFICATION Spec
CONSTANTS
    b1 = b1
    b2 = b2
    b3 = b3
    Blobs <- ThreeBlobs
    Lengths <- FourLengths
    MaxDepth = 3
    MaxTime = 1
    MaxExpansion = 2
    DecodeLimit = 3
    StepTimes <- ShortTimes
CHECK_DEADLOCK FALSE
INVARIANTS TypeOK LayersAreAChain ExpansionIsLimited OkMeansUnwrapped ErrorsAreJustified
