\* As analysis_live, with one thread: the claim of SECURITY.md:64 about compromised workers.
SPECIFICATION AnalysisSpec
CONSTANTS
    t1 = t1
    t2 = t2
    Threads <- OneThread
    Sandboxed <- OneThread
    OfFiles <- OneThread
    Foreign <- OneThread
    MaxConcurrent = 1
    Platform = "other"
    TimeoutPolls = 1
    InSize = 2
    OutSizes <- EmptyOrBig
    PipeCap = 1
    MaxOrphans = 1
INVARIANT CompromiseIsContained
