\* Fair schedules; two threads share one permit, one analyzes files and one bytes; no job object; the worker of one of them may be another program.
SPECIFICATION AnalysisSpec
CONSTANTS
    t1 = t1
    t2 = t2
    Threads <- TwoThreads
    Sandboxed <- TwoThreads
    OfFiles <- OneThread
    Foreign <- OneThread
    MaxConcurrent = 1
    Platform = "other"
    TimeoutPolls = 1
    InSize = 2
    OutSizes <- EmptyOrBig
    PipeCap = 1
    MaxOrphans = 1
INVARIANTS AnalysisTypeOK FailuresAreMasked
PROPERTIES AnalysisAnswers
