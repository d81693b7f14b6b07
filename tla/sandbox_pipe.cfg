\* One call whose worker prints more than the pipe holds.
SPECIFICATION Spec
CONSTANTS
    t1 = t1
    t2 = t2
    t3 = t3
    Threads <- OneThread
    Sandboxed <- OneThread
    MaxConcurrent = 1
    Platform = "other"
    TimeoutPolls = 1
    InSize = 1
    OutSizes <- BigOutput
    PipeCap = 1
    MaxOrphans = 1
INVARIANTS NoPipeDeadlock
