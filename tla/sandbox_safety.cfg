\* Two threads share one permit, a third has its sandbox disabled; a job object is made after the spawn; output that fits the pipe and output that does not.
SPECIFICATION Spec
CONSTANTS
    t1 = t1
    t2 = t2
    t3 = t3
    Threads <- ThreeThreads
    Sandboxed <- TwoThreads
    MaxConcurrent = 1
    Platform = "windows"
    TimeoutPolls = 1
    InSize = 2
    OutSizes <- AnyOutput
    PipeCap = 1
    MaxOrphans = 1
INVARIANTS TypeOK PermitsConserved WorkersBounded NoWorkerOutlivesItsCall OutputIsComplete
PROPERTIES ImplementsSlots
