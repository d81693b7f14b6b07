\* Two tasks, four keys, three entries.
SPECIFICATION Spec
CONSTANTS
    t1 = t1
    t2 = t2
    k1 = k1
    k2 = k2
    k3 = k3
    k4 = k4
    Tasks <- TwoTasks
    Keys <- FourKeys
    Capacity = 3
    MaxCalls = 6
CHECK_DEADLOCK FALSE
SYMMETRY Interchangeable
INVARIANTS TypeOK CapacityRespected RepliesAreAboutTheInput RecentlyUsedStays
