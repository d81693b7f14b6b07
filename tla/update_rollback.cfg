\* Two imports and a rollback, no fault.
SPECIFICATION Spec
CONSTANTS
    p1 = p1
    r0 = r0
    r1 = r1
    Procs <- OneProcess
    Releases <- TwoReleases
    KeySet = TRUE
    MaxCommands = 3
    MaxFaults = 0
CHECK_DEADLOCK FALSE
INVARIANTS RollbackRestoresPrevious
