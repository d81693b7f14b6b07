\* Three processes, one plan of programs for each way they meet; one kill or error.
SPECIFICATION Spec
CONSTANTS
    Procs <- ThreeProcs
    Plans <- AllPlans
    Replies <- SomeReplies
    Versions <- TwoVersions
    MaxFaults = 1
    Pieces = 2
    MaxLayers = 1
CHECK_DEADLOCK FALSE
INVARIANTS SharedTypeOK PrintedResultsAreLogged CalibratedByASavedModel KeyGoesToItsService LoneScansSeeTheirBytes WholeUnlessDisturbed ExportsReadBack
PROPERTIES AuditLogOnlyGrows CommandsEnd
