\* Three commands one after the other, one fault anywhere.
SPECIFICATION Spec
CONSTANTS
    p1 = p1
    r0 = r0
    r1 = r1
    Procs <- OneProcess
    Releases <- TwoReleases
    KeySet = TRUE
    MaxCommands = 3
    MaxFaults = 1
CHECK_DEADLOCK FALSE
INVARIANTS TypeOK ReplacedRegistryIsKept RefusedImportChangesNothing VerifiedImportsAreSigned LogTellsWhatHappened OnlyFaultsTearFiles
PROPERTIES ImplementsStore
