\* One analysis with a narrative: the claim of narrative.rs:8 about invalid fields.
SPECIFICATION Spec
CONSTANTS
    Procs <- ThreeProcs
    Plans <- OneNarrative
    Replies <- SomeReplies
    Versions <- TwoVersions
    MaxFaults = 0
    Pieces = 1
    MaxLayers = 0
CHECK_DEADLOCK FALSE
INVARIANT InvalidFieldsGetDefaults
