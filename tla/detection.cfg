\* One analysis of each input, a model trained or dropped and a table edited at any moment.
SPECIFICATION Spec
CONSTANTS
    Inputs <- SomeInputs
    Registry <- Signatures
    Models <- OneModel
    Scores <- TwoScores
    Overrides <- TwoTables
CHECK_DEADLOCK FALSE
INVARIANTS TypeOK OneModelPerResult RiskIsExplained DetectionsStand EncodingIsTheNarrowest
