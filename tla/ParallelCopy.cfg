SPECIFICATION FairSpec
CONSTANTS
    MaxRoot = 5
    Others = {0}
CHECK_DEADLOCK FALSE
INVARIANTS
    SourcesSurvive
    StallIsACycle
PROPERTIES
    AllEmitted
    ImplementsSimultaneous
