SPECIFICATION FairSpec
CONSTANTS
    NFuncs = 2
    IRs <- MCIRs
    Builds <- MCBuilds
    None = None
CHECK_DEADLOCK FALSE
INVARIANTS
    NobodyReadsStaleResults
    ConvergedIsFixedPoint
    ExitMatchesDiagnostics
    NoIntermediatesLeft
PROPERTIES
    ColdCodeStaysAtO1
    Terminates
