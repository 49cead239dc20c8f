SPECIFICATION Spec
CONSTANTS
    Phis = {1, 2}
    HeaderOps = {11}
    BodyOps = {21}
    Loops <- AllLoops
    TripCounts = {1, 2, 3, 40}
    MaxIterations = 5
CHECK_DEADLOCK FALSE
INVARIANTS
    PlainLoopsAgree
    DefinedBeforeUse
