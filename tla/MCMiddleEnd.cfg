SPECIFICATION Spec
CONSTANTS
    Width = 4
    Callees <- SomeCallees
    Fuel = 40
    Functions <- AllFunctions
    Inputs <- SomeInputs
    MaxPasses = 4
CHECK_DEADLOCK FALSE
INVARIANTS
    PassesLeaveValidIR
    SameBehaviour
    DominatorsAreExact
    SolvedIsAFixedPoint
PROPERTIES
    LatticeOnlyDescends
