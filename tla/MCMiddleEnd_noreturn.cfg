SPECIFICATION Spec
CONSTANTS
    Width = 4
    Callees <- SomeCallees
    Fuel = 40
    Functions <- NeverReturning
    Inputs <- SomeInputs
    MaxPasses = 4
CHECK_DEADLOCK FALSE
INVARIANTS
    PassesLeaveValidIR
