SPECIFICATION Spec
CONSTANTS
    CFGs <- Shapes
    NPhis = 2
    Consts <- TwoConsts
CHECK_DEADLOCK FALSE
INVARIANTS
    LocationsHoldPhis
