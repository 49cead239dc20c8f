SPECIFICATION BuildSpec
CONSTANTS
    Width = 4
    Callees <- NoCallees
    Fuel = 0
    HotThreshold = 60
    HotFloor = 3
    ColdOneIn = 4
    Digit = 2
    Programs <- SomePrograms
    MaxCount = 13
CHECK_DEADLOCK FALSE
INVARIANTS
    FlowConserved
    AnnotatedCountsAreMeasured
    HeatFollowsTheDefinition
    LayoutKeepsFlow
