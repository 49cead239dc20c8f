SPECIFICATION FairSpec
CONSTANTS
    N = 4
    Registers <- AllRegisters
    CalleeSaved <- CalleeSavedRegs
    None = None
    Targets <- SmallTargets
    WeightMaps <- OneDearUnit
    SpanSets <- FewSpans
    MoveLists <- FewMoves
    ClassMaps <- ThreeClassMaps
CHECK_DEADLOCK FALSE
INVARIANTS
    ProperColouring
    CallSafe
    OnlyOptimisticNodesSpill
PROPERTIES
    CoalescingIsConservative
    Terminates
