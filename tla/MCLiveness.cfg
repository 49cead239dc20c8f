SPECIFICATION FairSpec
CONSTANTS
    NBlocks = 3
    Facts = {1, 2}
    None = 0
    Functions <- AllFunctions
    Problems <- AllProblems
CHECK_DEADLOCK FALSE
INVARIANTS
    FixedPoint
    LeastSolution
    LivenessIsPathLiveness
    ReachingIsPathReaching
PROPERTY Converges
