SPECIFICATION CompilationSpec
CONSTANTS
    Jobs <- SomeJobs
    MaxNesting = 12
    LengthWidth = 12
    Rounds = 30
    Width = 16
    Fuel = 24
    Callees <- NoCallees
    N = 36
    Registers <- AllRegisters
    CalleeSaved <- CalleeSavedRegisters
    None = None
    Targets <- SmallPools
    WeightMaps <- NoInputs
    SpanSets <- NoInputs
    MoveLists <- NoInputs
    ClassMaps <- NoInputs
    IntArgs <- IntArgRegisters
    FloatArgs <- FloatArgRegisters
    FloatRegisters <- AllFloatRegisters
    ProbeThreshold = 4096
    CallerSaved <- Destroyed
    KeptRegisters <- Kept
    PageSize = 4096
INVARIANTS
    AcceptedTextIsTheTree
    AcceptedProgramsAreSound
    NoInternalError
    IRMeansTheSame
    NothingLiveIsClobbered
    CodeMeansTheSame
    CodeKeepsTheConvention
PROPERTIES
    CompilerReturns
