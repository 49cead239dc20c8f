----------------------------- MODULE Allocation -----------------------------
(***************************************************************************)
(* The register allocator from a function to its assignment: what module   *)
(* Interference makes of the function is what module RegAlloc colours      *)
(* (Allocator::run of src/backend/RegAlloc.cpp, from buildUnits on).       *)
(*                                                                         *)
(* Allocator::run is called for one function after the other.  RegAlloc    *)
(* has N units whatever the function: those it does not use have no edges  *)
(* and are off the graph from the start, so no step reads them, and only   *)
(* the statistics count them.                                              *)
(***************************************************************************)
EXTENDS RegAlloc, Interference

VARIABLES
    func,   \* the function being allocated
    units,  \* its locations, by number: units_
    live    \* the units live after each instruction: computeUnitLiveness

avars == <<func, units, live, vars>>

NoFunction == [params |-> <<>>, type |-> "void", order |-> <<>>, code |-> <<>>, inst |-> <<>>,
               preds |-> <<>>, elements |-> <<>>, alias |-> <<>>]

\* The fields of the allocator before its first call, and between two
Idle0 ==
    /\ target \in Targets
    /\ regClass = [u \in Units |-> "Integer"] /\ useWeight = [u \in Units |-> 0]
    /\ graph = [u \in Units |-> {}] /\ neighbours = graph
    /\ spans = {} /\ crossesCall = {} /\ moves = <<>>
    /\ removed = Units /\ color = [u \in Units |-> None] /\ spilled = {}
    /\ rep = [u \in Units |-> u] /\ settled = {}
    /\ class = "Float" /\ phase = "done" /\ order = <<>> /\ optimistic = {}
    /\ coalesced = 0 /\ frozen = 0
    /\ assigned = [u \in Units |-> None] /\ usedCalleeSaved = {}
    /\ stats = [colored |-> 0, spilled |-> 0]

AllocationInit == Idle0 /\ func = NoFunction /\ units = <<>> /\ live = <<>>

\* What N units hold.  A function that does not fit is never allocated
FitsTheBound ==
    /\ DOMAIN units' \subseteq Units
    /\ \A p \in Points(func') : live'[p[1]][p[2]] \subseteq DOMAIN units'
    /\ live'[Entry(func')][0] \subseteq DOMAIN units'
    /\ useWeight' \in [Units -> Nat]
    /\ moves' \in Seq(Units \X Units) /\ IsMoveList(moves', regClass')

\* buildUnits, computeUnitLiveness, buildInterference; count has the measured blocks
Build(f, count) ==
    LET found == UnitsOf(f)
        weights == UseWeights(f, found, count)
    IN
    /\ phase = "done"
    /\ func' = f /\ units' = found /\ live' = UnitLiveness(f, found)
    /\ regClass' = [u \in Units |-> IF u \in DOMAIN found THEN ClassOf(f, found[u]) ELSE "Integer"]
    /\ useWeight' = [u \in Units |-> IF u \in DOMAIN found THEN weights[u] ELSE 0]
    /\ graph' = InterferenceGraph(Meets(f, found, live'), regClass', Units)
    /\ spans' = CrossesCall(f, found, live')
    /\ moves' = CopiesBetween(f, found, regClass')
    /\ FitsTheBound
    /\ neighbours' = graph' /\ crossesCall' = spans'
    /\ removed' = Units \ DOMAIN found
    /\ color' = [u \in Units |-> None] /\ spilled' = {}
    /\ rep' = [u \in Units |-> u] /\ settled' = {}
    /\ class' = "Integer" /\ phase' = "enter" /\ order' = <<>> /\ optimistic' = {}
    /\ coalesced' = 0 /\ frozen' = 0
    /\ assigned' = [u \in Units |-> None] /\ usedCalleeSaved' = {}
    /\ stats' = [colored |-> 0, spilled |-> 0]
    /\ UNCHANGED target

\* A round of the colouring
Colour == Next /\ UNCHANGED <<func, units, live>>

AllocationNext == (\E f, count : Build(f, count)) \/ Colour

AllocationSpec == AllocationInit /\ [][AllocationNext]_avars

\* What the code generator is told: the registers of the values that have one
Home ==
    LET candidates == {v \in ToSet(Values(func)) : IsCandidate(func, v)}
        unit(v) == CHOOSE u \in DOMAIN units : units[u] = LocationOf(func, v)
    IN [v \in {w \in candidates : assigned[unit(w)] # None} |-> assigned[unit(v)]]

-----------------------------------------------------------------------------

\* No instruction that writes a register writes one that holds a value still needed
\* afterwards, nor does an argument that arrives in one, and what is needed after a
\* call is where the call cannot reach it.  A definition nobody reads counts: it
\* writes its register all the same (the comment at buildInterference)
NothingLiveIsClobbered ==
    phase = "done" =>
      /\ \A p \in Points(func) :
           \A d \in DefinedBy(func, units, func.code[p[1]][p[2]]) :
             \A u \in live[p[1]][p[2]] \ {d} :
               assigned[d] # None /\ regClass[d] = regClass[u] => assigned[d] # assigned[u]
      /\ \A n \in DOMAIN func.params :
           \A d \in UnitAt(func, units, Arg(n)) : \A u \in live[Entry(func)][0] \ {d} :
             assigned[d] # None /\ regClass[d] = regClass[u] => assigned[d] # assigned[u]
      /\ \A p \in CallPoints(func) :
           \A u \in AcrossCall(func, units, live, p) : assigned[u] \in CalleeSaved \cup {None}
=============================================================================
