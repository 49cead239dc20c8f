------------------------------ MODULE RegAlloc ------------------------------
(***************************************************************************)
(* The colouring half of the graph register allocator: what                *)
(* Allocator::run does from colorClass(Integer) to publish(), one action   *)
(* per round of the Chaitin-Briggs main loop and per node popped by the    *)
(* select loop (src/backend/RegAlloc.cpp).                                 *)
(*                                                                         *)
(* The interference graph, the moves and the units that span a call are    *)
(* inputs here: Init allows every one of them.  How the code builds them   *)
(* from a function is the business of module Interference.                 *)
(*                                                                         *)
(* Abstractions.  The merged/mergedInto chain is a function rep to the     *)
(* surviving unit (what rootOf returns).  Use weights are natural numbers  *)
(* and scores are compared exactly, where the code divides doubles.        *)
(***************************************************************************)
EXTENDS Integers, Sequences, FiniteSets

CONSTANTS
    N,           \* number of allocation units
    Registers,   \* the allocatable registers, of either class
    CalleeSaved, \* those isCalleeSaved() answers true for
    None,        \* MReg::None
    Targets,     \* the register pools: allocatableIntRegisters() and
                 \* allocatableFloatRegisters(), each in its order
    WeightMaps,  \* the use weights units may have
    SpanSets,    \* the sets of units that may be live across a call
    MoveLists,   \* the move lists buildInterference may hand over
    ClassMaps    \* the assignments of a class to each unit

Units == 1 .. N
RegClasses == {"Integer", "Float"}

ASSUME UnitsAssumption == N \in Nat
ASSUME PoolAssumption ==
    /\ Targets \subseteq [RegClasses -> Seq(Registers)]
    /\ \A t \in Targets, c \in RegClasses : \A i, j \in DOMAIN t[c] :
         t[c][i] = t[c][j] => i = j   \* no pool lists a register twice
    /\ None \notin Registers
ASSUME InputAssumption ==
    /\ WeightMaps \subseteq [Units -> Nat]
    /\ SpanSets \subseteq SUBSET Units
    /\ MoveLists \subseteq Seq(Units \X Units)
    /\ ClassMaps \subseteq [Units -> RegClasses]

VARIABLES
    graph, spans,              \* the inputs, kept for the properties: the
                               \* interference graph and the call-crossing units
    target, regClass, moves,   \* inputs no step changes
    neighbours, crossesCall, useWeight, removed, color, spilled, \* Unit fields
    rep,                       \* Unit.merged and Unit.mergedInto, resolved
    settled,                   \* indices of the moves with Move.settled set
    class, phase, order,       \* colorClass: its argument, where it is, order
    optimistic,                \* the nodes spillOne pushed
    assigned, usedCalleeSaved, coalesced, frozen, stats          \* result_

inputs == <<graph, spans, target, regClass, moves>>
result == <<assigned, usedCalleeSaved, stats>>
vars == <<inputs, neighbours, crossesCall, useWeight, removed, color, spilled,
          rep, settled, class, phase, order, optimistic, coalesced, frozen,
          result>>

IsGraph(g, cls) ==
    \A u, v \in Units : v \in g[u] => u # v /\ u \in g[v] /\ cls[u] = cls[v]

IsMoveList(ms, cls) ==
    \A m \in DOMAIN ms : ms[m][1] # ms[m][2] /\ cls[ms[m][1]] = cls[ms[m][2]]

-----------------------------------------------------------------------------
(* The graph as the main loop reads it *)

\* The registers colorClass was handed, and how many they are
Pool == target[class]
K == Len(Pool)

Merged(u) == rep[u] # u
NeighbourRoots(u) == {rep[n] : n \in neighbours[u]} \ {u}
ActiveNeighbours(u) == NeighbourRoots(u) \ removed
Degree(u) == Cardinality(ActiveNeighbours(u))
StillInGraph(u) == ~Merged(u) /\ u \notin removed /\ regClass[u] = class
Remaining == {u \in Units : StillInGraph(u)}

Destination(m) == rep[moves[m][1]]
Source(m) == rep[moves[m][2]]

\* isMoveRelated, with the moves in done taken as settled
MoveRelated(u, done) ==
    \E m \in DOMAIN moves \ done : u \in {Destination(m), Source(m)}

\* The move coalesceOne looks at: unsettled, of the class being coloured
Pending(m) == m \notin settled /\ regClass[Destination(m)] = class
OffGraph(m) == Destination(m) \in removed \/ Source(m) \in removed
Constrained(m) == \/ Source(m) \in NeighbourRoots(Destination(m))
                  \/ Destination(m) \in NeighbourRoots(Source(m))

\* Mutant: one significant neighbour too many
BriggsAllows_AtMostK(a, b) ==
    LET combined == (NeighbourRoots(a) \cup NeighbourRoots(b)) \ ({a, b} \cup removed)
    IN Cardinality({n \in combined : Degree(n) >= K}) <= K

BriggsAllows(a, b) ==
    LET combined == (NeighbourRoots(a) \cup NeighbourRoots(b)) \ ({a, b} \cup removed)
    IN Cardinality({n \in combined : Degree(n) >= K}) < K

\* Settled by the scan itself: both ends already one node, or interfering
ScanSettles(m) ==
    /\ Pending(m)
    /\ Destination(m) = Source(m) \/ (~OffGraph(m) /\ Constrained(m))

Mergeable(m) ==
    /\ Pending(m)
    /\ Destination(m) # Source(m)
    /\ ~OffGraph(m)
    /\ ~Constrained(m)
    /\ BriggsAllows(Destination(m), Source(m))

\* The settled moves after coalesceOne has scanned the whole list in vain
Scanned == settled \cup {m \in DOMAIN moves : ScanSettles(m)}

\* Mutant: takes a node of degree K for low-degree
Simplifiable_AtMostK(u) ==
    StillInGraph(u) /\ Degree(u) <= K /\ ~MoveRelated(u, settled)

Simplifiable(u) == StillInGraph(u) /\ Degree(u) < K /\ ~MoveRelated(u, settled)
Freezable(u) == StillInGraph(u) /\ Degree(u) < K /\ MoveRelated(u, Scanned)

NothingSimplifies == \A u \in Units : ~Simplifiable(u)
NothingCoalesces == \A m \in DOMAIN moves : ~Mergeable(m)
NothingFreezes == \A u \in Units : ~Freezable(u)

\* score(u) < score(v), score being useWeight / max(degree, 1)
Divisor(u) == IF Degree(u) > 0 THEN Degree(u) ELSE 1
Cheaper(u, v) == useWeight[u] * Divisor(v) < useWeight[v] * Divisor(u)

\* Mutant: spillOne as its comment describes it, significant nodes only
IsVictim_Significant(u) ==
    /\ Degree(u) >= K
    /\ \A v \in Remaining \ {u} : IF v < u THEN Cheaper(u, v) ELSE ~Cheaper(v, u)

IsVictim(u) ==
    \A v \in Remaining \ {u} : IF v < u THEN Cheaper(u, v) ELSE ~Cheaper(v, u)

-----------------------------------------------------------------------------
Init ==
    /\ target \in Targets
    /\ regClass \in ClassMaps
    /\ graph \in {g \in [Units -> SUBSET Units] : IsGraph(g, regClass)}
    /\ spans \in SpanSets
    /\ moves \in {ms \in MoveLists : IsMoveList(ms, regClass)}
    /\ useWeight \in WeightMaps
    /\ neighbours = graph
    /\ crossesCall = spans
    /\ removed = {}
    /\ color = [u \in Units |-> None]
    /\ spilled = {}
    /\ rep = [u \in Units |-> u]
    /\ settled = {}
    /\ class = "Integer"
    /\ phase = "enter"
    /\ order = <<>>
    /\ optimistic = {}
    /\ coalesced = 0
    /\ frozen = 0
    /\ assigned = [u \in Units |-> None]
    /\ usedCalleeSaved = {}
    /\ stats = [colored |-> 0, spilled |-> 0]

\* colorClass returns: run() calls it for Float, then publish()
LeaveClass ==
    IF class = "Integer"
      THEN class' = "Float" /\ phase' = "enter"
      ELSE class' = class /\ phase' = "publish"

\* colorClass before the loop, with registers to hand out
EnterClass ==
    /\ phase = "enter"
    /\ K > 0
    /\ phase' = "main"
    /\ order' = <<>>
    /\ UNCHANGED <<inputs, neighbours, crossesCall, useWeight, removed, color,
                   spilled, rep, settled, class, optimistic, coalesced, frozen,
                   result>>

\* colorClass before the loop, nowhere to put anything
NoRegisters ==
    /\ phase = "enter"
    /\ K = 0
    /\ spilled' = spilled \cup {u \in Units : ~Merged(u) /\ regClass[u] = class}
    /\ LeaveClass
    /\ UNCHANGED <<inputs, neighbours, crossesCall, useWeight, removed, color,
                   rep, settled, order, optimistic, coalesced, frozen, result>>

\* units_[node].removed = true; order.push_back(node)
Push(u) ==
    /\ removed' = removed \cup {u}
    /\ order' = Append(order, u)

Simplify ==
    /\ phase = "main"
    /\ \E u \in Units :
        /\ Simplifiable(u)
        /\ \A v \in Units : v < u => ~Simplifiable(v)
        /\ Push(u)
    /\ UNCHANGED <<inputs, neighbours, crossesCall, useWeight, color, spilled,
                   rep, settled, class, phase, optimistic, coalesced, frozen,
                   result>>

\* Mutant: the absorbed unit's neighbours are not told of the survivor
MergeUnits_OneSided(keep, gone) ==
    LET roots == {rep[n] : n \in neighbours[gone]}
    IN /\ rep' = [u \in Units |-> IF rep[u] = gone THEN keep ELSE rep[u]]
       /\ neighbours' =
            [u \in Units |->
                CASE u = gone -> {}
                  [] u = keep -> (neighbours[keep] \cup (roots \ {keep})) \ {gone}
                  [] u \in roots \ {keep, gone} -> neighbours[u] \ {gone}
                  [] OTHER -> neighbours[u]]
       /\ crossesCall' = IF gone \in crossesCall
                           THEN crossesCall \cup {keep} ELSE crossesCall
       /\ useWeight' = [useWeight EXCEPT ![keep] = @ + useWeight[gone]]

\* Mutant: the survivor does not inherit crossesCall
MergeUnits_ForgetsCalls(keep, gone) ==
    LET roots == {rep[n] : n \in neighbours[gone]}
    IN /\ rep' = [u \in Units |-> IF rep[u] = gone THEN keep ELSE rep[u]]
       /\ neighbours' =
            [u \in Units |->
                CASE u = gone -> {}
                  [] u = keep -> (neighbours[keep] \cup (roots \ {keep})) \ {gone}
                  [] u \in roots \ {keep, gone} -> (neighbours[u] \cup {keep}) \ {gone}
                  [] OTHER -> neighbours[u]]
       /\ crossesCall' = crossesCall
       /\ useWeight' = [useWeight EXCEPT ![keep] = @ + useWeight[gone]]

MergeUnits(keep, gone) ==
    LET roots == {rep[n] : n \in neighbours[gone]}
    IN /\ rep' = [u \in Units |-> IF rep[u] = gone THEN keep ELSE rep[u]]
       /\ neighbours' =
            [u \in Units |->
                CASE u = gone -> {}
                  [] u = keep -> (neighbours[keep] \cup (roots \ {keep})) \ {gone}
                  [] u \in roots \ {keep, gone} -> (neighbours[u] \cup {keep}) \ {gone}
                  [] OTHER -> neighbours[u]]
       /\ crossesCall' = IF gone \in crossesCall
                           THEN crossesCall \cup {keep} ELSE crossesCall
       /\ useWeight' = [useWeight EXCEPT ![keep] = @ + useWeight[gone]]

\* coalesceOne returning true: the moves before the merged one were scanned
Coalesce ==
    /\ phase = "main"
    /\ NothingSimplifies
    /\ \E m \in DOMAIN moves :
        /\ Mergeable(m)
        /\ \A i \in DOMAIN moves : i < m => ~Mergeable(i)
        /\ MergeUnits(Destination(m), Source(m))
        /\ settled' = settled \cup {m}
                        \cup {i \in DOMAIN moves : i < m /\ ScanSettles(i)}
    /\ coalesced' = coalesced + 1
    /\ UNCHANGED <<inputs, removed, color, spilled, class, phase, order,
                   optimistic, frozen, result>>

\* coalesceOne scans in vain, then freezeOne gives up one node's moves
Freeze ==
    /\ phase = "main"
    /\ NothingSimplifies
    /\ NothingCoalesces
    /\ \E u \in Units :
        /\ Freezable(u)
        /\ \A v \in Units : v < u => ~Freezable(v)
        /\ LET given == {m \in DOMAIN moves \ Scanned :
                            u \in {Destination(m), Source(m)}}
           IN /\ settled' = Scanned \cup given
              /\ frozen' = frozen + Cardinality(given)
    /\ UNCHANGED <<inputs, neighbours, crossesCall, useWeight, removed, color,
                   spilled, rep, class, phase, order, optimistic, coalesced,
                   result>>

\* Nothing simplified, coalesced or froze in this round: push the cheapest node
Spill ==
    /\ phase = "main"
    /\ NothingSimplifies
    /\ NothingCoalesces
    /\ NothingFreezes
    /\ \E u \in Remaining :
        /\ IsVictim(u)
        /\ Push(u)
        /\ optimistic' = optimistic \cup {u}
    /\ settled' = Scanned
    /\ UNCHANGED <<inputs, neighbours, crossesCall, useWeight, color, spilled,
                   rep, class, phase, coalesced, frozen, result>>

\* The graph is empty: the main loop breaks
EndMain ==
    /\ phase = "main"
    /\ Remaining = {}
    /\ phase' = "select"
    /\ settled' = Scanned
    /\ UNCHANGED <<inputs, neighbours, crossesCall, useWeight, removed, color,
                   spilled, rep, class, order, optimistic, coalesced, frozen,
                   result>>

\* The colours the select loop may give node
Taken(node) == {color[n] : n \in ActiveNeighbours(node)} \ {None}
Usable(node, reg) ==
    /\ reg \notin Taken(node)
    /\ node \in crossesCall => reg \in CalleeSaved

Pop ==
    /\ phase = "select"
    /\ order # <<>>
    /\ removed' = removed \ {order[Len(order)]}
    /\ order' = SubSeq(order, 1, Len(order) - 1)

SelectColor ==
    /\ Pop
    /\ LET node == order[Len(order)]
       IN \E i \in DOMAIN Pool :
            /\ Usable(node, Pool[i])
            /\ \A j \in DOMAIN Pool : j < i => ~Usable(node, Pool[j])
            /\ color' = [color EXCEPT ![node] = Pool[i]]
    /\ UNCHANGED <<inputs, neighbours, crossesCall, useWeight, spilled, rep,
                   settled, class, phase, optimistic, coalesced, frozen, result>>

SelectSpill ==
    /\ Pop
    /\ LET node == order[Len(order)]
       IN /\ \A i \in DOMAIN Pool : ~Usable(node, Pool[i])
          /\ spilled' = spilled \cup {node}
    /\ UNCHANGED <<inputs, neighbours, crossesCall, useWeight, color, rep,
                   settled, class, phase, optimistic, coalesced, frozen, result>>

EndSelect ==
    /\ phase = "select"
    /\ order = <<>>
    /\ LeaveClass
    /\ UNCHANGED <<inputs, neighbours, crossesCall, useWeight, removed, color,
                   spilled, rep, settled, order, optimistic, coalesced, frozen,
                   result>>

InMemory(u) == u \in spilled \/ color[u] = None

Survivors == {u \in Units : ~Merged(u)}

Publish ==
    /\ phase = "publish"
    /\ phase' = "done"
    /\ assigned' = [u \in Units |-> IF InMemory(rep[u]) THEN None ELSE color[rep[u]]]
    /\ usedCalleeSaved' = {color[rep[u]] : u \in {v \in Units : ~InMemory(rep[v])}}
                            \cap CalleeSaved
    /\ stats' = [colored |-> Cardinality({u \in Survivors : ~InMemory(u)}),
                 spilled |-> Cardinality({u \in Survivors : InMemory(u)})]
    /\ UNCHANGED <<inputs, neighbours, crossesCall, useWeight, removed, color,
                   spilled, rep, settled, class, order, optimistic, coalesced,
                   frozen>>

MainLoop == Simplify \/ Coalesce \/ Freeze \/ Spill \/ EndMain
SelectLoop == SelectColor \/ SelectSpill \/ EndSelect

Next == EnterClass \/ NoRegisters \/ MainLoop \/ SelectLoop \/ Publish

Spec == Init /\ [][Next]_vars

\* The allocator is one sequential call: it runs on until it returns
FairSpec == Spec /\ WF_vars(Next)

-----------------------------------------------------------------------------
(* Properties *)

\* Every variable holds a value of the type the code gives it.
TypeOK ==
    /\ target \in [RegClasses -> Seq(Registers)]
    /\ regClass \in [Units -> RegClasses]
    /\ graph \in [Units -> SUBSET Units]
    /\ spans \in SUBSET Units
    /\ moves \in Seq(Units \X Units)
    /\ neighbours \in [Units -> SUBSET Units]
    /\ crossesCall \in SUBSET Units
    /\ useWeight \in [Units -> Nat]
    /\ removed \in SUBSET Units
    /\ color \in [Units -> Registers \cup {None}]
    /\ spilled \in SUBSET Units
    /\ rep \in [Units -> Units]
    /\ settled \in SUBSET DOMAIN moves
    /\ class \in RegClasses
    /\ phase \in {"enter", "main", "select", "publish", "done"}
    /\ order \in Seq(Units)
    /\ optimistic \in SUBSET Units
    /\ assigned \in [Units -> Registers \cup {None}]

\* Two units the interference graph joins never end up in one register: not by
\* being coalesced, however stale the neighbour sets are, and not by select.
ProperColouring ==
    \A u \in Units : \A v \in graph[u] :
        /\ rep[u] # rep[v]
        /\ assigned[u] # None => assigned[u] # assigned[v]

\* A unit live across a call never gets a caller-saved register, even when the
\* call was crossed by another unit it was coalesced with.
CallSafe ==
    \A u \in spans : assigned[u] \in CalleeSaved \cup {None}

EveryRegisterSurvivesCalls ==
    \A i \in DOMAIN Pool : Pool[i] \in CalleeSaved

\* A node that was simplified, not pushed by spillOne, always finds a colour as
\* long as every register survives a call: coalescing after it left the graph
\* never adds to the neighbours it meets at select.
OnlyOptimisticNodesSpill ==
    K > 0 /\ EveryRegisterSurvivesCalls =>
        \A u \in spilled : regClass[u] = class => u \in optimistic

\* The graph still to be coloured can be coloured with the K registers, the
\* units that span a call with the callee-saved ones.
Colourable ==
    \E c \in [Remaining -> 1 .. K] :
        /\ \A u \in Remaining : \A v \in ActiveNeighbours(u) : c[u] # c[v]
        /\ \A u \in Remaining \cap crossesCall : Pool[c[u]] \in CalleeSaved

\* Briggs' test is conservative where every register of the pool survives a
\* call, as it does in the floating-point pool: a coalescing step never turns a
\* colourable graph into one that is not.
CoalescingIsConservative ==
    [][Coalesce /\ EveryRegisterSurvivesCalls /\ Colourable => Colourable']_vars

\* Every branch of the main loop removes a node, merges two or settles a move,
\* so the allocator returns.
Terminates == <>(phase = "done")
=============================================================================
