---------------------------- MODULE Interference ----------------------------
(***************************************************************************)
(* The allocator's view of a function once it is out of SSA form: the      *)
(* allocation units, how long each is live, which of them interfere and    *)
(* which are copied into each other (src/backend/RegAlloc.cpp, buildUnits  *)
(* to addArgumentInterference), and the check an assignment is put through *)
(* before it is used (verifyAssignment).                                   *)
(*                                                                         *)
(* A unit is a location: an argument, the result of an instruction, or the *)
(* root that the copies of a phi share.  Units are numbered as buildUnits  *)
(* meets them.  The dataflow solver is module Dataflow; here its answer is *)
(* computed by rounds over the whole function.                             *)
(***************************************************************************)
EXTENDS Dominators

LocationOf(f, v) == IF IsRef(v) /\ v[2] \in DOMAIN f.alias THEN Ref(f.alias[v[2]]) ELSE v

\* The address of a slot is no candidate: the slot has to exist
IsCandidate(f, v) ==
    v[1] = "arg" \/ (IsRef(v) /\ HasResult(f.inst[v[2]]) /\ f.inst[v[2]].op # "alloca")

ClassOf(f, v) == IF TypeOf(f, v) = "f64" THEN "Float" ELSE "Integer"

\* The arguments, then the instructions in block order
Values(f) ==
    [n \in DOMAIN f.params |-> Arg(n)] \o [n \in DOMAIN ProgramOrder(f) |-> Ref(ProgramOrder(f)[n])]

\* buildUnits: a unit for every location a candidate names
UnitsOf(f) ==
    LET Add(units, v) ==
          IF ~IsCandidate(f, v) \/ Contains(units, LocationOf(f, v)) THEN units
          ELSE Append(units, LocationOf(f, v))
    IN InOrder(Add, <<>>, Values(f))

\* unitOf, as a set: no unit or one
UnitAt(f, units, v) == {u \in DOMAIN units : units[u] = LocationOf(f, v)}
UsedBy(f, units, i) == UNION {UnitAt(f, units, v) : v \in ToSet(f.inst[i].args)}
DefinedBy(f, units, i) == UnitAt(f, units, Ref(i))

\* What a mention costs: the measured count of the block, or ten for each loop
\* around it.  count has the blocks a profile was read for
WeightOf(loops, count, b) ==
    LET depth == Cardinality({loop \in loops : b \in loop.body})
    IN IF b \in DOMAIN count THEN count[b] ELSE 10 ^ (IF depth < 6 THEN depth ELSE 6)

UseWeights(f, units, count) ==
    LET loops == LoopsOf(f, ImmediateDominators(f))
        mentions(b, u) ==
          FoldLeft(+, 0, [n \in DOMAIN f.code[b] |->
            Len(SelectSeq(<<Ref(f.code[b][n])>> \o f.inst[f.code[b][n]].args,
                          LAMBDA v : units[u] = LocationOf(f, v)))])
    IN [u \in DOMAIN units |->
          FoldLeft(+, 0, [k \in DOMAIN f.order |->
                            mentions(f.order[k], u) * WeightOf(loops, count, f.order[k])])]

-----------------------------------------------------------------------------
(* Live ranges *)

\* The root copy of a phi reads and writes its own location: neither a definition
\* nor a use
IsTransparentSelfCopy(f, i) == f.inst[i].op = "copy" /\ f.inst[i].args = <<Ref(i)>>

\* What is live before instruction i, from what is live after it
LiveBefore(f, units, i, live) ==
    IF IsTransparentSelfCopy(f, i) THEN live
    ELSE (live \ DefinedBy(f, units, i)) \cup UsedBy(f, units, i)

\* live[n]: the units live after the first n instructions of b
LiveAfter(f, units, b, liveOut) ==
    LET upwards == InOrder(LAMBDA live, i : <<LiveBefore(f, units, i, Head(live))>> \o live,
                           <<liveOut>>, Reverse(f.code[b]))
    IN [n \in 0 .. Len(f.code[b]) |-> upwards[n + 1]]

\* computeUnitLiveness: live[b][n], n = 0 the top of b
UnitLiveness(f, units) ==
    LET Within(liveOut) == [b \in Blocks(f) |-> LiveAfter(f, units, b, liveOut[b])]
        Round(liveOut, k) ==
          LET live == Within(liveOut)
          IN [b \in Blocks(f) |-> UNION {live[c][0] : c \in ToSet(Successors(f, b))}]
    IN Within(InOrder(Round, [b \in Blocks(f) |-> {}], f.order))

-----------------------------------------------------------------------------
(* Interference.  live is what UnitLiveness says *)

\* Where instructions are, the transparent ones left out
Points(f) ==
    {p \in UNION {{b} \X DOMAIN f.code[b] : b \in Blocks(f)} :
        ~IsTransparentSelfCopy(f, f.code[p[1]][p[2]])}

\* Mutant: the textbook exclusion of a copy's source
MeetsAt_MoveExclusion(f, units, live, p) ==
    LET i == f.code[p[1]][p[2]]
    IN DefinedBy(f, units, i) \X
         (live[p[1]][p[2]] \ (IF f.inst[i].op = "copy" THEN UsedBy(f, units, i) ELSE {}))

\* What an instruction defines meets everything live after it, the source of a
\* copy included
MeetsAt(f, units, live, p) == DefinedBy(f, units, f.code[p[1]][p[2]]) \X live[p[1]][p[2]]

\* addArgumentInterference: an argument is defined where the function is entered
ArgumentsMeet(f, units, live) ==
    UNION {UnitAt(f, units, Arg(n)) \X live[Entry(f)][0] : n \in DOMAIN f.params}

Meets(f, units, live) ==
    ArgumentsMeet(f, units, live) \cup UNION {MeetsAt(f, units, live, p) : p \in Points(f)}

\* interfere: both directions, and never between two classes
InterferenceGraph(meets, cls, all) ==
    [u \in all |-> {v \in all \ {u} : cls[u] = cls[v] /\ {<<u, v>>, <<v, u>>} \cap meets # {}}]

\* The units a call at p must not disturb
AcrossCall(f, units, live, p) == live[p[1]][p[2]] \ DefinedBy(f, units, f.code[p[1]][p[2]])

CallPoints(f) == {p \in Points(f) : f.inst[f.code[p[1]][p[2]]].op = "call"}

CrossesCall(f, units, live) == UNION {AcrossCall(f, units, live, p) : p \in CallPoints(f)}

\* The copies between two units of a class, as the walk meets them: from the end of
\* each block to its top
CopiesBetween(f, units, cls) ==
    LET moves(i) ==
          SetToSeq({m \in DefinedBy(f, units, i) \X UsedBy(f, units, i) :
                      f.inst[i].op = "copy" /\ m[1] # m[2] /\ cls[m[1]] = cls[m[2]]})
        backwards(b) == Reverse([n \in DOMAIN f.code[b] |-> moves(f.code[b][n])])
    IN FlattenSeq([k \in DOMAIN f.order |-> FlattenSeq(backwards(f.order[k]))])

-----------------------------------------------------------------------------
(* verifyAssignment: home gives the register of each unit, None when it is in memory *)

Clashes(home, none, live) ==
    {pair \in live \X live : pair[1] < pair[2] /\ home[pair[1]] = home[pair[2]] /\ home[pair[1]] # none}

\* The units it complains of, at block exits, before instructions and across calls
AssignmentErrors(f, units, live, home, none, calleeSaved) ==
    UNION {Clashes(home, none, live[b][Len(f.code[b])]) : b \in Blocks(f)}
    \cup UNION {Clashes(home, none, live[p[1]][p[2] - 1]) : p \in Points(f)}
    \cup UNION {{<<u, u>> : u \in {v \in AcrossCall(f, units, live, p) :
                                     home[v] \notin calleeSaved \cup {none}}} : p \in CallPoints(f)}
=============================================================================
