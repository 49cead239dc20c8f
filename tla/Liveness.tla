------------------------------ MODULE Liveness ------------------------------
(***************************************************************************)
(* The two analyses of src/analysis/Liveness.cpp on top of the solver: the *)
(* values live at the boundaries of each block, and the stores that reach  *)
(* them.  A function is a record: succ, the successors of each block;      *)
(* phis, the phis of each block as a sequence of [def, from] where from    *)
(* maps a predecessor to the value that arrives from it; body, the other   *)
(* instructions as a sequence of [def, uses], def being None for one that  *)
(* has no result; and stores, the stores of each block as a sequence of    *)
(* facts, two of which write one slot when slot gives them the same.       *)
(* Constants and other values the analyses do not track are left out.      *)
(***************************************************************************)
EXTENDS Dataflow, SequencesExt

CONSTANT None

-----------------------------------------------------------------------------
(* Liveness *)

\* What the phis of a block's successors read along the edge from it
PhiUsesOnExit(f, b) ==
    {phi.from[b] : phi \in {x \in UNION {Range(f.phis[s]) : s \in f.succ[b]} :
                                b \in DOMAIN x.from}} \ {None}

\* What is live above an instruction, given what is live below it
Above(instruction, live) == (live \ {instruction.def}) \cup instruction.uses

\* What is live before the last n instructions of a body, all of it at n = Len
LiveAbove(body, liveBelow) ==
    LET live[n \in 0 .. Len(body)] ==
          IF n = 0 THEN liveBelow ELSE Above(body[Len(body) + 1 - n], live[n - 1])
    IN live[Len(body)]

\* Mutant: the phi uses are added after the walk, as the code once did
LiveInOf_PhiUsesLast(f, b, liveOut) ==
    (LiveAbove(f.body[b], liveOut) \ {phi.def : phi \in Range(f.phis[b])})
        \cup PhiUsesOnExit(f, b)

\* The backward walk over a block: its body, then its phis, which only define
LiveInOf(f, b, liveOut) ==
    LiveAbove(f.body[b], liveOut \cup PhiUsesOnExit(f, b))
        \ {phi.def : phi \in Range(f.phis[b])}

LivenessProblem(f) ==
    [function |-> f, direction |-> "Backward", succ |-> f.succ,
     transfer |-> [b \in Blocks |-> [S \in SUBSET Facts |-> LiveInOf(f, b, S)]]]

LiveIn(b) == after[b]

\* The out sets as published: the values read on the edges belong to them
LiveOut(b) == before[b] \cup PhiUsesOnExit(problem.function, b)

-----------------------------------------------------------------------------
(* Reaching definitions *)

\* Mutant: a store kills nothing
ReachingOutOf_NoKill(f, b, reachingIn) == reachingIn \cup Range(f.stores[b])

\* The forward walk over a block: a store kills every other to its slot
ReachingOutOf(f, b, reachingIn) ==
    LET stores == f.stores[b]
        reaching[n \in 0 .. Len(stores)] ==
          IF n = 0 THEN reachingIn
            ELSE {e \in reaching[n - 1] : f.slot[e] # f.slot[stores[n]]} \cup {stores[n]}
    IN reaching[Len(stores)]

ReachingProblem(f) ==
    [function |-> f, direction |-> "Forward", succ |-> f.succ,
     transfer |-> [b \in Blocks |-> [S \in SUBSET Facts |-> ReachingOutOf(f, b, S)]]]

\* What a function is.  Nothing branches to the entry: the IR verifier refuses
\* a function whose entry block has predecessors
IsFunction(f) ==
    /\ f.succ \in [Blocks -> SUBSET (Blocks \ {1})]
    /\ f.body \in [Blocks -> Seq([def : Facts \cup {None}, uses : SUBSET Facts])]
    /\ f.stores \in [Blocks -> Seq(Facts)]
    /\ \A b \in Blocks : PhiUsesOnExit(f, b) \subseteq Facts

ASSUME AnalysisAssumption ==
    \A p \in Problems :
        /\ IsFunction(p.function)
        /\ p \in {LivenessProblem(p.function), ReachingProblem(p.function)}

-----------------------------------------------------------------------------
(* What the analyses promise, on the paths of the CFG *)

\* The blocks some path from b arrives at before it has gone through a block of
\* stop
ArrivesAt(f, b, stop) ==
    LET g[n \in 0 .. NBlocks] ==
          IF n = 0 THEN {b} ELSE g[n - 1] \cup UNION {f.succ[c] : c \in g[n - 1] \ stop}
    IN g[NBlocks]

Defines(f, b, v) ==
    \/ \E phi \in Range(f.phis[b]) : phi.def = v
    \/ \E i \in Range(f.body[b]) : i.def = v

\* Block b reads the value v had on arrival: in its body, or on an edge out
ReadsOnArrival(f, b, v) ==
    \/ /\ \A phi \in Range(f.phis[b]) : phi.def # v
       /\ \E i \in DOMAIN f.body[b] :
            /\ v \in f.body[b][i].uses
            /\ \A j \in DOMAIN f.body[b] : j < i => f.body[b][j].def # v
    \/ ~Defines(f, b, v) /\ v \in PhiUsesOnExit(f, b)

LiveOnPath(f, b) ==
    {v \in Facts : \E c \in ArrivesAt(f, b, {d \in Blocks : Defines(f, d, v)}) :
                      ReadsOnArrival(f, c, v)}

\* A value is live into a block exactly when some path from the block's start reads
\* it, in an instruction or on an edge into a phi, before redefining it; and out of it
\* exactly when a phi reads it on an edge out or a successor has it live in.
LivenessIsPathLiveness ==
    Solved /\ problem.direction = "Backward" =>
        LET f == problem.function
        IN \A b \in Blocks :
              /\ LiveIn(b) = LiveOnPath(f, b)
              /\ LiveOut(b) = PhiUsesOnExit(f, b) \cup UNION {LiveOnPath(f, s) : s \in f.succ[b]}

WritesSlot(f, b, s) == \E d \in Range(f.stores[b]) : f.slot[d] = s

\* Store d is the last one in its block to write its slot
LeavesItsBlock(f, b, d) ==
    \E i \in DOMAIN f.stores[b] :
        /\ f.stores[b][i] = d
        /\ \A j \in DOMAIN f.stores[b] : j > i => f.slot[f.stores[b][j]] # f.slot[d]

\* A store reaches the start of a block exactly when some path leads there from
\* it without another store to its slot.
ReachingIsPathReaching ==
    Solved /\ problem.direction = "Forward" =>
        LET f == problem.function
            writers(d) == {b \in Blocks : WritesSlot(f, b, f.slot[d])}
        IN \A b \in Blocks : before[b] =
              {d \in Facts : \E home \in Blocks :
                  /\ LeavesItsBlock(f, home, d)
                  /\ \E s \in f.succ[home] : b \in ArrivesAt(f, s, writers(d))}
=============================================================================
