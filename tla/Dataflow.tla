------------------------------ MODULE Dataflow ------------------------------
(***************************************************************************)
(* runDataflow of include/optiforge/analysis/Dataflow.h: the worklist      *)
(* solver under every set-based analysis of the compiler.                  *)
(*                                                                         *)
(* A forward analysis reads a block's in set and produces its out set, a   *)
(* backward one the reverse; before and after are those two sets whichever *)
(* way the analysis runs.  The meet is union, as in both analyses of the   *)
(* repository, and so are their boundary and initial sets the empty set.   *)
(* The transfer function is part of the problem; module Liveness derives   *)
(* it from the blocks' instructions.                                       *)
(***************************************************************************)
EXTENDS Integers, Sequences, FiniteSets

CONSTANTS
    NBlocks,   \* blocks are numbered in the function's order, 1 the entry
    Facts,     \* the domain: what a set of the analysis may contain
    Functions, \* whatever the problems are derived from
    Problems   \* the problems: direction, successors, transfer function

Blocks == 1 .. NBlocks
Directions == {"Forward", "Backward"}

\* Every transfer function is monotone: more known before a block never means
\* less known after it
ASSUME ProblemAssumption ==
    /\ NBlocks \in Nat \ {0}
    /\ Problems \subseteq [function : Functions,
                           direction : Directions,
                           succ : [Blocks -> SUBSET Blocks],
                           transfer : [Blocks -> [SUBSET Facts -> SUBSET Facts]]]
    /\ \A p \in Problems : \A b \in Blocks : \A X \in SUBSET Facts : \A Y \in SUBSET X :
          p.transfer[b][Y] \subseteq p.transfer[b][X]

VARIABLES
    problem,        \* the arguments of the call
    before, after,  \* result.in and result.out, or the other way round
    worklist, queued

vars == <<problem, before, after, worklist, queued>>

Successors(b) == problem.succ[b]
Predecessors(b) == {p \in Blocks : b \in problem.succ[p]}

\* The neighbours a block's sets are met over, and the ones its own feed
Sources(b) == IF problem.direction = "Forward" THEN Predecessors(b) ELSE Successors(b)

\* Mutant: the blocks met over are queued again, not the ones downstream
Affected_Upstream(b) ==
    IF problem.direction = "Forward" THEN Predecessors(b) ELSE Successors(b)

Affected(b) == IF problem.direction = "Forward" THEN Successors(b) ELSE Predecessors(b)

IsBoundary(b) ==
    IF problem.direction = "Forward" THEN b = 1 ELSE Successors(b) = {}

Incoming(b) == IF IsBoundary(b) THEN before[b] ELSE UNION {after[n] : n \in Sources(b)}
Produced(b) == problem.transfer[b][Incoming(b)]

\* Mutant: a block whose set did not change feeds its neighbours all the same
Changed_Always(b) == TRUE

Changed(b) == after[b] # Produced(b)

\* What stays queued once block b is taken off the worklist
Waiting(b) == queued \ {b}

Entries(list) == {list[i] : i \in DOMAIN list}
InSomeOrder(S) ==
    {list \in [1 .. Cardinality(S) -> S] : Entries(list) = S}

\* Mutant: the sets start full, as for an analysis that meets by intersection
Init_Full ==
    /\ problem \in Problems
    /\ before = [b \in Blocks |-> {}]
    /\ after = [b \in Blocks |-> Facts]
    /\ worklist = [i \in Blocks |->
                      IF problem.direction = "Forward" THEN i ELSE NBlocks + 1 - i]
    /\ queued = Blocks

Init ==
    /\ problem \in Problems
    /\ before = [b \in Blocks |-> {}]
    /\ after = [b \in Blocks |-> {}]
    /\ worklist = [i \in Blocks |->
                      IF problem.direction = "Forward" THEN i ELSE NBlocks + 1 - i]
    /\ queued = Blocks

\* One round of the loop on the block at the front.  The order of the blocks
\* queued is that of a list of neighbours the CFG keeps, any order here.
Visit ==
    /\ worklist # <<>>
    /\ LET block == Head(worklist)
           requeued == IF Changed(block) THEN Affected(block) \ Waiting(block) ELSE {}
       IN /\ before' = [before EXCEPT ![block] = Incoming(block)]
          /\ after' = [after EXCEPT ![block] = Produced(block)]
          /\ queued' = Waiting(block) \cup requeued
          /\ \E list \in InSomeOrder(requeued) : worklist' = Tail(worklist) \o list
    /\ UNCHANGED problem

Spec == Init /\ [][Visit]_vars

\* A loop of one sequential call
FairSpec == Spec /\ WF_vars(Visit)

-----------------------------------------------------------------------------
(* Properties *)

Solved == worklist = <<>>

\* Every variable holds a value of its type.
TypeOK ==
    /\ problem.direction \in Directions
    /\ before \in [Blocks -> SUBSET Facts]
    /\ after \in [Blocks -> SUBSET Facts]
    /\ worklist \in Seq(Blocks)
    /\ queued \in SUBSET Blocks

\* When the worklist runs empty the sets solve the equations of the problem:
\* no block is left with an answer computed from an older one of a neighbour.
FixedPoint ==
    Solved => \A b \in Blocks :
        /\ IsBoundary(b) => before[b] = {}
        /\ ~IsBoundary(b) => before[b] = UNION {after[n] : n \in Sources(b)}
        /\ after[b] = problem.transfer[b][before[b]]

\* An assignment of after sets that solves the equations
IsSolution(s) ==
    \A b \in Blocks :
        s[b] = problem.transfer[b][IF IsBoundary(b) THEN {} ELSE UNION {s[n] : n \in Sources(b)}]

\* What the solver returns is the least solution: it never claims more than any
\* other does.
LeastSolution ==
    Solved => \A s \in [Blocks -> SUBSET Facts] :
        IsSolution(s) => \A b \in Blocks : after[b] \subseteq s[b]

\* The solver reaches a fixed point.
Converges == <>Solved
=============================================================================
