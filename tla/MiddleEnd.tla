------------------------------ MODULE MiddleEnd ------------------------------
(***************************************************************************)
(* A function on its way from IR generation through SSA construction and   *)
(* any sequence of the passes: the driver's pipelines are some of those    *)
(* sequences (src/passes/PassManager.cpp, pipelineFor), and                *)
(* adding-a-pass.md asks of a pass that it leaves valid IR wherever it     *)
(* runs.  A pass is one step; sccp is one step for every element its       *)
(* solver takes from a worklist.  LoopUnroll has a module of its own.      *)
(***************************************************************************)
EXTENDS SSAForm, ControlFlowPasses, SCCP

CONSTANTS
    Functions,  \* what IR generation may hand over
    Inputs,     \* the arguments the functions are executed with
    MaxPasses   \* bound: passes that change something

ASSUME MiddleEndAssumption ==
    MaxPasses \in Nat /\ \A f \in Functions : VerifierAccepts(f)

VARIABLES
    func,      \* the function
    pass,      \* "mem2reg", "sccp" while its solver runs, "idle" between passes
    solver,    \* the solver of sccp, <<>> when it does not run
    passes,    \* how many passes have changed the function
    meant      \* what the function did before any of them

vars == <<func, pass, solver, passes, meant>>

Behaviour(f) == [args \in {a \in Inputs : Len(a) = Len(f.params)} |-> Run(f, args)]

Init ==
    /\ func \in Functions
    /\ pass = "mem2reg" /\ solver = <<>> /\ passes = 0
    /\ meant = Behaviour(func)

\* A pass that ran from start to end and left the function as f
Leaves(f) ==
    /\ func' = f
    /\ passes' = passes + IF f = func THEN 0 ELSE 1
    /\ pass' = "idle" /\ solver' = <<>> /\ UNCHANGED meant

Idle == pass = "idle" /\ passes < MaxPasses

RunMem2Reg == pass = "mem2reg" /\ Leaves(PromoteMemoryToRegisters(func))

RunSimplifyCFG == Idle /\ Leaves(SimplifyCFG(func))
RunConstantFolding == Idle /\ Leaves(ConstantFolding(func))
RunCopyPropagation == Idle /\ Leaves(CopyPropagation(func))
RunDCE == Idle /\ Leaves(DeadCodeElimination(func))
RunStrengthReduction == Idle /\ Leaves(StrengthReduction(func))
RunGVN == Idle /\ Leaves(GVN(func))
RunLICM == Idle /\ Leaves(LICM(func))

\* With a profile or without one, and whatever it says of the blocks with calls
RunInline ==
    /\ Idle
    /\ LET calling == {b \in Blocks(func) : CallsIn(func, b) # <<>>} IN
       \E some \in [calling -> Heats] :
         Leaves(Inline(func, [b \in Blocks(func) |-> IF b \in calling THEN some[b] ELSE "unknown"]))

StartSCCP ==
    /\ Idle
    /\ pass' = "sccp"
    /\ \E backward \in BOOLEAN : solver' = StartSolver(func, backward)
    /\ UNCHANGED <<func, passes, meant>>

TakeBlock ==
    /\ pass = "sccp" /\ solver.mode = "blocks" /\ ~Solved(solver)
    /\ solver' = SolveBlock(func, solver)
    /\ UNCHANGED <<func, pass, passes, meant>>

TakeUser ==
    /\ pass = "sccp" /\ solver.mode = "users" /\ ~Solved(solver)
    /\ solver' = SolveUser(func, solver)
    /\ UNCHANGED <<func, pass, passes, meant>>

FinishSCCP == pass = "sccp" /\ Solved(solver) /\ Leaves(RewriteWith(func, solver))

Next ==
    \/ RunMem2Reg \/ RunSimplifyCFG \/ RunConstantFolding \/ RunCopyPropagation
    \/ RunDCE \/ RunStrengthReduction \/ RunGVN \/ RunLICM \/ RunInline
    \/ StartSCCP \/ TakeBlock \/ TakeUser \/ FinishSCCP

Spec == Init /\ [][Next]_vars

-----------------------------------------------------------------------------

\* Every pass leaves a function that owns what is in it and that both verifiers
\* accept, whichever passes ran before it (docs/adding-a-pass.md, "Leave the IR valid")
PassesLeaveValidIR ==
    pass = "idle" => IsFunction(func) /\ VerifierAccepts(func) /\ SSAAccepts(func)

\* The function prints, returns and traps as it did when it left IR generation
SameBehaviour ==
    pass = "idle" => \A args \in DOMAIN meant : SameResult(Run(func, args), meant[args])

\* The tree computeIdoms builds says what dominance means, and the frontiers built
\* from it say what dominance frontiers are: where the dominance of a block ends
DominatorsAreExact ==
    pass = "idle" =>
      LET idom == ImmediateDominators(func)
          frontier == Frontier(func, idom)
      IN /\ \A a, b \in Blocks(func) : Dominates(idom, a, b) <=> DominatesByPaths(func, a, b)
         /\ \A b, c \in Blocks(func) : c \in frontier[b] <=>
              /\ \E p \in ToSet(func.preds[c]) : DominatesByPaths(func, b, p)
              /\ b = c \/ ~DominatesByPaths(func, b, c)

\* When both worklists are empty no instruction of a block that may execute has
\* anything left to say, in whatever order they queued each other (solve())
SolvedIsAFixedPoint ==
    pass = "sccp" /\ Solved(solver) =>
      \A b \in solver.reachable : \A i \in ToSet(func.code[b]) :
        VisitInst(func, b, solver, i) = solver

\* "The lattice only ever descends, which is what guarantees termination" (update());
\* the code compares a value only with the one before
Descends(old, new) == old = new \/ old = Unknown \/ new = Overdefined
LatticeOnlyDescends ==
    [][pass = "sccp" /\ pass' = "sccp" =>
         \A i \in DOMAIN solver.values : Descends(solver.values[i], solver'.values[i])]_vars
=============================================================================
