---------------------------- MODULE Compilation ----------------------------
(***************************************************************************)
(* The compiler from a text to machine code, without a profile: the driver *)
(* of src/driver/main.cpp with the parser, semantic analysis, IR           *)
(* generation, SSA construction and destruction, register allocation and   *)
(* code generation, one function after the other.  A text the parser or    *)
(* semantic analysis complains of stops there, IR a verifier complains of  *)
(* stops with an internal error.                                           *)
(*                                                                         *)
(* With level "none" the middle end does nothing; with "ssa" it is SSA     *)
(* construction alone.  The passes are the business of module MiddleEnd,   *)
(* and the toolchain behind the assembly that of module Driver.            *)
(***************************************************************************)
EXTENDS Allocation, Machine, Parser, IRGen, SSAForm, SourceMeaning

CONSTANT
    Jobs  \* what the compiler is given: [text, options]

ASSUME JobsAssumption ==
    \A job \in Jobs : job.options \in [level : {"none", "ssa"}, allocator : {"graph", "naive"}]

VARIABLES
    text, options,  \* the job
    stage,          \* how far it is
    parser, tree,   \* the parser, and what Sema made of the tree it left
    functions,      \* the IR module
    todo,           \* the functions code is yet to be generated for
    assembly,       \* the functions that have their code
    unsound,        \* an assignment was found to be wrong
    meant           \* history: what the program does according to its tree

cvars == <<text, options, stage, parser, tree, functions, todo, assembly, unsound, meant>>
allvars == <<cvars, avars>>

CompilationInit ==
    /\ AllocationInit
    /\ \E job \in Jobs : text = job.text /\ options = job.options
    /\ stage = "parsing" /\ parser = Parser0(text)
    /\ tree = <<>> /\ functions = <<>> /\ todo = <<>> /\ assembly = <<>>
    /\ unsound = FALSE /\ meant = <<>>

-----------------------------------------------------------------------------
(* The front end *)

\* A round of parseProgram.  A loop inside it that does not move goes on for ever
ParseFunction ==
    /\ stage = "parsing" /\ ~ParseDone(parser)
    /\ parser' = IF parser.hung THEN [parser EXCEPT !.ok = ~@] ELSE ParseTopLevel(parser)
    /\ UNCHANGED <<text, options, stage, tree, functions, todo, assembly, unsound, meant, avars>>

EndParsing ==
    /\ stage = "parsing" /\ ParseDone(parser)
    /\ stage' = IF parser.hadError THEN "rejected" ELSE "analysing"
    /\ UNCHANGED <<text, options, parser, tree, functions, todo, assembly, unsound, meant, avars>>

AnalyzeProgram ==
    /\ stage = "analysing"
    /\ \E analysis \in {Analyze(parser.node)} :
         IF analysis.errors = 0
           THEN stage' = "lowering" /\ tree' = analysis.node /\ meant' = Meaning(parser.node)
           ELSE stage' = "rejected" /\ UNCHANGED <<tree, meant>>
    /\ UNCHANGED <<text, options, parser, functions, todo, assembly, unsound, avars>>

-----------------------------------------------------------------------------
(* The middle end *)

\* The driver verifies the module after every stage
Verified(module, next) ==
    /\ functions' = module
    /\ stage' = IF \A name \in DOMAIN module :
                      Declaration(module[name]) \/ VerifierAcceptsIn(module[name], module)
                  THEN next ELSE "internal error"

OnBodies(Edit(_)) ==
    [name \in DOMAIN functions |->
        IF Declaration(functions[name]) THEN functions[name] ELSE Edit(functions[name])]

LowerToIR ==
    /\ stage = "lowering"
    /\ Verified(LowerProgram(tree), IF options.level = "ssa" THEN "promoting" ELSE "destroying")
    /\ UNCHANGED <<text, options, parser, tree, todo, assembly, unsound, meant, avars>>

ConstructSSA ==
    /\ stage = "promoting"
    /\ Verified(OnBodies(PromoteMemoryToRegisters), "destroying")
    /\ UNCHANGED <<text, options, parser, tree, todo, assembly, unsound, meant, avars>>

LeaveSSA ==
    /\ stage = "destroying"
    /\ Verified(OnBodies(DestroySSA), "generating")
    /\ todo' = [n \in DOMAIN tree |-> tree[n][2]]
    /\ UNCHANGED <<text, options, parser, tree, assembly, unsound, meant, avars>>

-----------------------------------------------------------------------------
(* The back end *)

BuildInterference ==
    /\ stage = "generating" /\ todo # <<>> /\ options.allocator = "graph"
    /\ Build(functions[Head(todo)], <<>>)
    /\ stage' = "allocating"
    /\ UNCHANGED <<text, options, parser, tree, functions, todo, assembly, unsound, meant>>

ColourRound == stage = "allocating" /\ Colour /\ UNCHANGED cvars

\* The code of the next function, with the registers of home
Generate(home, kept) ==
    /\ assembly' = (Head(todo) :> LowerFunction(functions[Head(todo)], home, kept)) @@ assembly
    /\ todo' = Tail(todo) /\ stage' = "generating"
    /\ UNCHANGED <<text, options, parser, tree, functions, meant, avars>>

\* An assignment with errors is not used: everything goes to the frame
GenerateAllocated ==
    /\ stage = "allocating" /\ phase = "done"
    /\ IF AssignmentErrors(func, units, live, assigned, None, CalleeSaved) = {}
         THEN Generate(Home, usedCalleeSaved) /\ UNCHANGED unsound
         ELSE Generate(<<>>, {}) /\ unsound' = TRUE

GenerateNaive ==
    /\ stage = "generating" /\ todo # <<>> /\ options.allocator = "naive"
    /\ Generate(<<>>, {}) /\ UNCHANGED unsound

Finish ==
    /\ stage = "generating" /\ todo = <<>>
    /\ stage' = IF unsound THEN "internal error" ELSE "done"
    /\ UNCHANGED <<text, options, parser, tree, functions, todo, assembly, unsound, meant, avars>>

Verdicts == {"done", "rejected", "internal error"}
Returned == stage \in Verdicts /\ UNCHANGED allvars

CompilationNext ==
    \/ ParseFunction \/ EndParsing \/ AnalyzeProgram
    \/ LowerToIR \/ ConstructSSA \/ LeaveSSA
    \/ BuildInterference \/ ColourRound \/ GenerateAllocated \/ GenerateNaive \/ Finish
    \/ Returned

\* One sequential run that goes on until it returns.  (As weak fairness of the steps
\* would say, for which TLC evaluates every one of them again: before the compiler
\* returns there always is a step, or the run ends in a deadlock.)
GoesOn == []<>(stage \in Verdicts) \/ []<><<TRUE>>_allvars

CompilationSpec == CompilationInit /\ [][CompilationNext]_allvars /\ GoesOn

-----------------------------------------------------------------------------
(* Running the module and the machine code *)

RECURSIVE RunFunction(_, _, _)
RunFunction(name, args, depth) ==
    LET Invoke(callee, x) ==
          IF Declaration(functions[callee]) THEN External(callee, x)
          ELSE IF depth = 0 THEN [out |-> <<>>, value |-> 0, status |-> "diverges"]
          ELSE RunFunction(callee, x, depth - 1)
    IN RunWith(functions[name], args, Invoke)

Runtime == [name \in DOMAIN Builtins |-> [code |-> <<>>, params |-> functions[name].params]]
Executed == RunProgram(assembly @@ Runtime)

-----------------------------------------------------------------------------

\* The compiler comes back with a verdict, whatever it is given: error recovery moves
\* on, the analyses and the allocator end (parseProgram: "CLI-10 requires that malformed
\* input never hangs the compiler")
CompilerReturns == <>(stage \in Verdicts)

\* The array lengths a text declares, each behind a type, a name and a bracket
DeclaredLengths ==
    {text[n][2] : n \in {m \in 4 .. Len(text) :
        text[m - 3][1] \in TypeKeywords /\ text[m - 1][1] = "[" /\ text[m][1] = "number"}}

\* A text without a complaint is the program the tree says, token by token: nothing is
\* skipped, and the operators group as the grammar has it.  (No text has parentheses it
\* does not need.)  That is so exactly if every length it declares fits unsigned: of a
\* longer array parseVarDecl makes a shorter one, or a scalar, and does not complain.
AcceptedTextIsTheTree ==
    stage = "analysing" =>
      (Written(parser.node) = text <=> \A n \in DeclaredLengths : n < 2^LengthWidth)

\* What semantic analysis lets through cannot go wrong: no name without a variable, no
\* value of another type, no function that ends without its result
AcceptedProgramsAreSound == stage = "lowering" => meant.status # "wrong"

\* Neither verifier has anything to complain of: not the IR verifier after lowering,
\* SSA construction and destruction, nor verifyAssignment
NoInternalError == stage # "internal error" /\ ~unsound

\* Lowered, and again in SSA form, the module does what the tree says
IRMeansTheSame ==
    stage \in {"promoting", "destroying"} /\ meant.status # "undefined" =>
      SameResult(RunFunction("main", <<>>, Fuel), meant)

\* The machine code prints and returns what the tree says, whichever registers its
\* values are in
CodeMeansTheSame ==
    stage = "done" /\ meant.status # "undefined" => SameResult(Executed, meant)

\* It leaves the stack and the registers of its caller as the convention wants them,
\* has the stack aligned at every call, and does not step over its guard page
CodeKeepsTheConvention ==
    stage = "done" /\ meant.status # "undefined" =>
      Executed.kept /\ Executed.status \notin {"misaligned", "wild", "fault"}
=============================================================================
