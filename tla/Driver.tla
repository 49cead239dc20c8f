-------------------------------- MODULE Driver --------------------------------
(***************************************************************************)
(* runCompilation and the end of main (src/driver/main.cpp) around the     *)
(* pipeline: the phases of a build in order, the analysis cache between    *)
(* them, what goes wrong in the environment, the files on disk and the     *)
(* exit code.  Verifiers may reject anything here, tools may fail, and     *)
(* whether the frontend finds errors is arbitrary too.                     *)
(***************************************************************************)
EXTENDS PassManager

VARIABLES
    live,    \* the functions with a body still in the module
    errors,  \* DiagnosticEngine::hadError()
    files,   \* what this build has on disk: "s", "o", "exe"
    exit     \* the exit code, None while running

driverVars == <<live, errors, files, exit>>
vars == <<build, phase, pipelineVars, driverVars>>

ASSUME OptionsAssumption ==
    \A b \in Builds :
        /\ b.emit \in {"ast", "ir", "asm", "obj", "exe"}
        /\ {b.profile, b.werror, b.keepTemps} \subseteq BOOLEAN

Init ==
    /\ build \in Builds
    /\ phase = "frontend"
    /\ ir = build.start
    /\ cache = [f \in Funcs |-> Empty]
    /\ external = [f \in Funcs |-> None]
    /\ stale = {}
    /\ fn = 1 /\ next = 1
    /\ changedThisSweep = FALSE
    /\ iterations_ = 0
    /\ live = Funcs
    /\ errors = FALSE
    /\ files = {}
    /\ exit = None

\* Mutant: without the backstop at the end of main
ExitCode_AsReturned(code) == code

\* The exit code once main has looked at the diagnostics
ExitCode(code) == IF code = "Success" /\ errors' THEN "CompileError" ELSE code

\* runCompilation returns
Return(code) == phase' = "done" /\ exit' = ExitCode(code)

\* reportGlobal(Error, ...) and return
Fail(code) == errors' = TRUE /\ Return(code)

GoTo(p) == phase' = p /\ exit' = exit /\ fn' = 1 /\ next' = 1

-----------------------------------------------------------------------------
(* From the source to SSA *)

\* Lexer, parser, semantic analysis, --emit=ast, IR generation and its verifier
Frontend ==
    /\ phase = "frontend"
    /\ \/ \E code \in {"EnvironmentError", "CompileError", "InternalError"} : Fail(code)
       \/ build.emit = "ast" /\ errors' = errors /\ Return("Success")
       \/ build.emit # "ast" /\ errors' = errors /\ phase' = "profile" /\ exit' = exit
    /\ UNCHANGED <<build, pipelineVars, live, files>>

\* loadAndValidateProfile: an unusable or doubtful profile is worth a warning
LoadProfile ==
    /\ phase = "profile"
    /\ external' = IF build.useProfile = "none" THEN external
                   ELSE [f \in Funcs |->
                           IF build.useProfile = "unusable" THEN "invalid" ELSE "valid"]
    /\ errors' = (errors \/ (build.werror /\ build.useProfile \in {"unusable", "doubtful"}))
    /\ phase' = IF build.level = 0 THEN "emit" ELSE "mem2reg"
    /\ UNCHANGED <<build, ir, cache, stale, fn, next, changedThisSweep, iterations_,
                   live, files, exit>>

\* promoteMemoryToRegisters of one function.  One with nothing to promote asks
\* for no analysis, which makes no difference to what is cached afterwards
Mem2Reg ==
    /\ phase = "mem2reg"
    /\ stale' = StaleAfter("mem2reg", fn, {"DominatorTree", "DominanceFrontier"})
    /\ ir' = [ir EXCEPT ![fn] = build.effect["mem2reg"][ir][fn]]
    /\ Invalidate(fn)
    /\ IF fn < NFuncs THEN fn' = fn + 1 /\ phase' = phase
                      ELSE fn' = 1 /\ phase' = "verify-mem2reg"
    /\ UNCHANGED <<build, next, changedThisSweep, iterations_, driverVars>>

\* Verifier::verify, wherever the driver calls it: it reads no analysis
VerifyThen(at, then) ==
    /\ phase = at
    /\ \/ Fail("InternalError") /\ UNCHANGED <<fn, next>>
       \/ GoTo(then) /\ errors' = errors
    /\ UNCHANGED <<build, ir, cache, external, stale, changedThisSweep, iterations_,
                   live, files>>

\* removeUnusedFunctions: which ones nothing calls is up to the inliner
RemoveUnused ==
    /\ phase = "unused"
    /\ live' \in IF build.level >= 2 THEN {s \in SUBSET live : 1 \in s} ELSE {live}
    /\ phase' = "verify-pipeline"
    /\ UNCHANGED <<build, pipelineVars, errors, files, exit>>

\* verifySSA of one function, from a dominator tree
VerifySSA ==
    /\ phase = "verify-ssa"
    /\ IF fn \in live
         THEN /\ cache' = [cache EXCEPT ![fn] = Filled(fn, {"DominatorTree"})]
              /\ stale' = StaleAfter("verify-ssa", fn, {"DominatorTree"})
         ELSE UNCHANGED <<cache, stale>>
    /\ IF fn < NFuncs
         THEN fn' = fn + 1 /\ UNCHANGED <<phase, exit, errors>>
         ELSE fn' = 1 /\ (Fail("InternalError") \/ (phase' = "emit" /\ UNCHANGED <<exit, errors>>))
    /\ UNCHANGED <<build, ir, external, next, changedThisSweep, iterations_, live, files>>

-----------------------------------------------------------------------------
(* From SSA to machine code *)

EmitIR ==
    /\ phase = "emit"
    /\ errors' = errors
    /\ IF build.emit = "ir" THEN Return("Success") ELSE phase' = "destroy" /\ exit' = exit
    /\ UNCHANGED <<build, pipelineVars, live, files>>

Rewritten(by, module) == [f \in Funcs |-> IF f \in live THEN build.effect[by][module][f] ELSE module[f]]

DestroySSA ==
    /\ phase = "destroy"
    /\ ir' = Rewritten("destroy-ssa", ir)
    /\ phase' = "verify-destroyed"
    /\ UNCHANGED <<build, cache, external, stale, fn, next, changedThisSweep, iterations_, driverVars>>

\* Mutant: what was cached about the SSA form is kept
InvalidateAll_Forgotten == cache' = cache

InvalidateAll == cache' = [f \in Funcs |-> Empty]

\* The cache is dropped; the second annotation of the block counts only reads
DropAnalyses ==
    /\ phase = "drop"
    /\ InvalidateAll
    /\ phase' = IF build.profile THEN "instrument" ELSE "codegen"
    /\ UNCHANGED <<build, ir, external, stale, fn, next, changedThisSweep, iterations_, driverVars>>

\* instrumentForProfiling of one function.  First its critical edges are split
SplitEdges ==
    /\ phase = "instrument"
    /\ IF fn \in live
         THEN /\ ir' = [ir EXCEPT ![fn] = build.effect["split-edges"][ir][fn]]
              /\ Invalidate(fn)
         ELSE UNCHANGED <<ir, cache, external>>
    /\ phase' = "insert-counters"
    /\ UNCHANGED <<build, stale, fn, next, changedThisSweep, iterations_, driverVars>>

\* Then the loops are asked for, and the counters go in
InsertCounters ==
    /\ phase = "insert-counters"
    /\ IF fn \in live
         THEN /\ stale' = StaleAfter("instrument", fn, {"Loops"})
              /\ ir' = [ir EXCEPT ![fn] = build.effect["insert-counters"][ir][fn]]
              /\ Invalidate(fn)
         ELSE UNCHANGED <<stale, ir, cache, external>>
    /\ IF fn < NFuncs THEN fn' = fn + 1 /\ phase' = "instrument"
                      ELSE fn' = 1 /\ phase' = "verify-counters"
    /\ UNCHANGED <<build, next, changedThisSweep, iterations_, driverVars>>

InstrumentDone ==
    /\ phase = "instrumented"
    /\ InvalidateAll
    /\ phase' = "codegen"
    /\ UNCHANGED <<build, ir, external, stale, fn, next, changedThisSweep, iterations_, driverVars>>

\* CodeGen::run on one function: the register allocator asks for the loops (the
\* naive one for nothing, which leaves less in the cache and reads less of it)
GenerateCode ==
    /\ phase = "codegen"
    /\ fn <= NFuncs
    /\ IF fn \in live
         THEN /\ cache' = [cache EXCEPT ![fn] = Filled(fn, {"Loops"})]
              /\ stale' = StaleAfter("codegen", fn, {"Loops"})
         ELSE UNCHANGED <<cache, stale>>
    /\ fn' = fn + 1
    /\ UNCHANGED <<build, phase, ir, external, next, changedThisSweep, iterations_, driverVars>>

\* An unsound allocation is an internal error; --emit=asm ends here
EmitAsm ==
    /\ phase = "codegen"
    /\ fn > NFuncs
    /\ \/ Fail("InternalError")
       \/ build.emit = "asm" /\ errors' = errors /\ Return("Success")
       \/ build.emit # "asm" /\ errors' = errors /\ phase' = "write" /\ exit' = exit
    /\ UNCHANGED <<build, pipelineVars, live, files>>

-----------------------------------------------------------------------------
(* Assemble and link *)

\* Mutant: the object is kept whatever the build was for
Cleaned_KeepsObject(present, keepObject) ==
    IF build.keepTemps THEN present ELSE present \ {"s"}

\* cleanup(keepObject)
Cleaned(present, keepObject) ==
    IF build.keepTemps THEN present
                       ELSE present \ ({"s"} \cup IF keepObject THEN {} ELSE {"o"})

WriteAsm ==
    /\ phase = "write"
    /\ \/ Fail("EnvironmentError") /\ files' = files
       \/ files' = files \cup {"s"} /\ errors' = errors /\ phase' = "assemble" /\ exit' = exit
    /\ UNCHANGED <<build, pipelineVars, live>>

\* A failing assembler may have written an object all the same
Assemble ==
    /\ phase = "assemble"
    /\ \/ /\ Fail("EnvironmentError")
          /\ \E left \in {files, files \cup {"o"}} : files' = Cleaned(left, FALSE)
       \/ /\ build.emit = "obj" /\ errors' = errors /\ Return("Success")
          /\ files' = Cleaned(files \cup {"o"}, TRUE)
       \/ /\ build.emit # "obj" /\ errors' = errors /\ phase' = "link" /\ exit' = exit
          /\ files' = files \cup {"o"}
    /\ UNCHANGED <<build, pipelineVars, live>>

\* libofrt.a, or libofprof.a for an instrumented build, is not found
MissingRuntime == Fail("EnvironmentError")

Link ==
    /\ phase = "link"
    /\ \/ MissingRuntime /\ files' = Cleaned(files, FALSE)
       \/ /\ Fail("EnvironmentError")
          /\ \E left \in {files, files \cup {"exe"}} : files' = Cleaned(left, FALSE)
       \/ /\ errors' = errors /\ Return("Success")
          /\ files' = Cleaned(files \cup {"exe"}, FALSE)
    /\ UNCHANGED <<build, pipelineVars, live>>

-----------------------------------------------------------------------------
Verify ==
    \/ VerifyThen("verify-mem2reg", "pipeline")
    \/ VerifyThen("verify-pipeline", "verify-ssa")
    \/ VerifyThen("verify-destroyed", "drop")
    \/ VerifyThen("verify-counters", "instrumented")

Next ==
    \/ Frontend \/ LoadProfile \/ Mem2Reg \/ Verify
    \/ RunPipeline /\ UNCHANGED driverVars
    \/ RemoveUnused \/ VerifySSA \/ EmitIR
    \/ DestroySSA \/ DropAnalyses \/ SplitEdges \/ InsertCounters \/ InstrumentDone
    \/ GenerateCode \/ EmitAsm
    \/ WriteAsm \/ Assemble \/ Link

Spec == Init /\ [][Next]_vars

\* One sequential process
FairSpec == Spec /\ WF_vars(Next)

-----------------------------------------------------------------------------
(* Properties *)

\* The variables hold values of their types.
TypeOK ==
    /\ build \in Builds
    /\ ir \in Modules
    /\ cache \in [Funcs -> [Analyses -> IRs \cup {None}]]
    /\ external \in [Funcs -> {None, "valid", "invalid"}]
    /\ fn \in 1 .. NFuncs + 1
    /\ next \in Nat \ {0}
    /\ changedThisSweep \in BOOLEAN
    /\ iterations_ \in 0 .. kMaxIterations
    /\ live \subseteq Funcs
    /\ errors \in BOOLEAN
    /\ files \subseteq {"s", "o", "exe"}

\* The exit code and the diagnostics agree: zero exactly when no error, and no
\* warning promoted to one, was reported in any phase, and then what was asked
\* for is there.
ExitMatchesDiagnostics ==
    phase = "done" =>
        /\ exit = "Success" <=> ~errors
        /\ exit = "Success" /\ build.emit = "obj" => "o" \in files
        /\ exit = "Success" /\ build.emit = "exe" => "exe" \in files

\* Whatever failed, no intermediate is left unless it was asked for.
NoIntermediatesLeft ==
    phase = "done" /\ ~build.keepTemps =>
        /\ "s" \notin files
        /\ "o" \in files => build.emit = "obj"

\* Passes that undo each other do not keep the compiler from finishing.
Terminates == <>(phase = "done")
=============================================================================
