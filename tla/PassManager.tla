----------------------------- MODULE PassManager -----------------------------
(***************************************************************************)
(* The optimization pipeline: PassManager::run of src/passes/              *)
(* PassManager.cpp over the cache of include/optiforge/analysis/           *)
(* AnalysisManager.h, one action per pass run on a function.  What a pass  *)
(* does to the IR is a table of the build, so that every pass, and every   *)
(* pair of passes that undo each other, is covered; what matters here is   *)
(* in which order passes run, what they read, and when that is dropped.    *)
(*                                                                         *)
(* An IR is a value; an analysis is a function of it, so a cached result   *)
(* is represented by the IR it was computed from.  Declarations, printing, *)
(* --verify-each's messages and the tallies of runs are left out.          *)
(***************************************************************************)
EXTENDS Integers, Sequences, FiniteSets

CONSTANTS
    NFuncs,  \* the functions of the module, in its order; 1 is main
    IRs,     \* what the IR of a function may be
    Builds,  \* command lines, profiles and passes' effects: see below
    None     \* no cached result

Funcs == 1 .. NFuncs
Modules == [Funcs -> IRs]

\* pipelineFor()
PipelineFor(level) ==
    IF level <= 0 THEN <<>>
    ELSE IF level = 1
      THEN <<"simplify-cfg", "constant-folding", "sccp", "copy-propagation", "dce">>
      ELSE <<"simplify-cfg", "constant-folding", "sccp", "copy-propagation", "gvn",
             "dce", "inline", "constant-folding", "sccp", "gvn", "licm", "loop-unroll",
             "constant-folding", "gvn", "strength-reduction", "dce", "simplify-cfg">>

\* Passes the pipeline holds, and the rewritings around it
RunsOnColdCode(p) == \E i \in DOMAIN PipelineFor(1) : PipelineFor(1)[i] = p
PassNames == {PipelineFor(2)[i] : i \in DOMAIN PipelineFor(2)}
                \cup {"mem2reg", "destroy-ssa", "split-edges", "insert-counters"}

Analyses == {"DominatorTree", "DominanceFrontier", "Loops"}

ASSUME ModuleAssumption == NFuncs \in Nat \ {0} /\ None \notin IRs
ASSUME BuildAssumption ==
    \A b \in Builds :
        /\ b.level \in 0 .. 2
        /\ b.disabled \subseteq PassNames         \* --disable-pass
        /\ b.effect \in [PassNames -> [Modules -> Modules]]
        /\ b.useProfile \in {"none", "unusable", "doubtful", "clean"}
        /\ b.cold \subseteq Funcs                 \* functionHeat() = Cold
        /\ b.coldSize \in BOOLEAN                 \* pgo.coldSize
        /\ b.start \in Modules

kMaxIterations == 8

VARIABLES
    build,
    phase,
    ir,                \* the module
    cache, external,   \* AnalysisManager: cache_ and external_
    stale,             \* who was handed a result computed from an older IR
    fn, next,          \* the loops' positions: function, and pass
    changedThisSweep,
    iterations_

pipelineVars == <<ir, cache, external, stale, fn, next, changedThisSweep, iterations_>>

-----------------------------------------------------------------------------
(* AnalysisManager *)

Empty == [a \in Analyses |-> None]

\* The dominator tree get() returns, and any analysis: computed now from the
\* IR, or from the tree if it is one that asks for the tree
Tree(f) == IF cache[f]["DominatorTree"] # None THEN cache[f]["DominatorTree"] ELSE ir[f]
Served(f, a) == IF cache[f][a] # None THEN cache[f][a] ELSE Tree(f)

\* What is cached for f once the analyses in wanted were asked for
Filled(f, wanted) ==
    [a \in Analyses |->
        IF a \in wanted \/ (a = "DominatorTree" /\ \E w \in wanted : cache[f][w] = None)
          THEN Served(f, a)
          ELSE cache[f][a]]

\* The record of who read something out of date, after reader asked for wanted
StaleAfter(reader, f, wanted) ==
    IF \A a \in wanted : Served(f, a) = ir[f] THEN stale ELSE stale \cup {reader}

\* Mutant: supplied results are dropped with the computed ones, as they once were
Invalidate_Supplied(f) ==
    /\ cache' = [cache EXCEPT ![f] = Empty]
    /\ external' = [external EXCEPT ![f] = None]

\* invalidate(function): supplied results were never derived from the IR
Invalidate(f) ==
    /\ cache' = [cache EXCEPT ![f] = Empty]
    /\ external' = external

-----------------------------------------------------------------------------
(* The passes *)

IsCold(f) == build.coldSize /\ external[f] = "valid" /\ f \in build.cold

Passes == PipelineFor(build.level)

\* buildPipeline() left the pass out, or the function is cold and the pass is
\* not one of -O1's
Skips(f, p) == p \in build.disabled \/ (IsCold(f) /\ ~RunsOnColdCode(p))

\* The analyses a pass asks the manager for
Wanted(f, p) ==
    IF p = "gvn" THEN {"DominatorTree"}
    ELSE IF p = "licm" \/ (p = "loop-unroll" /\ external[f] = "valid") THEN {"Loops"}
    ELSE {}

\* The IR of f once pass p has run on it.  The unroller needs a profile
Result(f, p) ==
    IF p = "loop-unroll" /\ external[f] # "valid" THEN ir[f] ELSE build.effect[p][ir][f]

-----------------------------------------------------------------------------
(* PassManager::run *)

AtPass == phase = "pipeline" /\ fn <= NFuncs /\ next <= Len(Passes)

SkipPass ==
    /\ AtPass
    /\ Skips(fn, Passes[next])
    /\ next' = next + 1
    /\ UNCHANGED <<build, phase, ir, cache, external, stale, fn, changedThisSweep, iterations_>>

\* The pass left the IR alone, and says so
PassIdle ==
    /\ AtPass
    /\ LET p == Passes[next]
       IN /\ ~Skips(fn, p)
          /\ Result(fn, p) = ir[fn]
          /\ cache' = [cache EXCEPT ![fn] = Filled(fn, Wanted(fn, p))]
          /\ stale' = StaleAfter(p, fn, Wanted(fn, p))
    /\ next' = next + 1
    /\ UNCHANGED <<build, phase, ir, external, fn, changedThisSweep, iterations_>>

\* The pass reports a change.  It must when there was one, and may when not
PassChanges ==
    /\ AtPass
    /\ LET p == Passes[next]
       IN /\ ~Skips(fn, p)
          /\ ir' = [ir EXCEPT ![fn] = Result(fn, p)]
          /\ stale' = StaleAfter(p, fn, Wanted(fn, p))
    /\ Invalidate(fn)
    /\ changedThisSweep' = TRUE
    /\ next' = next + 1
    /\ UNCHANGED <<build, phase, fn, iterations_>>

\* Mutant: what changed in one function is forgotten when the next one starts
ChangedSoFar_PerFunction == FALSE

\* changedThisSweep as the next function of the sweep finds it
ChangedSoFar == changedThisSweep

NextFunction ==
    /\ phase = "pipeline"
    /\ fn <= NFuncs
    /\ next > Len(Passes)
    /\ fn' = fn + 1
    /\ next' = 1
    /\ changedThisSweep' = ChangedSoFar
    /\ UNCHANGED <<build, phase, ir, cache, external, stale, iterations_>>

\* Mutant: a sweep that changed something is not counted
Sweeps_Uncounted == iterations_

\* The sweeps taken so far that changed something
Sweeps == IF changedThisSweep THEN iterations_ + 1 ELSE iterations_

SweepsAgain == changedThisSweep /\ Sweeps < kMaxIterations

EndSweep ==
    /\ phase = "pipeline"
    /\ fn > NFuncs
    /\ iterations_' = Sweeps
    /\ IF SweepsAgain
         THEN fn' = 1 /\ changedThisSweep' = FALSE /\ phase' = phase
         ELSE UNCHANGED <<fn, changedThisSweep>> /\ phase' = "unused"
    /\ UNCHANGED <<build, ir, cache, external, stale, next>>

RunPipeline == SkipPass \/ PassIdle \/ PassChanges \/ NextFunction \/ EndSweep

-----------------------------------------------------------------------------
(* Properties *)

\* No pass, verifier or code generator is ever handed an analysis that was
\* computed from an IR that has changed since, directly or through an analysis
\* it was computed from.
NobodyReadsStaleResults == stale = {}

\* When the pipeline stops before the cap, no pass it runs would change any
\* function any more, though each function was last visited at another time
\* than the ones its passes read.
ConvergedIsFixedPoint ==
    phase = "unused" /\ iterations_ < kMaxIterations =>
        \A f \in Funcs : \A i \in DOMAIN Passes :
            ~Skips(f, Passes[i]) => Result(f, Passes[i]) = ir[f]

\* A function the profile calls cold is compiled with the passes of -O1 from
\* the first sweep to the last, however often it is changed meanwhile.
ColdCodeStaysAtO1 ==
    [][\A f \in Funcs :
          (phase = "pipeline" /\ build.useProfile \in {"doubtful", "clean"} /\ build.coldSize
             /\ f \in build.cold /\ f = fn /\ next <= Len(Passes)
             /\ ~RunsOnColdCode(Passes[next]))
          => ir'[f] = ir[f]]_<<build, phase, pipelineVars>>
=============================================================================
