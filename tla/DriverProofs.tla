----------------------------- MODULE DriverProofs -----------------------------
(***************************************************************************)
(* The driver and the pass manager, for any number of functions, whatever  *)
(* passes do to them and whatever goes wrong in the environment.           *)
(*                                                                         *)
(* The proof is in layers: types and positions first; then, each from      *)
(* those, what the cache holds, what the profile says, what the pipeline   *)
(* has settled, and what is on disk.                                       *)
(***************************************************************************)
EXTENDS Driver, TLAPS

-----------------------------------------------------------------------------
(* Types and positions *)

\* The phases a walk over the functions is not at its end in
MidWalk ==
    {"frontend", "profile", "mem2reg", "verify-mem2reg", "verify-ssa", "emit", "destroy",
     "verify-destroyed", "drop", "instrument", "insert-counters", "verify-counters",
     "instrumented"}

UpToPipeline == {"frontend", "profile", "mem2reg", "verify-mem2reg", "pipeline"}

Positions ==
    /\ phase \in MidWalk => fn \in Funcs
    /\ phase \in UpToPipeline => iterations_ < kMaxIterations

Types == TypeOK /\ Positions

\* The parts of a build have their types.
LEMMA BuildTypes ==
    ASSUME build \in Builds
    PROVE  /\ build.effect \in [PassNames -> [Modules -> Modules]]
           /\ build.start \in Modules
           /\ build.level \in 0 .. 2
  BY BuildAssumption

\* Every pass of a pipeline is one the build has an effect for.
LEMMA PassesAreNamed ==
    ASSUME build \in Builds, NEW i \in DOMAIN Passes
    PROVE  Passes[i] \in PassNames
<1>1. \A j \in 1 .. 5 : PipelineFor(1)[j] \in PassNames
  <2>1. PipelineFor(1)[1] = PipelineFor(2)[1] /\ PipelineFor(1)[2] = PipelineFor(2)[2]
        /\ PipelineFor(1)[3] = PipelineFor(2)[3] /\ PipelineFor(1)[4] = PipelineFor(2)[4]
        /\ PipelineFor(1)[5] = PipelineFor(2)[6] /\ DOMAIN PipelineFor(2) = 1 .. 17
    BY DEF PipelineFor
  <2> QED
    BY <2>1 DEF PassNames
<1>2. DOMAIN PipelineFor(0) = {} /\ DOMAIN PipelineFor(1) = 1 .. 5
  BY DEF PipelineFor
<1>3. CASE build.level = 0
  BY <1>2, <1>3 DEF Passes
<1>4. CASE build.level = 1
  BY <1>1, <1>2, <1>4 DEF Passes
<1>5. CASE build.level = 2
  BY <1>5 DEF Passes, PassNames
<1> QED
  BY <1>3, <1>4, <1>5, BuildTypes

\* A pipeline is a list.
LEMMA PipelineIsList ==
    ASSUME build \in Builds
    PROVE  Len(Passes) \in Nat /\ DOMAIN Passes = 1 .. Len(Passes)
<1>1. /\ Len(PipelineFor(0)) = 0 /\ DOMAIN PipelineFor(0) = 1 .. 0
      /\ Len(PipelineFor(1)) = 5 /\ DOMAIN PipelineFor(1) = 1 .. 5
      /\ Len(PipelineFor(2)) = 17 /\ DOMAIN PipelineFor(2) = 1 .. 17
  BY DEF PipelineFor
<1> QED
  BY <1>1, BuildTypes DEF Passes

\* What a pass makes of a function is an IR.
LEMMA EffectTypes ==
    ASSUME build \in Builds, NEW p \in PassNames, NEW m \in Modules, NEW f \in Funcs
    PROVE  build.effect[p][m][f] \in IRs
  BY BuildTypes DEF Modules

\* What is asked for is served from the cache or computed now, and cached.
LEMMA FilledTypes ==
    ASSUME TypeOK, NEW f \in Funcs, NEW wanted
    PROVE  Filled(f, wanted) \in [Analyses -> IRs \cup {None}]
<1>1. "DominatorTree" \in Analyses
  BY DEF Analyses
<1>2. ir[f] \in IRs /\ \A a \in Analyses : cache[f][a] \in IRs \cup {None}
  BY DEF TypeOK, Modules
<1>3. \A a \in Analyses : Served(f, a) \in IRs
  BY <1>1, <1>2 DEF Served, Tree
<1> QED
  BY <1>2, <1>3 DEF Filled

\* Invalidating a function leaves a cache, and what was supplied.
LEMMA InvalidateTypes ==
    ASSUME TypeOK, NEW f \in Funcs, Invalidate(f)
    PROVE  cache' \in [Funcs -> [Analyses -> IRs \cup {None}]] /\ external' = external
<1>1. Empty \in [Analyses -> IRs \cup {None}]
  BY DEF Empty
<1> QED
  BY <1>1 DEF Invalidate, TypeOK

\* The variables keep their types: one step per action.
LEMMA TypesStep ==
    ASSUME Types, [Next]_vars
    PROVE  Types'
<1> USE ModuleAssumption DEF Funcs
<1>t. TypeOK /\ Positions /\ build \in Builds
  BY DEF Types, TypeOK
<1>s. CASE UNCHANGED vars
  BY <1>s, <1>t DEF vars, pipelineVars, driverVars, Types, TypeOK, Positions
<1>1. CASE Frontend
  BY <1>1, <1>t DEF Frontend, Fail, Return, pipelineVars, Types, TypeOK, Positions,
                    MidWalk, UpToPipeline
<1>2. CASE LoadProfile
  BY <1>2, <1>t DEF LoadProfile, Types, TypeOK, Positions, MidWalk, UpToPipeline
<1>3. CASE Mem2Reg
  <2>1. "mem2reg" \in PassNames
    BY DEF PassNames
  <2>2. fn \in Funcs /\ build.effect["mem2reg"][ir][fn] \in IRs
    BY <1>3, <1>t, <2>1, EffectTypes DEF Mem2Reg, TypeOK, Positions, MidWalk
  <2>3. ir' \in Modules
    BY <1>3, <1>t, <2>2 DEF Mem2Reg, TypeOK, Modules
  <2>4. cache' \in [Funcs -> [Analyses -> IRs \cup {None}]] /\ external' = external
    BY <1>3, <1>t, <2>2, InvalidateTypes DEF Mem2Reg
  <2>5. TypeOK'
    BY <1>3, <1>t, <2>2, <2>3, <2>4 DEF Mem2Reg, driverVars, TypeOK
  <2>6. Positions'
    BY <1>3, <1>t, <2>2 DEF Mem2Reg, Positions, MidWalk, UpToPipeline
  <2> QED
    BY <2>5, <2>6 DEF Types
<1>4. ASSUME NEW at, NEW then, VerifyThen(at, then),
             <<at, then>> \in {<<"verify-mem2reg", "pipeline">>,
                              <<"verify-pipeline", "verify-ssa">>,
                              <<"verify-destroyed", "drop">>,
                              <<"verify-counters", "instrumented">>}
      PROVE  Types'
  <2>0. /\ fn' \in {1, fn} /\ next' \in {1, next} /\ errors' \in BOOLEAN
        /\ UNCHANGED <<build, ir, cache, external, changedThisSweep, iterations_, live, files>>
    BY <1>4, <1>t DEF VerifyThen, Fail, Return, GoTo, TypeOK
  <2>1. TypeOK'
    BY <1>t, <2>0 DEF TypeOK
  <2>2. phase' = "done" \/ (phase = at /\ phase' = then /\ fn' = 1 /\ iterations_' = iterations_)
    BY <1>4 DEF VerifyThen, Fail, Return, GoTo
  <2>3. Positions'
    BY <1>4, <1>t, <2>2 DEF Positions, MidWalk, UpToPipeline
  <2> QED
    BY <2>1, <2>3 DEF Types
<1>5. CASE SkipPass /\ UNCHANGED driverVars
  BY <1>5, <1>t DEF SkipPass, driverVars, Types, TypeOK, Positions, MidWalk, UpToPipeline
<1>6. CASE PassIdle /\ UNCHANGED driverVars
  <2>1. fn \in Funcs
    BY <1>6, <1>t DEF PassIdle, AtPass, TypeOK
  <2>2. \A w : Filled(fn, w) \in [Analyses -> IRs \cup {None}]
    BY <2>1, <1>t, FilledTypes
  <2> QED
    BY <1>6, <1>t, <2>1, <2>2 DEF PassIdle, driverVars, Types, TypeOK, Positions, MidWalk,
                                  UpToPipeline
<1>7. CASE PassChanges /\ UNCHANGED driverVars
  <2>1. fn \in Funcs /\ next \in DOMAIN Passes
    BY <1>7, <1>t, PipelineIsList DEF PassChanges, AtPass, TypeOK
  <2>2. Result(fn, Passes[next]) \in IRs
    BY <1>t, <2>1, PassesAreNamed, EffectTypes DEF Result, TypeOK, Modules
  <2>3. ir' \in Modules
    BY <1>7, <1>t, <2>2 DEF PassChanges, TypeOK, Modules
  <2>4. cache' \in [Funcs -> [Analyses -> IRs \cup {None}]] /\ external' = external
    BY <1>7, <1>t, <2>1, InvalidateTypes DEF PassChanges
  <2>5. TypeOK'
    BY <1>7, <1>t, <2>3, <2>4 DEF PassChanges, driverVars, TypeOK
  <2>6. Positions'
    BY <1>7, <1>t DEF PassChanges, AtPass, Positions, MidWalk, UpToPipeline
  <2> QED
    BY <2>5, <2>6 DEF Types
<1>8. CASE NextFunction /\ UNCHANGED driverVars
  BY <1>8, <1>t DEF NextFunction, ChangedSoFar, driverVars, Types, TypeOK, Positions, MidWalk,
                    UpToPipeline
<1>9. CASE EndSweep /\ UNCHANGED driverVars
  <2>1. phase = "pipeline" /\ iterations_ \in 0 .. 7
    BY <1>9, <1>t DEF EndSweep, TypeOK, Positions, UpToPipeline, kMaxIterations
  <2>2. iterations_' \in 0 .. 8 /\ (phase' # "unused" => iterations_' < 8)
    BY <1>9, <2>1 DEF EndSweep, Sweeps, SweepsAgain, kMaxIterations
  <2>0. /\ fn' \in {1, fn} /\ changedThisSweep' \in BOOLEAN
        /\ UNCHANGED <<build, ir, cache, external, next, live, errors, files>>
    BY <1>9, <1>t DEF EndSweep, driverVars, TypeOK
  <2>3. TypeOK'
    BY <1>t, <2>0, <2>2 DEF TypeOK, kMaxIterations
  <2>4. Positions'
    BY <1>9, <2>1, <2>2 DEF EndSweep, Positions, MidWalk, UpToPipeline, kMaxIterations
  <2> QED
    BY <2>3, <2>4 DEF Types
<1>10. CASE RemoveUnused
  BY <1>10, <1>t DEF RemoveUnused, pipelineVars, Types, TypeOK, Positions, MidWalk,
                     UpToPipeline
<1>11. CASE VerifySSA
  <2>1. fn \in Funcs
    BY <1>11, <1>t DEF VerifySSA, Positions, MidWalk
  <2>2. Filled(fn, {"DominatorTree"}) \in [Analyses -> IRs \cup {None}]
    BY <2>1, <1>t, FilledTypes
  <2>3. cache' \in [Funcs -> [Analyses -> IRs \cup {None}]]
    BY <1>11, <1>t, <2>1, <2>2 DEF VerifySSA, TypeOK
  <2>4. fn' \in Funcs /\ phase' \in {"verify-ssa", "emit", "done"}
    BY <1>11, <2>1 DEF VerifySSA, Fail, Return
  <2>e. errors' \in BOOLEAN
    <3>1. errors' = TRUE \/ errors' = errors
      BY <1>11 DEF VerifySSA, Fail
    <3> QED
      BY <1>t, <3>1 DEF TypeOK
  <2>0. UNCHANGED <<build, ir, external, next, changedThisSweep, iterations_, live, files>>
    BY <1>11 DEF VerifySSA
  <2>5. TypeOK'
    BY <1>t, <2>0, <2>3, <2>4, <2>e DEF TypeOK
  <2>6. Positions'
    BY <1>11, <2>4 DEF VerifySSA, Positions, MidWalk, UpToPipeline
  <2> QED
    BY <2>5, <2>6 DEF Types
<1>12. CASE EmitIR
  BY <1>12, <1>t DEF EmitIR, Return, pipelineVars, Types, TypeOK, Positions, MidWalk,
                     UpToPipeline
<1>13. CASE DestroySSA
  <2>1. "destroy-ssa" \in PassNames /\ ir \in Modules
    BY <1>t DEF PassNames, TypeOK
  <2>2. \A f \in Funcs : build.effect["destroy-ssa"][ir][f] \in IRs
    BY <1>t, <2>1, EffectTypes
  <2>3. ir' \in Modules
    BY <1>13, <2>1, <2>2 DEF DestroySSA, Rewritten, Modules
  <2> QED
    BY <1>13, <1>t, <2>3 DEF DestroySSA, driverVars, Types, TypeOK, Positions, MidWalk,
                             UpToPipeline
<1>14. CASE DropAnalyses
  BY <1>14, <1>t DEF DropAnalyses, InvalidateAll, Empty, driverVars, Types, TypeOK, Positions,
                     MidWalk, UpToPipeline
<1>15. CASE SplitEdges
  <2>1. "split-edges" \in PassNames
    BY DEF PassNames
  <2>2. fn \in Funcs /\ build.effect["split-edges"][ir][fn] \in IRs
    BY <1>15, <1>t, <2>1, EffectTypes DEF SplitEdges, TypeOK, Positions, MidWalk
  <2>3. ir' \in Modules
    BY <1>15, <1>t, <2>2 DEF SplitEdges, TypeOK, Modules
  <2>4. cache' \in [Funcs -> [Analyses -> IRs \cup {None}]] /\ external' = external
    <3>1. CASE fn \in live
      BY <1>15, <1>t, <2>2, <3>1, InvalidateTypes DEF SplitEdges
    <3>2. CASE fn \notin live
      BY <1>15, <1>t, <3>2 DEF SplitEdges, TypeOK
    <3> QED
      BY <3>1, <3>2
  <2>5. TypeOK'
    BY <1>15, <1>t, <2>2, <2>3, <2>4 DEF SplitEdges, driverVars, TypeOK
  <2>6. Positions'
    BY <1>15, <1>t, <2>2 DEF SplitEdges, Positions, MidWalk, UpToPipeline
  <2> QED
    BY <2>5, <2>6 DEF Types
<1>16. CASE InsertCounters
  <2>1. "insert-counters" \in PassNames
    BY DEF PassNames
  <2>2. fn \in Funcs /\ build.effect["insert-counters"][ir][fn] \in IRs
    BY <1>16, <1>t, <2>1, EffectTypes DEF InsertCounters, TypeOK, Positions, MidWalk
  <2>3. ir' \in Modules
    BY <1>16, <1>t, <2>2 DEF InsertCounters, TypeOK, Modules
  <2>4. cache' \in [Funcs -> [Analyses -> IRs \cup {None}]] /\ external' = external
    <3>1. CASE fn \in live
      BY <1>16, <1>t, <2>2, <3>1, InvalidateTypes DEF InsertCounters
    <3>2. CASE fn \notin live
      BY <1>16, <1>t, <3>2 DEF InsertCounters, TypeOK
    <3> QED
      BY <3>1, <3>2
  <2>5. TypeOK'
    BY <1>16, <1>t, <2>2, <2>3, <2>4 DEF InsertCounters, driverVars, TypeOK
  <2>6. Positions'
    BY <1>16, <1>t, <2>2 DEF InsertCounters, Positions, MidWalk, UpToPipeline
  <2> QED
    BY <2>5, <2>6 DEF Types
<1>17. CASE InstrumentDone
  BY <1>17, <1>t DEF InstrumentDone, InvalidateAll, Empty, driverVars, Types, TypeOK,
                     Positions, MidWalk, UpToPipeline
<1>18. CASE GenerateCode
  <2>1. fn \in Funcs
    BY <1>18, <1>t DEF GenerateCode, TypeOK
  <2>2. Filled(fn, {"Loops"}) \in [Analyses -> IRs \cup {None}]
    BY <2>1, <1>t, FilledTypes
  <2> QED
    BY <1>18, <1>t, <2>1, <2>2 DEF GenerateCode, driverVars, Types, TypeOK, Positions, MidWalk,
                                   UpToPipeline
<1>19. CASE EmitAsm
  BY <1>19, <1>t DEF EmitAsm, Fail, Return, pipelineVars, Types, TypeOK, Positions, MidWalk,
                     UpToPipeline
<1>20. CASE WriteAsm
  BY <1>20, <1>t DEF WriteAsm, Fail, Return, pipelineVars, Types, TypeOK, Positions, MidWalk,
                     UpToPipeline
<1>21. CASE Assemble
  BY <1>21, <1>t DEF Assemble, Fail, Return, Cleaned, pipelineVars, Types, TypeOK, Positions,
                     MidWalk, UpToPipeline
<1>22. CASE Link
  BY <1>22, <1>t DEF Link, MissingRuntime, Fail, Return, Cleaned, pipelineVars, Types, TypeOK,
                     Positions, MidWalk, UpToPipeline
<1> QED
  BY <1>s, <1>1, <1>2, <1>3, <1>4, <1>5, <1>6, <1>7, <1>8, <1>9, <1>10, <1>11, <1>12, <1>13,
     <1>14, <1>15, <1>16, <1>17, <1>18, <1>19, <1>20, <1>21, <1>22
  DEF Next, Verify, RunPipeline

\* The types hold throughout.
LEMMA TypesInvariant == Spec => []Types
<1>1. Init => Types
  <2> SUFFICES ASSUME Init PROVE Types
    OBVIOUS
  <2>1. \A f \in Funcs : Empty \in [Analyses -> IRs \cup {None}]
    BY DEF Empty
  <2>2. 1 \in Funcs /\ 1 \in 1 .. NFuncs + 1
    BY ModuleAssumption DEF Funcs
  <2>3. build \in Builds /\ ir \in Modules
    BY BuildTypes DEF Init
  <2>4. cache \in [Funcs -> [Analyses -> IRs \cup {None}]]
    BY <2>1 DEF Init
  <2>5. errors \in BOOLEAN /\ changedThisSweep \in BOOLEAN
    BY DEF Init
  <2> QED
    BY <2>2, <2>3, <2>4, <2>5 DEF Init, Types, TypeOK, Positions, kMaxIterations
<1>2. Types /\ [Next]_vars => Types'
  BY TypesStep
<1> QED
  BY <1>1, <1>2, PTL DEF Spec

\* The variables keep their types whatever the build: in particular the
\* pipeline sweeps the module at most kMaxIterations times.
THEOREM TypeCorrect == Spec => []TypeOK
<1>1. Types => TypeOK
  BY DEF Types
<1> QED
  BY <1>1, TypesInvariant, PTL

-----------------------------------------------------------------------------
(* What the cache holds *)

\* From SSA destruction to invalidateAll the cache is out of date
OutOfDate == {"verify-destroyed", "drop", "done"}

Fresh ==
    /\ phase \notin OutOfDate => \A f \in Funcs : \A a \in Analyses : cache[f][a] \in {None, ir[f]}
    /\ NobodyReadsStaleResults

\* From a cache that is up to date everyone is served what is up to date,
\* directly or through the dominator tree, and leaves an up-to-date cache.
LEMMA FreshIsServed ==
    ASSUME TypeOK, NEW f \in Funcs, NEW reader, NEW wanted \in SUBSET Analyses,
           \A a \in Analyses : cache[f][a] \in {None, ir[f]}
    PROVE  /\ StaleAfter(reader, f, wanted) = stale
           /\ \A a \in Analyses : Filled(f, wanted)[a] \in {None, ir[f]}
<1>1. "DominatorTree" \in Analyses
  BY DEF Analyses
<1>2. Tree(f) = ir[f]
  BY <1>1 DEF Tree
<1>3. \A a \in Analyses : Served(f, a) = ir[f]
  BY <1>2 DEF Served
<1> QED
  BY <1>3 DEF StaleAfter, Filled

\* What a pass asks for are analyses.
LEMMA WantedAreAnalyses == ASSUME NEW f, NEW p PROVE Wanted(f, p) \in SUBSET Analyses
  BY DEF Wanted, Analyses

\* Emptying the cache of a function leaves nothing of an older IR of it.
LEMMA Emptied ==
    ASSUME TypeOK, NEW g \in Funcs, NEW v, ir' = [ir EXCEPT ![g] = v], Invalidate(g),
           \A f \in Funcs : \A a \in Analyses : cache[f][a] \in {None, ir[f]}
    PROVE  \A f \in Funcs : \A a \in Analyses : cache'[f][a] \in {None, ir'[f]}
<1> SUFFICES ASSUME NEW f \in Funcs, NEW a \in Analyses
             PROVE  cache'[f][a] \in {None, ir'[f]}
  OBVIOUS
<1>1. CASE f = g
  BY <1>1 DEF TypeOK, Invalidate, Empty
<1>2. CASE f # g
  BY <1>2 DEF TypeOK, Modules, Invalidate
<1> QED
  BY <1>1, <1>2

\* No step leaves a result of an older IR in the cache.
LEMMA FreshStep ==
    ASSUME Types, Fresh, [Next]_vars
    PROVE  Fresh'
<1>t. TypeOK /\ Positions /\ stale = {}
  BY DEF Types, Fresh, NobodyReadsStaleResults
<1>f. ASSUME phase \notin OutOfDate
      PROVE  \A f \in Funcs : \A a \in Analyses : cache[f][a] \in {None, ir[f]}
  BY <1>f DEF Fresh
<1>q. ASSUME UNCHANGED <<ir, cache, stale>>, phase \in OutOfDate => phase' \in OutOfDate
      PROVE  Fresh'
  BY <1>q DEF Fresh, NobodyReadsStaleResults
<1>p. ASSUME stale' = stale,
             \A f \in Funcs : \A a \in Analyses : cache'[f][a] \in {None, ir'[f]}
      PROVE  Fresh'
  BY <1>p, <1>t DEF Fresh, NobodyReadsStaleResults
<1>s. CASE UNCHANGED vars
  BY <1>s, <1>q DEF vars, pipelineVars
<1>1. CASE Frontend
  BY <1>1, <1>q DEF Frontend, pipelineVars, OutOfDate
<1>2. CASE LoadProfile
  BY <1>2, <1>q DEF LoadProfile, OutOfDate
<1>3. CASE Mem2Reg
  <2>1. fn \in Funcs /\ phase \notin OutOfDate
    BY <1>3, <1>t DEF Mem2Reg, Positions, MidWalk, OutOfDate
  <2>2. {"DominatorTree", "DominanceFrontier"} \in SUBSET Analyses
    BY DEF Analyses
  <2>3. stale' = stale
    BY <1>3, <1>t, <1>f, <2>1, <2>2, FreshIsServed DEF Mem2Reg
  <2>4. ir' = [ir EXCEPT ![fn] = build.effect["mem2reg"][ir][fn]] /\ Invalidate(fn)
    BY <1>3 DEF Mem2Reg
  <2>5. \A f \in Funcs : \A a \in Analyses : cache'[f][a] \in {None, ir'[f]}
    BY <1>t, <1>f, <2>1, <2>4, Emptied
  <2> QED
    BY <1>p, <2>3, <2>5
<1>4. CASE Verify
  BY <1>4, <1>q DEF Verify, VerifyThen, Fail, Return, GoTo, OutOfDate
<1>5. CASE SkipPass \/ NextFunction \/ EndSweep
  BY <1>5, <1>q DEF SkipPass, AtPass, NextFunction, EndSweep, OutOfDate
<1>6. CASE PassIdle
  <2>1. fn \in Funcs /\ phase \notin OutOfDate
    BY <1>6, <1>t DEF PassIdle, AtPass, TypeOK, Funcs, OutOfDate
  <2> DEFINE wanted == Wanted(fn, Passes[next])
  <2>2. wanted \in SUBSET Analyses
    BY WantedAreAnalyses
  <2>3. /\ cache' = [cache EXCEPT ![fn] = Filled(fn, wanted)]
        /\ stale' = StaleAfter(Passes[next], fn, wanted)
        /\ ir' = ir
    BY <1>6 DEF PassIdle
  <2> HIDE DEF wanted
  <2>4. stale' = stale /\ \A a \in Analyses : Filled(fn, wanted)[a] \in {None, ir[fn]}
    BY <1>t, <1>f, <2>1, <2>2, <2>3, FreshIsServed
  <2>5. \A f \in Funcs : \A a \in Analyses : cache'[f][a] \in {None, ir'[f]}
    BY <1>t, <1>f, <2>1, <2>3, <2>4 DEF TypeOK
  <2> QED
    BY <1>p, <2>4, <2>5
<1>7. CASE PassChanges
  <2>1. fn \in Funcs /\ phase \notin OutOfDate
    BY <1>7, <1>t DEF PassChanges, AtPass, TypeOK, Funcs, OutOfDate
  <2>2. stale' = StaleAfter(Passes[next], fn, Wanted(fn, Passes[next]))
    BY <1>7 DEF PassChanges
  <2>3. stale' = stale
    BY <1>t, <1>f, <2>1, <2>2, FreshIsServed, WantedAreAnalyses
  <2>4. ir' = [ir EXCEPT ![fn] = Result(fn, Passes[next])] /\ Invalidate(fn)
    BY <1>7 DEF PassChanges
  <2>5. \A f \in Funcs : \A a \in Analyses : cache'[f][a] \in {None, ir'[f]}
    BY <1>t, <1>f, <2>1, <2>4, Emptied
  <2> QED
    BY <1>p, <2>3, <2>5
<1>8. CASE RemoveUnused \/ EmitIR \/ EmitAsm
  BY <1>8, <1>q DEF RemoveUnused, EmitIR, EmitAsm, pipelineVars, OutOfDate
<1>9. CASE VerifySSA
  <2>1. fn \in Funcs /\ phase \notin OutOfDate /\ ir' = ir
    BY <1>9, <1>t DEF VerifySSA, Positions, MidWalk, OutOfDate
  <2>2. {"DominatorTree"} \in SUBSET Analyses
    BY DEF Analyses
  <2>3. CASE fn \in live
    BY <1>9, <1>t, <1>f, <1>p, <2>1, <2>2, <2>3, FreshIsServed DEF VerifySSA, TypeOK
  <2>4. CASE fn \notin live
    BY <1>9, <1>f, <1>p, <2>1, <2>4 DEF VerifySSA
  <2> QED
    BY <2>3, <2>4
<1>10. CASE DestroySSA
  BY <1>10, <1>t DEF DestroySSA, Fresh, NobodyReadsStaleResults, OutOfDate
<1>11. CASE DropAnalyses \/ InstrumentDone
  BY <1>11, <1>p DEF DropAnalyses, InstrumentDone, InvalidateAll, Empty
<1>12. CASE SplitEdges
  <2>1. fn \in Funcs /\ phase \notin OutOfDate /\ stale' = stale
    BY <1>12, <1>t DEF SplitEdges, Positions, MidWalk, OutOfDate
  <2>2. CASE fn \in live
    BY <1>12, <1>t, <1>f, <1>p, <2>1, <2>2, Emptied DEF SplitEdges
  <2>3. CASE fn \notin live
    BY <1>12, <1>f, <1>p, <2>1, <2>3 DEF SplitEdges
  <2> QED
    BY <2>2, <2>3
<1>13. CASE InsertCounters
  <2>1. fn \in Funcs /\ phase \notin OutOfDate
    BY <1>13, <1>t DEF InsertCounters, Positions, MidWalk, OutOfDate
  <2>2. {"Loops"} \in SUBSET Analyses
    BY DEF Analyses
  <2>3. CASE fn \in live
    <3>1. stale' = stale
      BY <1>13, <1>t, <1>f, <2>1, <2>2, <2>3, FreshIsServed DEF InsertCounters
    <3> QED
      BY <1>13, <1>t, <1>f, <1>p, <2>1, <2>3, <3>1, Emptied DEF InsertCounters
  <2>4. CASE fn \notin live
    BY <1>13, <1>f, <1>p, <2>1, <2>4 DEF InsertCounters
  <2> QED
    BY <2>3, <2>4
<1>14. CASE GenerateCode
  <2>1. fn \in Funcs /\ phase \notin OutOfDate /\ ir' = ir
    BY <1>14, <1>t DEF GenerateCode, TypeOK, Funcs, OutOfDate
  <2>2. {"Loops"} \in SUBSET Analyses
    BY DEF Analyses
  <2>3. CASE fn \in live
    BY <1>14, <1>t, <1>f, <1>p, <2>1, <2>2, <2>3, FreshIsServed DEF GenerateCode, TypeOK
  <2>4. CASE fn \notin live
    BY <1>14, <1>f, <1>p, <2>1, <2>4 DEF GenerateCode
  <2> QED
    BY <2>3, <2>4
<1>15. CASE WriteAsm \/ Assemble \/ Link
  BY <1>15, <1>q DEF WriteAsm, Assemble, Link, pipelineVars, OutOfDate
<1> QED
  BY <1>s, <1>1, <1>2, <1>3, <1>4, <1>5, <1>6, <1>7, <1>8, <1>9, <1>10, <1>11, <1>12, <1>13,
     <1>14, <1>15
  DEF Next, RunPipeline

\* No pass, verifier or code generator ever reads an analysis of an older IR,
\* whatever passes change and in whatever order.
THEOREM AnalysesAreFresh == Spec => []NobodyReadsStaleResults
<1>1. Init => Fresh
  BY DEF Init, Fresh, NobodyReadsStaleResults, Empty
<1>2. Types /\ Fresh /\ [Next]_vars => Fresh'
  BY FreshStep
<1>3. Fresh => NobodyReadsStaleResults
  BY DEF Fresh
<1> QED
  BY <1>1, <1>2, <1>3, TypesInvariant, PTL DEF Spec

-----------------------------------------------------------------------------
(* What the profile says *)

Guided == build.useProfile \in {"doubtful", "clean"}

\* A usable profile, once provided, is there for every function to the end
Supplied ==
    phase \notin {"frontend", "profile", "done"} /\ Guided
        => \A f \in Funcs : external[f] = "valid"

\* No step takes a usable profile away before the end.
LEMMA SuppliedStep ==
    ASSUME Supplied, [Next]_vars
    PROVE  Supplied'
<1>q. ASSUME UNCHANGED <<build, external>>, phase \notin {"frontend", "profile", "done"}
      PROVE  Supplied'
  BY <1>q DEF Supplied, Guided
<1>s. CASE UNCHANGED vars
  BY <1>s DEF vars, pipelineVars, Supplied, Guided
<1>1. CASE Frontend
  BY <1>1 DEF Frontend, Fail, Return, Supplied
<1>2. CASE LoadProfile
  BY <1>2 DEF LoadProfile, Supplied, Guided
<1>3. CASE Mem2Reg \/ PassChanges \/ SplitEdges \/ InsertCounters
  BY <1>3, <1>q DEF Mem2Reg, PassChanges, AtPass, SplitEdges, InsertCounters, Invalidate
<1>4. CASE Verify
  BY <1>4, <1>q DEF Verify, VerifyThen
<1>5. CASE SkipPass \/ PassIdle \/ NextFunction \/ EndSweep
  BY <1>5, <1>q DEF SkipPass, PassIdle, AtPass, NextFunction, EndSweep
<1>6. CASE RemoveUnused \/ VerifySSA \/ EmitIR \/ DestroySSA \/ DropAnalyses
  BY <1>6, <1>q DEF RemoveUnused, VerifySSA, EmitIR, DestroySSA, DropAnalyses, pipelineVars
<1>7. CASE InstrumentDone \/ GenerateCode \/ EmitAsm \/ WriteAsm \/ Assemble \/ Link
  BY <1>7, <1>q DEF InstrumentDone, GenerateCode, EmitAsm, WriteAsm, Assemble, Link, pipelineVars
<1> QED
  BY <1>s, <1>1, <1>2, <1>3, <1>4, <1>5, <1>6, <1>7 DEF Next, RunPipeline

\* However often passes change it meanwhile, a cold function is left alone by
\* the passes that are not part of -O1.
THEOREM ColdCodeIsLeftAlone == Spec => ColdCodeStaysAtO1
<1> DEFINE step ==
      \A f \in Funcs :
          (phase = "pipeline" /\ build.useProfile \in {"doubtful", "clean"} /\ build.coldSize
             /\ f \in build.cold /\ f = fn /\ next <= Len(Passes)
             /\ ~RunsOnColdCode(Passes[next]))
          => ir'[f] = ir[f]
<1>1. Supplied /\ [Next]_vars => [step]_<<build, phase, pipelineVars>>
  <2> SUFFICES ASSUME Supplied, Next, NEW f \in Funcs,
                      phase = "pipeline", Guided, build.coldSize, f \in build.cold, f = fn,
                      ~RunsOnColdCode(Passes[next])
               PROVE  ir'[f] = ir[f]
    BY DEF vars, pipelineVars, Guided
  <2>1. external[fn] = "valid"
    BY DEF Supplied
  <2>2. Skips(fn, Passes[next])
    BY <2>1 DEF Skips, IsCold
  <2>3. ~PassChanges
    BY <2>2 DEF PassChanges
  <2>4. RunPipeline \/ ir' = ir
    BY DEF Next, Frontend, LoadProfile, Mem2Reg, Verify, VerifyThen, RemoveUnused, VerifySSA,
           EmitIR, DestroySSA, DropAnalyses, SplitEdges, InsertCounters, InstrumentDone,
           GenerateCode, EmitAsm, WriteAsm, Assemble, Link
  <2> QED
    BY <2>3, <2>4 DEF RunPipeline, SkipPass, PassIdle, NextFunction, EndSweep
<1>2. Init => Supplied
  BY DEF Init, Supplied
<1>3. Supplied /\ [Next]_vars => Supplied'
  BY SuppliedStep
<1> QED
  BY <1>1, <1>2, <1>3, PTL DEF Spec, ColdCodeStaysAtO1

-----------------------------------------------------------------------------
(* What the pipeline has settled *)

\* A pass that would no longer change a function
Idle(f, i) == Skips(f, Passes[i]) \/ Result(f, Passes[i]) = ir[f]

Settled ==
    /\ phase = "pipeline" /\ ~changedThisSweep =>
         \A f \in Funcs : \A i \in DOMAIN Passes : f < fn \/ (f = fn /\ i < next) => Idle(f, i)
    /\ phase = "pipeline" /\ fn > NFuncs => next = 1
    /\ ConvergedIsFixedPoint

\* No step puts the cursor past a pass that would still change something unless one did.
LEMMA SettledStep ==
    ASSUME Types, Settled, [Next]_vars
    PROVE  Settled'
<1> USE ModuleAssumption DEF Funcs
<1>t. fn \in 1 .. NFuncs + 1 /\ next \in Nat \ {0} /\ build \in Builds
  BY DEF Types, TypeOK
<1>i. ASSUME UNCHANGED <<build, external, ir>>
      PROVE  \A f \in Funcs : \A i : Idle(f, i)' <=> Idle(f, i)
  BY <1>i DEF Idle, Skips, IsCold, Result, Passes
<1>p. DOMAIN Passes = 1 .. Len(Passes) /\ Len(Passes) \in Nat
  BY <1>t, PipelineIsList
<1>d. ASSUME phase' \notin {"pipeline", "unused"}
      PROVE  Settled'
  BY <1>d DEF Settled, ConvergedIsFixedPoint
<1>s. CASE UNCHANGED vars
  BY <1>s DEF vars, pipelineVars, Settled, ConvergedIsFixedPoint, Skips, IsCold, Result, Passes,
              Idle
<1>1. CASE VerifyThen("verify-mem2reg", "pipeline")
  <2>1. phase' = "done" \/ (phase' = "pipeline" /\ fn' = 1 /\ next' = 1)
    BY <1>1 DEF VerifyThen, Fail, Return, GoTo
  <2>2. Passes' = Passes
    BY <1>1 DEF VerifyThen, Passes
  <2>3. CASE phase' = "pipeline" /\ fn' = 1 /\ next' = 1
    BY <1>p, <2>2, <2>3 DEF Settled, ConvergedIsFixedPoint
  <2> QED
    BY <1>d, <2>1, <2>3
<1>2. CASE SkipPass \/ PassIdle
  <2>1. /\ phase = "pipeline" /\ phase' = phase /\ fn <= NFuncs
        /\ fn' = fn /\ next' = next + 1 /\ changedThisSweep' = changedThisSweep
        /\ UNCHANGED <<build, external, ir>>
    BY <1>2 DEF SkipPass, PassIdle, AtPass
  <2>2. Idle(fn, next)
    BY <1>2 DEF SkipPass, PassIdle, Idle
  <2>3. Passes' = Passes
    BY <2>1 DEF Passes
  <2>4. ASSUME ~changedThisSweep, NEW f \in Funcs, NEW i \in DOMAIN Passes,
               f < fn \/ (f = fn /\ i < next + 1)
        PROVE  Idle(f, i)
    <3>1. CASE f < fn \/ (f = fn /\ i < next)
      BY <2>1, <2>4, <3>1 DEF Settled
    <3>2. CASE f = fn /\ i = next
      BY <2>2, <3>2
    <3> QED
      BY <1>t, <1>p, <2>4, <3>1, <3>2
  <2> QED
    BY <1>i, <1>t, <2>1, <2>3, <2>4 DEF Settled, ConvergedIsFixedPoint
<1>3. CASE PassChanges
  <2>1. phase' = "pipeline" /\ changedThisSweep' = TRUE /\ fn' = fn /\ fn <= NFuncs
    BY <1>3 DEF PassChanges, AtPass
  <2> QED
    BY <1>t, <2>1 DEF Settled, ConvergedIsFixedPoint
<1>4. CASE NextFunction
  <2>1. /\ phase = "pipeline" /\ phase' = phase /\ next > Len(Passes)
        /\ fn' = fn + 1 /\ next' = 1 /\ changedThisSweep' = changedThisSweep
        /\ UNCHANGED <<build, external, ir>>
    BY <1>4 DEF NextFunction, ChangedSoFar
  <2>2. Passes' = Passes
    BY <2>1 DEF Passes
  <2>3. ASSUME ~changedThisSweep, NEW f \in Funcs, NEW i \in DOMAIN Passes,
               f < fn + 1 \/ (f = fn + 1 /\ i < 1)
        PROVE  Idle(f, i)
    <3>1. f < fn \/ (f = fn /\ i < next)
      BY <1>t, <1>p, <2>1, <2>3
    <3> QED
      BY <2>1, <2>3, <3>1 DEF Settled
  <2> QED
    BY <1>i, <2>1, <2>2, <2>3 DEF Settled, ConvergedIsFixedPoint
<1>5. CASE EndSweep
  <2>1. /\ phase = "pipeline" /\ fn > NFuncs /\ next = 1 /\ next' = 1
        /\ UNCHANGED <<build, external, ir>>
    BY <1>5 DEF EndSweep, Settled
  <2>2. Passes' = Passes
    BY <2>1 DEF Passes
  <2>3. CASE SweepsAgain
    <3>1. phase' = "pipeline" /\ fn' = 1
      BY <1>5, <2>3 DEF EndSweep
    <3> QED
      BY <1>p, <2>1, <2>2, <3>1 DEF Settled, ConvergedIsFixedPoint
  <2>4. CASE ~SweepsAgain /\ changedThisSweep
    <3>1. phase' = "unused" /\ ~(iterations_' < kMaxIterations)
      BY <1>5, <2>4 DEF EndSweep, SweepsAgain
    <3> QED
      BY <3>1 DEF Settled, ConvergedIsFixedPoint
  <2>5. CASE ~changedThisSweep
    <3>1. phase' = "unused"
      BY <1>5, <2>5 DEF EndSweep, SweepsAgain
    <3>2. \A f \in Funcs : \A i \in DOMAIN Passes : Idle(f, i)
      BY <1>t, <2>1, <2>5 DEF Settled
    <3>3. \A f \in Funcs : \A i \in DOMAIN Passes : Idle(f, i)'
      BY <1>i, <2>1, <3>2
    <3> QED
      BY <2>2, <3>1, <3>3 DEF Settled, ConvergedIsFixedPoint, Idle
  <2> QED
    BY <2>3, <2>4, <2>5
<1>6. CASE Next /\ phase \notin {"verify-mem2reg", "pipeline"}
  <2>1. CASE Frontend \/ LoadProfile \/ Mem2Reg \/ RemoveUnused \/ VerifySSA \/ EmitIR
    BY <1>d, <2>1 DEF Frontend, LoadProfile, Mem2Reg, RemoveUnused, VerifySSA, EmitIR, Fail,
                      Return
  <2>2. CASE DestroySSA \/ DropAnalyses \/ SplitEdges \/ InsertCounters \/ InstrumentDone
    BY <1>d, <2>2 DEF DestroySSA, DropAnalyses, SplitEdges, InsertCounters, InstrumentDone
  <2>3. CASE GenerateCode \/ EmitAsm \/ WriteAsm \/ Assemble \/ Link
    BY <1>d, <2>3 DEF GenerateCode, EmitAsm, WriteAsm, Assemble, Link, MissingRuntime, Fail,
                      Return
  <2>4. CASE Verify
    BY <1>6, <1>d, <2>4 DEF Verify, VerifyThen, GoTo, Fail, Return
  <2>5. ~RunPipeline
    BY <1>6 DEF RunPipeline, SkipPass, PassIdle, PassChanges, AtPass, NextFunction, EndSweep
  <2> QED
    BY <1>6, <2>1, <2>2, <2>3, <2>4, <2>5 DEF Next
<1>7. CASE Next /\ phase \in {"verify-mem2reg", "pipeline"}
  BY <1>7, <1>1, <1>2, <1>3, <1>4, <1>5
  DEF Next, Frontend, LoadProfile, Mem2Reg, Verify, VerifyThen, RunPipeline, RemoveUnused,
       VerifySSA, EmitIR, DestroySSA, DropAnalyses, SplitEdges, InsertCounters, InstrumentDone,
       GenerateCode, EmitAsm, WriteAsm, Assemble, Link
<1> QED
  BY <1>s, <1>6, <1>7

\* When the pipeline ends before the cap, it is because no pass of it would
\* change any function, though each was last asked at another moment.
THEOREM ConvergenceIsAFixedPoint == Spec => []ConvergedIsFixedPoint
<1>1. Init => Settled
  BY DEF Init, Settled, ConvergedIsFixedPoint
<1>2. Types /\ Settled /\ [Next]_vars => Settled'
  BY SettledStep
<1>3. Settled => ConvergedIsFixedPoint
  BY DEF Settled
<1> QED
  BY <1>1, <1>2, <1>3, TypesInvariant, PTL DEF Spec

-----------------------------------------------------------------------------
(* What the caller and the disk are left with *)

\* The failures' exit codes
Failures == {"EnvironmentError", "CompileError", "InternalError"}

\* A build that fails has errors and another exit code than success.
LEMMA FailReturns ==
    ASSUME NEW code \in Failures, Fail(code)
    PROVE  phase' = "done" /\ errors' = TRUE /\ exit' # "Success"
  BY DEF Fail, Return, ExitCode, Failures

\* cleanup(false) leaves no intermediate, cleanup(true) no assembly.
LEMMA CleanedUp ==
    ASSUME NEW present, ~build.keepTemps
    PROVE  /\ Cleaned(present, FALSE) = present \ {"s", "o"}
           /\ Cleaned(present, TRUE) = present \ {"s"}
  BY DEF Cleaned

\* A build that returns success has no errors.
LEMMA SuccessReturns ==
    ASSUME errors \in BOOLEAN, errors' = errors, Return("Success")
    PROVE  phase' = "done" /\ (exit' = "Success" <=> ~errors')
  BY DEF Return, ExitCode

\* Nothing is on disk before the assembly is written
Ended ==
    /\ phase \notin {"assemble", "link", "done"} => files = {}
    /\ phase = "link" => build.emit # "obj"
    /\ ExitMatchesDiagnostics
    /\ NoIntermediatesLeft

\* No step ends a build with an exit code its errors do not allow.
LEMMA EndedStep ==
    ASSUME Types, Ended, [Next]_vars
    PROVE  Ended'
<1>t. errors \in BOOLEAN
  BY DEF Types, TypeOK
<1>q. ASSUME files' = files, phase' \notin {"link", "done"},
             phase \notin {"assemble", "link", "done"}
      PROVE  Ended'
  BY <1>q DEF Ended, ExitMatchesDiagnostics, NoIntermediatesLeft
<1>f. ASSUME NEW code \in Failures, Fail(code), files' \cap {"s", "o"} = {} \/ build'.keepTemps
      PROVE  Ended'
  <2>1. phase' = "done" /\ errors' = TRUE /\ exit' # "Success"
    BY <1>f, FailReturns
  <2> QED
    BY <1>f, <2>1 DEF Ended, ExitMatchesDiagnostics, NoIntermediatesLeft
<1>s. CASE UNCHANGED vars
  BY <1>s DEF vars, driverVars, Ended, ExitMatchesDiagnostics, NoIntermediatesLeft
<1>e. ASSUME files' = files, phase \notin {"assemble", "link", "done"}, errors' = errors,
             Return("Success"), build'.emit \notin {"obj", "exe"}
      PROVE  Ended'
  <2>1. phase' = "done" /\ (exit' = "Success" <=> ~errors')
    BY <1>t, <1>e, SuccessReturns
  <2> QED
    BY <1>e, <2>1 DEF Ended, ExitMatchesDiagnostics, NoIntermediatesLeft
<1>1. CASE Frontend
  BY <1>1, <1>q, <1>f, <1>e DEF Frontend, Ended, Failures
<1>2. CASE \/ LoadProfile \/ Mem2Reg \/ RemoveUnused \/ DestroySSA \/ DropAnalyses
           \/ SplitEdges \/ InsertCounters \/ InstrumentDone \/ GenerateCode
  BY <1>2, <1>q DEF LoadProfile, Mem2Reg, RemoveUnused, DestroySSA, DropAnalyses, SplitEdges,
                    InsertCounters, InstrumentDone, GenerateCode, driverVars
<1>3. ASSUME NEW at, NEW then, VerifyThen(at, then), then \notin {"link", "done"},
             at \notin {"assemble", "link", "done"}
      PROVE  Ended'
  <2>1. phase = at /\ files' = files
    BY <1>3 DEF VerifyThen
  <2>2. CASE Fail("InternalError")
    BY <1>3, <1>f, <2>1, <2>2 DEF Failures, Ended
  <2>3. CASE GoTo(then)
    BY <1>3, <1>q, <2>1, <2>3 DEF GoTo
  <2> QED
    BY <1>3, <2>2, <2>3 DEF VerifyThen
<1>4. CASE Verify
  BY <1>3, <1>4 DEF Verify
<1>5. CASE RunPipeline /\ UNCHANGED driverVars
  BY <1>5, <1>q DEF RunPipeline, SkipPass, PassIdle, PassChanges, AtPass, NextFunction, EndSweep,
                    driverVars
<1>6. CASE VerifySSA
  BY <1>6, <1>q, <1>f DEF VerifySSA, Ended, Failures
<1>7. CASE EmitIR
  BY <1>7, <1>q, <1>e DEF EmitIR
<1>8. CASE EmitAsm
  BY <1>8, <1>q, <1>f, <1>e DEF EmitAsm, Ended, Failures
<1>9. CASE WriteAsm
  BY <1>9, <1>f DEF WriteAsm, Ended, Failures, ExitMatchesDiagnostics, NoIntermediatesLeft
<1>10. CASE Assemble
  <2>1. build' = build
    BY <1>10 DEF Assemble
  <2>2. CASE /\ Fail("EnvironmentError")
             /\ \E left \in {files, files \cup {"o"}} : files' = Cleaned(left, FALSE)
    <3>1. files' \cap {"s", "o"} = {} \/ build.keepTemps
      BY <2>2, CleanedUp
    <3> QED
      BY <1>f, <2>1, <2>2, <3>1 DEF Failures
  <2>3. CASE /\ build.emit = "obj" /\ errors' = errors /\ Return("Success")
             /\ files' = Cleaned(files \cup {"o"}, TRUE)
    <3>1. phase' = "done" /\ (exit' = "Success" <=> ~errors')
      BY <1>t, <2>3, SuccessReturns
    <3>2. "o" \in files'
      BY <2>3 DEF Cleaned
    <3>3. build.keepTemps \/ "s" \notin files'
      BY <2>3, CleanedUp
    <3> QED
      BY <2>1, <2>3, <3>1, <3>2, <3>3 DEF Ended, ExitMatchesDiagnostics, NoIntermediatesLeft
  <2>4. CASE phase' = "link" /\ build.emit # "obj"
    BY <2>1, <2>4 DEF Ended, ExitMatchesDiagnostics, NoIntermediatesLeft
  <2> QED
    BY <1>10, <2>2, <2>3, <2>4 DEF Assemble
<1>11. CASE Link
  <2>1. build' = build
    BY <1>11 DEF Link
  <2>2. CASE Fail("EnvironmentError") /\ \E left : files' = Cleaned(left, FALSE)
    <3>1. files' \cap {"s", "o"} = {} \/ build.keepTemps
      BY <2>2, CleanedUp
    <3> QED
      BY <1>f, <2>1, <2>2, <3>1 DEF Failures
  <2>3. CASE errors' = errors /\ Return("Success") /\ files' = Cleaned(files \cup {"exe"}, FALSE)
    <3>1. phase' = "done" /\ (exit' = "Success" <=> ~errors')
      BY <1>t, <2>3, SuccessReturns
    <3>2. "exe" \in files' /\ build.emit # "obj"
      BY <1>11, <2>3 DEF Cleaned, Link, Ended
    <3>3. build.keepTemps \/ files' \cap {"s", "o"} = {}
      BY <2>3, CleanedUp
    <3> QED
      BY <2>1, <3>1, <3>2, <3>3 DEF Ended, ExitMatchesDiagnostics, NoIntermediatesLeft
  <2> QED
    BY <1>11, <2>2, <2>3 DEF Link, MissingRuntime
<1> QED
  BY <1>s, <1>1, <1>2, <1>4, <1>5, <1>6, <1>7, <1>8, <1>9, <1>10, <1>11 DEF Next

\* The exit code is zero exactly when nothing was reported as an error, and
\* then what was asked for has been written.
THEOREM ExitCodeIsRight == Spec => []ExitMatchesDiagnostics
<1>1. Init => Ended
  BY DEF Init, Ended, ExitMatchesDiagnostics, NoIntermediatesLeft
<1>2. Types /\ Ended /\ [Next]_vars => Ended'
  BY EndedStep
<1>3. Ended => ExitMatchesDiagnostics
  BY DEF Ended
<1> QED
  BY <1>1, <1>2, <1>3, TypesInvariant, PTL DEF Spec

\* Whatever tool failed and however far it got, no intermediate is left.
THEOREM CleansUp == Spec => []NoIntermediatesLeft
<1>1. Init => Ended
  BY DEF Init, Ended, ExitMatchesDiagnostics, NoIntermediatesLeft
<1>2. Types /\ Ended /\ [Next]_vars => Ended'
  BY EndedStep
<1>3. Ended => NoIntermediatesLeft
  BY DEF Ended
<1> QED
  BY <1>1, <1>2, <1>3, TypesInvariant, PTL DEF Spec
=============================================================================
