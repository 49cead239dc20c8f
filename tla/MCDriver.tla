------------------------------ MODULE MCDriver ------------------------------
(***************************************************************************)
(* Two functions, the second a callee of main, whose IR is one of three.   *)
(* Two groups of builds: in the first the passes' effects vary, and the    *)
(* profile; in the second the options that matter after the pipeline.      *)
(***************************************************************************)
EXTENDS Driver

MCIRs == 0 .. 2

\* What a pass makes of a function: nothing, the next IR, one IR for all, one
\* step on until it is done, or two IRs it swaps
Tables == {<<0, 1, 2>>, <<1, 2, 0>>, <<1, 1, 1>>, <<1, 2, 2>>, <<1, 0, 2>>}
Local(t) == [m \in Modules |-> [f \in Funcs |-> t[m[f] + 1]]]

\* What inlining makes of main, given the callee; the callee has no calls
Inlining(t) == [m \in Modules |-> [m EXCEPT ![1] = t[((m[1] + m[2]) % 3) + 1]]]

Around == {"mem2reg", "destroy-ssa", "split-edges", "insert-counters"}
Effect(t, u) == [p \in PassNames |->
    CASE p \in Around -> Local(<<1, 2, 0>>)
      [] p = "inline" -> Inlining(u)
      [] p \in {"gvn", "licm"} -> Local(u)
      [] p = "loop-unroll" -> Local(<<0, 2, 2>>)
      [] OTHER -> Local(t)]

\* What is left of the pipeline
OnlyPasses == {{"simplify-cfg", "inline"}, {"sccp", "gvn"}, {"dce", "licm", "loop-unroll"}}

Pipelines ==
    [level : {2}, disabled : {PassNames \ s : s \in OnlyPasses},
     effect : {Effect(t, u) : t, u \in Tables},
     useProfile : {"none", "clean"}, cold : {{2}}, coldSize : {TRUE},
     start : {[f \in Funcs |-> 0]}, emit : {"asm"},
     profile : {TRUE}, werror : {FALSE}, keepTemps : {FALSE}]

Options(levels, emits, kept) ==
    [level : levels, disabled : {PassNames \ {"simplify-cfg", "gvn"}},
     effect : {Effect(<<1, 2, 2>>, <<0, 1, 2>>)},
     useProfile : {"none", "unusable", "doubtful", "clean"}, cold : {{2}},
     coldSize : {TRUE}, start : {[f \in Funcs |-> 0]}, emit : emits,
     profile : BOOLEAN, werror : BOOLEAN, keepTemps : kept]

MCBuilds == Pipelines \cup Options(0 .. 2, {"ast", "ir", "asm"}, {FALSE})
              \cup Options({0}, {"obj", "exe"}, BOOLEAN)
=============================================================================
