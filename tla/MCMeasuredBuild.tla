--------------------------- MODULE MCMeasuredBuild ---------------------------
(***************************************************************************)
(* Small programs with the shapes the records, the unroller and the layout *)
(* look for: loops with and without a preheader, a way out of the middle   *)
(* of a loop, a critical edge, calls, recursion, and an inlined loop.      *)
(***************************************************************************)
EXTENDS MeasuredBuild

NoCallees == [name \in {} |-> 0]

Build(blocks) ==
    LET before[k \in 0 .. Len(blocks)] == IF k = 0 THEN 0 ELSE before[k - 1] + Len(blocks[k])
    IN RecomputePredecessors(
         [params |-> <<>>, type |-> "void", order |-> [k \in DOMAIN blocks |-> k],
          code |-> [k \in DOMAIN blocks |-> [n \in DOMAIN blocks[k] |-> before[k - 1] + n]],
          inst |-> FlattenSeq(blocks), preds |-> [k \in DOMAIN blocks |-> <<>>],
          site |-> [b \in {} |-> 0]])

Phi(b1, b2) == Inst("phi", "i64", "", <<I64(0), I64(1)>>, <<b1, b2>>)
Compare(pred) == Inst("icmp", "i1", pred, <<Arg(1), I64(0)>>, <<>>)
If(i, b1, b2) == Inst("condbr", "void", "", <<Ref(i)>>, <<b1, b2>>)
CallOf(k) == Inst("call", "void", k, <<>>, <<>>)
Ret == Inst("ret", "void", "", <<>>, <<>>)

\* while (c) { ... }, and a call of another function before it and after it
Loop(pred, calls) == Build(<<
    calls \o <<Branch(2)>>,
    <<Phi(1, 3), Compare(pred), If(Len(calls) + 3, 3, 4)>>,
    <<Branch(2)>>,
    calls \o <<Ret>> >>)

\* if (c) { f(); } and the recursion of f
Recursive == Build(<<
    <<Compare("le"), If(1, 2, 3)>>,
    <<CallOf(2), Branch(3)>>,
    <<Ret>> >>)

\* A loop that is left from its middle too, for the same block
Leaving == Build(<<
    <<Branch(2)>>,
    <<Phi(1, 4), Compare("lt"), If(3, 3, 5)>>,
    <<Compare("eq"), If(5, 5, 4)>>,
    <<Branch(2)>>,
    <<Phi(2, 3), Ret>> >>)

\* A condition that is kept for later, tested before a loop with two ways in
TwoWaysIn == Build(<<
    <<Compare("ne"), Compare("gt"), If(1, 2, 3)>>,
    <<If(2, 3, 4)>>,
    <<Compare("ge"), If(5, 3, 4)>>,
    <<Ret>> >>)

\* A loop in a loop
Nested == Build(<<
    <<Branch(2)>>,
    <<Phi(1, 7), Compare("le"), If(3, 3, 6)>>,
    <<Branch(4)>>,
    <<Phi(3, 5), Compare("ne"), If(7, 7, 5)>>,
    <<Branch(4)>>,
    <<Ret>>,
    <<Branch(2)>> >>)

\* A loop that was a call once
Inlined == [Loop("lt", <<>>) EXCEPT !.site = [b \in 2 .. 4 |-> 1]]

SomePrograms == {<<Inlined>>} \cup {
    <<Loop("lt", <<>>)>>,
    <<Nested>>,
    <<Loop("gt", <<CallOf(2)>>), Loop("lt", <<>>)>>,
    <<Loop("ge", <<CallOf(2)>>), Recursive>>,
    <<Leaving>>,
    <<TwoWaysIn>>}
=============================================================================
