---------------------------- MODULE MCMiddleEnd ----------------------------
(***************************************************************************)
(* Functions as IR generation writes them: locals in slots, no phis.  Each *)
(* family holds the shapes some of the passes look for, and beside them    *)
(* the ones they must leave alone.                                         *)
(***************************************************************************)
EXTENDS MiddleEnd

Build(arity, type, blocks) ==
    LET before[k \in 0 .. Len(blocks)] == IF k = 0 THEN 0 ELSE before[k - 1] + Len(blocks[k])
    IN RecomputePredecessors(
         [params |-> [k \in 1 .. arity |-> "i64"], type |-> type, order |-> [k \in DOMAIN blocks |-> k],
          code |-> [k \in DOMAIN blocks |-> [n \in DOMAIN blocks[k] |-> before[k - 1] + n]],
          inst |-> FlattenSeq(blocks), preds |-> [k \in DOMAIN blocks |-> <<>>]])

Compute(op, a, b) == Inst(op, "i64", "", <<a, b>>, <<>>)
Compare(pred, a, b) == Inst("icmp", "i1", pred, <<a, b>>, <<>>)
Slot == Inst("alloca", "ptr", "i64", <<>>, <<>>)
Load(a) == Inst("load", "i64", "", <<Ref(a)>>, <<>>)
Store(v, a) == Inst("store", "void", "", <<v, Ref(a)>>, <<>>)
Element(a, v) == Inst("gep", "ptr", "i64", <<Ref(a), v>>, <<>>)
If(c, b1, b2) == Inst("condbr", "void", "", <<c>>, <<b1, b2>>)
Call(name, v) == Inst("call", Callees[name].type, name, <<v>>, <<>>)
Return(v) == Inst("ret", "void", "", <<v>>, <<>>)
Phi(v1, b1, v2, b2) == Inst("phi", "i64", "", <<v1, v2>>, <<b1, b2>>)

A == Arg(1)
B == Arg(2)

SomeCallees == [
    print |-> [params |-> <<"i64">>, type |-> "void", order |-> <<>>],
    twice |-> Build(1, "i64", <<<<Compute("mul", A, I64(2)), Return(Ref(1))>>>>),
    spin |-> Build(1, "i64", <<<<Branch(2)>>, <<Branch(2)>>>>),
    sign |-> Build(1, "i64", <<
        <<Compare("lt", A, I64(0)), If(Ref(1), 2, 3)>>,
        <<Return(I64(-1))>>,
        <<Compute("sdiv", I64(3), A), Return(Ref(4))>> >>),
    sum |-> Build(1, "i64", <<  \* too large without a profile
        <<Branch(2)>>,
        <<Phi(I64(0), 1, Ref(7), 3), Phi(I64(0), 1, Ref(10), 3),
          Compare("lt", Ref(2), A), If(Ref(4), 3, 4)>>,
        <<Compute("mul", Ref(2), A), Compute("add", Ref(2), I64(1)), Compute("add", A, I64(1)),
          Compute("sub", Ref(8), I64(1)), Compute("add", Ref(3), Ref(6)), Branch(2)>>,
        <<Compute("add", Ref(3), A), Return(Ref(12))>> >>)]

\* A local assigned on both arms; expressions met before the branch, on one arm
\* and after it; a branch that may be on a constant
Diamonds == {
    Build(2, "i64", <<
        <<Slot, Store(k, 1), Compute(op, A, k), Compare(pred, Ref(3), k), If(Ref(4), 2, 3)>>,
        <<Load(1), Compute("add", A, B), Compute(op, Ref(6), B), Store(Ref(8), 1), Branch(4)>>,
        <<Compute("add", B, A), Store(Ref(11), 1), Call("print", Ref(11)), Branch(4)>>,
        <<Load(1), Compute("add", A, B), Compute(op, Ref(15), Ref(16)), Return(Ref(17))>> >>) :
    op \in {"sub", "mul", "srem"}, pred \in {"eq", "lt"}, k \in {I64(0), I64(1)}}

\* A loop with something to hoist, or not: a division may trap in a loop that is
\* never entered, and a load of an element may see another value next time round
Loops == {
    Build(2, "i64", <<
        <<Slot, Slot, Slot, Store(I64(0), 1), Store(k, 2), Element(3, I64(0)),
          Store(A, 6), Branch(2)>>,
        <<Load(1), Compare("lt", Ref(9), B), If(Ref(10), 3, 4)>>,
        <<Compute(op, k, A), Element(3, I64(0)), Load(13), Compute("add", Ref(14), Ref(12)),
          Store(Ref(15), 13), Load(13), Compute("add", Ref(17), Ref(12)), Store(Ref(18), 2),
          Load(1), Compute("add", Ref(20), I64(1)), Store(Ref(21), 1), Branch(2)>>,
        <<Load(2), Call("print", Ref(24)), Load(6), Return(Ref(26))>> >>) :
    op \in {"sdiv", "mul", "ashr"}, k \in {I64(2), B}}

\* A local that is the same constant on every way through the loop, or nearly
Settling == {
    Build(2, "i64", <<
        <<Slot, Slot, Store(I64(0), 1), Store(I64(1), 2), Branch(2)>>,
        <<Load(1), Compare("lt", Ref(6), B), If(Ref(7), 3, 7)>>,
        <<Load(2), Compare("eq", Ref(9), k), If(Ref(10), 4, 5)>>,
        <<Store(new, 2), Branch(6)>>,
        <<Call("print", Ref(9)), Store(I64(2), 2), Branch(6)>>,
        <<Load(1), Compute("add", Ref(17), I64(1)), Store(Ref(18), 1), Branch(2)>>,
        <<Load(2), Compute("sdiv", I64(1), I64(0)), Return(Ref(21))>> >>) :
    k \in {I64(1), A}, new \in {I64(1), I64(2)}}
    \* the division traps: what comes after it is never seen

\* Calls one after the other and in a loop, the result of one the argument of the next
Calls == {
    Build(1, "i64", <<
        <<Slot, Slot, Store(I64(0), 1), Store(A, 2), Call(f, A), Call(g, Ref(5)), Store(Ref(6), 2),
          Compare("lt", Ref(6), I64(2)), If(Ref(8), 2, 4)>>,
        <<Load(1), Compare("lt", Ref(10), I64(2)), If(Ref(11), 3, 4)>>,
        <<Load(2), Call(f, Ref(13)), Store(Ref(14), 2), Load(1),
          Compute("add", Ref(16), I64(1)), Store(Ref(17), 1), Branch(2)>>,
        <<Load(2), Call("print", Ref(20)), Return(Ref(20))>> >>) :
    f \in {"twice", "sum"}, g \in {"sign", "sum"}}

\* Conditions known from the start, loops left never or at once, unused divisions
Known == {
    Build(2, "i64", <<
        <<Slot, Store(A, 1), Compare("lt", I64(k), I64(1)), Inst("not", "i1", "", <<Ref(3)>>, <<>>),
          Compare("ne", Ref(4), I1(TRUE)), Compute("sdiv", A, divisor), If(Ref(5), 2, 3)>>,
        <<Load(1), Call("print", Ref(8)), If(I1(again), 2, 4)>>,
        <<Inst("neg", "i64", "", <<I64(k)>>, <<>>), Compute("shl", A, I64(5)), 
          Compute("sub", Ref(11), Ref(12)), Store(Ref(13), 1), If(I1(again), 4, 5)>>,
        <<Load(1), Return(Ref(16))>>,
        <<Branch(4)>> >>) :
    k \in {0, -8, 1}, again \in BOOLEAN, divisor \in {I64(2), B}}

AllFunctions == {f \in Diamonds \cup Loops \cup Settling \cup Calls \cup Known : AllReachable(f)}

\* What follows the call of a function that does not return
NeverReturning == {
    Build(1, "i64", <<
        <<Compare("lt", A, I64(k)), If(Ref(1), 2, 3)>>,
        <<Call("spin", A), Compute("add", Ref(3), A), Return(Ref(4))>>,
        <<Call("twice", A), Return(Ref(6))>> >>) : k \in {0, 2}}

\* A division by minus one, whose result is used, or not
UnusedDivisions == {
    Build(1, "i64", <<<<Compute("sdiv", A, I64(-1)), Return(v)>>>>) : v \in {I64(7), Ref(1)}}

SomeInputs == {<<-8>>, <<0>>, <<2>>} \cup {<<-8, 2>>, <<0, 0>>, <<0, 2>>, <<3, -1>>, <<-8, -1>>, <<-1, 3>>}
=============================================================================
