--------------------------- MODULE MCCompilation ---------------------------
(***************************************************************************)
(* Programs for the whole compiler: each is small and has one of the       *)
(* things that are hard to compile in it.  The pools hold fewer registers  *)
(* than the target's, so that values run out of them, and are ordered as   *)
(* the target's: the caller-saved r11 first.                               *)
(***************************************************************************)
EXTENDS Compilation

Num(n) == <<"int", n>>
Halves(n) == <<"float", n>>
True == <<"bool", 1>>
Id(name) == <<"name", name>>
At(name, i) == <<"index", name, i>>
Un(op, e) == <<"unary", op, e>>
Bin(a, op, b) == <<"binary", op, a, b>>
Ap(name, es) == <<"call", name, es>>

Body(statements) == <<"block", statements>>
Local(type, name, e) == <<"var", type, name, 0, e>>
Array(type, name, n) == <<"var", type, name, n, <<>>>>
Set(name, e) == <<"assign", name, <<>>, e>>
SetAt(name, i, e) == <<"assign", name, i, e>>
Do(name, e) == <<"expr", Ap(name, <<e>>)>>
If(c, then) == <<"if", c, Body(then), <<>>>>
IfElse(c, then, else) == <<"if", c, Body(then), else>>
While(c, body) == <<"while", c, Body(body)>>
For(i, n, body) ==
    <<"for", Local("int", i, Num(0)), Bin(Id(i), "<", n), Set(i, Bin(Id(i), "+", Num(1))), Body(body)>>
Ret(e) == <<"return", e>>
Fn(name, params, type, statements) == <<"fn", name, params, type, Body(statements)>>
Main(statements) == Fn("main", <<>>, "int", statements)
OfInt(name) == <<"int", name>>
OfFloat(name) == <<"float", name>>

\* continue and break in nested loops; what follows them in a block is dead
Jumps == {<<Main(<<
    Local("int", "n", <<>>),
    For("i", Num(4), <<
        If(Bin(Id("i"), "==", Num(k)), <<Do("print_int", Id("i")), <<jump>>, Set("n", Num(9))>>),
        Set("n", Bin(Id("n"), "+", Id("i")))>>),
    Ret(Id("n"))>>)>> : k \in {1, 5}, jump \in {"break", "continue"}}

\* Values exchanged round after round: the phis of the loop form cycles
Swaps == {<<Main(<<
    Local("int", "a", Num(1)), Local("int", "b", Num(2)), Local("int", "c", Num(3)),
    For("i", Num(n), <<
        Local("int", "t", Id("a")), Set("a", Id("b")), Set("b", Id(from)), Set("c", Id("t"))>>),
    Ret(Bin(Bin(Id("a"), "*", Num(9)), "+", Bin(Bin(Id("b"), "*", Num(3)), "+", Id("c"))))>>)>> :
    n \in {2, 3}, from \in {"c", "t"}}

\* The right side of && and || has something to say when it is evaluated
ShortCircuits == {<<
    Fn("says", <<OfInt("n")>>, "bool", <<Do("print_int", Id("n")), Ret(Bin(Id("n"), ">", Num(1)))>>),
    Main(<<
        IfElse(Bin(Bin(Ap("says", <<Num(k)>>), op, Ap("says", <<Num(2)>>)), "||", Ap("says", <<Num(1)>>)),
               <<Ret(Num(1))>>, Body(<<>>)),
        Ret(Num(0))>>)>> : k \in {1, 2}, op \in {"&&", "||"}}

\* An array next to scalars, read and written through an index that is computed; one
\* that is larger than a page of the stack, and one longer than unsigned says
Arrays == {<<
    Fn("fill", <<OfInt("n")>>, "int", <<
        Array("int", "v", size), Local("int", "s", <<>>),
        For("i", Id("n"), <<SetAt("v", Id("i"), Bin(Id("i"), "+", Id("n")))>>),
        For("j", Id("n"), <<Set("s", Bin(Id("s"), "+", At("v", Bin(Bin(Id("n"), "-", Num(1)), "-", Id("j")))))>>),
        SetAt("v", Num(0), Id("s")),
        Ret(Bin(At("v", Num(0)), "-", At("v", Bin(Id("n"), "-", Num(last)))))>>),
    Main(<<Ret(Bin(Ap("fill", <<Num(3)>>), "*", Num(2)))>>)>> :
    size \in {3, 600, 2^LengthWidth + 3}, last \in {0, 1}}

\* Arithmetic on floats and comparisons of them, some with a NaN
Floats == {<<
    Fn("mean", <<OfFloat("x"), OfInt("n")>>, "float", <<Ret(Bin(Id("x"), "/", Id("n")))>>),
    Main(<<
        Local("float", "x", Ap("mean", <<Num(3), Num(k)>>)), Local("float", "y", Num(1)),
        Do("print_float", Bin(Un("-", Id("x")), "+", Halves(1))),
        Do("print_bool", Bin(Bin(Id("x"), op, Id("y")), op2, Bin(Id("x"), "==", Id("x")))),
        While(Bin(Id("y"), op, Id("x")), <<Set("y", Bin(Id("y"), "-", Id("x"))), Ret(Num(2))>>),
        Ret(Num(0))>>)>> : k \in {0, 2, 3}, op \in {"<", "<=", "!="}, op2 \in {"==", "!="}}

\* More arguments than registers for them, of both classes
ManyArguments == {<<
    Fn("pick", <<OfInt("a"), OfFloat("b"), OfInt("c"), OfFloat("d"), OfInt("e"), OfFloat("f"), OfInt("g")>>, "int", <<
        Do("print_float", Bin(Id("f"), "-", Bin(Id("d"), "*", Id("b")))),
        Ret(Bin(Id("g"), op, Bin(Id("e"), "-", Bin(Id("c"), "-", Id("a")))))>>),
    Main(<<
        Local("int", "n", Num(2)),
        Set("n", Ap("pick", <<Id("n"), Num(5), Num(7), Halves(3), Bin(Id("n"), "+", Num(9)), Num(4),
                              Bin(Id("n"), "*", Num(8))>>)),
        Do("print_int", Id("n")), Ret(Id("n"))>>)>> : op \in {"-", "/"}}

\* A value needed after a call of the function itself, and again after another
Recursion == {<<
    Fn("walk", <<OfInt("n")>>, "int", <<
        If(Bin(Id("n"), "<=", Num(k)), <<Ret(Id("n"))>>),
        Local("int", "m", Ap("walk", <<Bin(Id("n"), "-", Num(1))>>)),
        Do("print_int", Id("n")),
        Ret(Bin(Bin(Id("m"), op, Id("n")), "+", Ap("walk", <<Bin(Id("n"), "-", Num(2))>>)))>>),
    Main(<<Ret(Ap("walk", <<Num(2)>>))>>)>> : k \in {0, 1}, op \in {"*", "%"}}

\* Names hidden and back again, chains of conditions, functions that return nothing, a
\* condition that is read again after its branch
Scopes == {<<
    Fn("show", <<OfInt("n")>>, "void", <<
        If(Bin(Id("n"), "<", Num(0)), <<Ret(<<>>)>>), Do("print_int", Id("n"))>>),
    Main(<<
        Local("int", "n", Num(k)),
        IfElse(Bin(Id("n"), "<", Num(1)),
               <<Local("int", "n", Un("-", Num(1))), <<"expr", Ap("show", <<Id("n")>>)>>>>,
               IfElse(Bin(Id("n"), "==", Num(1)),
                      <<Local("float", "n", Num(8)), Do("print_float", Id("n")), Set("n", Num(7))>>,
                      Body(<<Set("n", Num(6))>>))),
        <<"expr", Ap("show", <<Id("n")>>)>>,
        Local("bool", "small", Bin(Id("n"), "<", Num(7))),
        If(Id("small"), <<Set("n", Num(5))>>),
        Do("print_bool", Id("small")),
        Ret(Id("n"))>>)>> : k \in {0, 1, 2}}

\* Three operands and two operators: how they group, what they fold to, and what a
\* division by zero or of the smallest number does
Expressions == {<<
    Fn("f", <<OfInt("a"), OfInt("b"), OfInt("c")>>, "int", <<
        Ret(IF left THEN Bin(Bin(Id("a"), op, Id("b")), last[1], Id("c"))
                    ELSE Bin(Id("a"), op, Bin(Id("b"), last[1], Id("c"))))>>),
    Main(<<
        Do("print_int", Bin(Num(9), op, Num(2))),
        Ret(Ap("f", <<Bin(Un("-", Num(last[2])), "-", Num(1)), Num(3), last[3]>>))>>)>> :
    op \in {"+", "-", "*", "/", "%"}, left \in BOOLEAN,
    last \in {<<"-", 19, Num(3)>>, <<"/", 19, Num(0)>>, <<"/", 32767, Un("-", Num(1))>>}}

\* What semantic analysis has to look at: each is wrong, or looks it
Suspects == {
    <<Main(<<Local("int", "a", Halves(3)), Ret(Id("a"))>>)>>,
    <<Main(<<While(True, <<Ret(Num(1))>>)>>)>>,
    <<Main(<<If(True, <<Local("int", "a", Num(1))>>), Ret(Id("a"))>>)>>,
    <<Main(<<Local("int", "a", Id("a")), Ret(Id("a"))>>)>>,
    <<Main(<<Local("int", "main", Num(1)), Ret(Id("main"))>>)>>,
    <<Main(<<Array("float", "v", 2), SetAt("v", Num(0), Num(1)), Ret(Num(0))>>)>>,
    <<Main(<<Array("int", "v", 2), Ret(Id("v"))>>)>>,
    <<Main(<<Array("int", "v", 2^LengthWidth), SetAt("v", Num(0), Num(1)), Ret(Num(0))>>)>>,
    <<Main(<<Array("int", "v", 2^LengthWidth), Set("v", Num(5)), Ret(Id("v"))>>)>>,
    <<Main(<<Array("int", "v", 2^LengthWidth - 1), Ret(Num(0))>>)>>,
    <<Main(<<IfElse(Bin(True, "<", True), <<Ret(Num(1))>>, Body(<<Ret(Num(2))>>))>>)>>,
    <<Fn("f", <<OfFloat("x")>>, "float", <<While(Bin(Id("x"), ">", Num(0)), <<Ret(Id("x"))>>)>>),
      Main(<<Do("print_float", Ap("f", <<Num(0)>>)), Ret(Num(0))>>)>>,
    <<Fn("f", <<>>, "void", <<>>), Main(<<Ret(Ap("f", <<>>))>>)>>,
    <<Fn("f", <<>>, "int", <<Ret(Num(1))>>), Fn("f", <<>>, "int", <<Ret(Num(2))>>), Main(<<Ret(Ap("f", <<>>))>>)>>,
    <<Main(<<<<"break">>, Ret(Num(0))>>)>>,
    <<Fn("f", <<OfInt("a"), OfInt("a")>>, "int", <<Ret(Id("a"))>>), Main(<<Ret(Ap("f", <<Num(1), Num(2)>>))>>)>>,
    <<Fn("f", <<OfInt("a")>>, "int", <<Local("int", "a", Num(2)), Ret(Id("a"))>>), Main(<<Ret(Ap("f", <<Num(1)>>))>>)>>}

Programs == UNION {Jumps, Swaps, ShortCircuits, Arrays, Floats, ManyArguments, Recursion, Scopes,
                   Expressions, Suspects}

-----------------------------------------------------------------------------
(* Texts with a mistake: a word left out, written twice, or another one      *)

Damaged == {<<
    Fn("f", <<OfInt("a"), OfFloat("b")>>, "int", <<
        IfElse(Bin(Id("a"), "<", Num(3)), <<Set("a", Bin(Un("-", Id("a")), "*", Num(2)))>>,
               IfElse(Bin(Id("b"), "!=", Id("a")), <<Ret(Num(3))>>, Body(<<>>))),
        Ret(Id("a"))>>),
    Main(<<
        Array("int", "v", 2), Local("int", "i", <<>>),
        <<"for", Set("i", Num(0)), Bin(Id("i"), "<", Num(2)), Set("i", Bin(Id("i"), "+", Num(1))),
          Body(<<SetAt("v", Id("i"), Ap("f", <<Id("i"), Halves(1)>>)), <<"continue">>>>)>>,
        While(True, <<Ret(Bin(At("v", Num(1)), "-", At("v", Num(0))))>>),
        Ret(Num(0))>>)>>}

Strays == {W(")"), W(";"), W("}"), W("fn"), W("for"), Id("a"), Id("v"), W("eof")}
Mistakes(words) ==
    LET k == Len(words)
        With(n, others) == SubSeq(words, 1, n - 1) \o others \o SubSeq(words, n + 1, k)
    IN {With(n, <<>>) : n \in 1 .. k - 1} \cup {With(n, <<words[n], words[n]>>) : n \in 1 .. k - 1}
       \cup {With(p[1], <<p[2]>>) : p \in (1 .. k - 1) \X (Strays \ {W("eof")})}
       \cup {SubSeq(words, 1, n) \o <<W("eof")>> : n \in 0 .. k - 2}

SomeOptions == {[level |-> "none", allocator |-> "naive"], [level |-> "none", allocator |-> "graph"],
                [level |-> "ssa", allocator |-> "graph"]}
SomeJobs ==
    {[text |-> Written(program), options |-> o] : program \in Programs \cup Damaged, o \in SomeOptions}
    \cup [text : UNION {Mistakes(Written(program)) : program \in Damaged},
          options : {[level |-> "ssa", allocator |-> "graph"]}]

NoCallees == <<>>
SmallPools == {[Integer |-> <<"r11", "rbx", "rsi">>, Float |-> <<"xmm6">>]}
AllRegisters == {"r11", "rbx", "rsi", "xmm6"}
CalleeSavedRegisters == {"rbx", "rsi", "xmm6"}
IntArgRegisters == <<"rcx", "rdx", "r8", "r9">>
FloatArgRegisters == <<"xmm0", "xmm1", "xmm2", "xmm3">>
AllFloatRegisters == {"xmm0", "xmm1", "xmm2", "xmm3", "xmm4", "xmm5", "xmm6"}
Destroyed == {"rax", "rcx", "rdx", "r8", "r9", "r10", "r11",
              "xmm0", "xmm1", "xmm2", "xmm3", "xmm4", "xmm5"}
Kept == <<"rbx", "rsi", "xmm6", "rbp", "rsp">>

NoInputs == {}
=============================================================================
