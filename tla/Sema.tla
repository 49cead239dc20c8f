-------------------------------- MODULE Sema --------------------------------
(***************************************************************************)
(* Names and types: what src/frontend/Sema.cpp (with Symbol.cpp and        *)
(* Type.cpp) accepts, and the tree it leaves for IR generation, in which   *)
(* every expression has its type in second place and every variable is     *)
(* its symbol.  A symbol is known by a number, as the code knows it by its *)
(* address.  Errors are counted; warnings and notes are left out.          *)
(***************************************************************************)
EXTENDS Iteration

-----------------------------------------------------------------------------
(* Types.  An array has a length *)

Scalar(name) == [of |-> name, length |-> 0]
IntType == Scalar("int")
FloatType == Scalar("float")
BoolType == Scalar("bool")
VoidType == Scalar("void")
Unknown == Scalar("unknown")  \* nullptr: an error has been reported
ArrayOf(element, length) == [of |-> element, length |-> length]

IsArray(type) == type.length # 0
IsNumeric(type) == type \in {IntType, FloatType}

\* The one implicit conversion widens an int
IsAssignable(target, source) ==
    Unknown \in {target, source} \/ target = source \/ (target = FloatType /\ source = IntType)

PromoteArithmetic(lhs, rhs) ==
    CASE ~IsNumeric(lhs) \/ ~IsNumeric(rhs) -> Unknown
      [] IsNumeric(lhs) /\ IsNumeric(rhs) /\ FloatType \in {lhs, rhs} -> FloatType
      [] OTHER -> IntType

-----------------------------------------------------------------------------
(* Symbols.  scopes is the active nest, innermost last *)

Variable(id, type) == [id |-> id, type |-> type, params |-> <<>>, function |-> FALSE]
Function(id, type, params) == [id |-> id, type |-> type, params |-> params, function |-> TRUE]
NoSymbol == Variable(0, Unknown)

\* Scope::lookup, from the innermost scope outwards
LookUp(scopes, name) ==
    LET at == {k \in DOMAIN scopes : name \in DOMAIN scopes[k]}
    IN IF at = {} THEN NoSymbol ELSE scopes[Max(at)][name]

-----------------------------------------------------------------------------
(* Expressions: the type, the errors reported and the tree *)

Typed(type, errors, node) == [type |-> type, errors |-> errors, node |-> node]
Ill(errors) == Typed(Unknown, errors, <<>>)

LegalSymbol(symbol) == symbol # NoSymbol /\ ~symbol.function

RECURSIVE AnalyzeExpr(_, _)

AnalyzeVarRef(scopes, name) ==
    LET symbol == LookUp(scopes, name)
    IN IF LegalSymbol(symbol) /\ ~IsArray(symbol.type)
         THEN Typed(symbol.type, 0, <<"name", symbol.type, symbol>>) ELSE Ill(1)

\* An index has to be an int
IndexErrors(index) == index.errors + (IF index.type \in {IntType, Unknown} THEN 0 ELSE 1)

AnalyzeIndex(scopes, name, e) ==
    LET symbol == LookUp(scopes, name)
        index == AnalyzeExpr(scopes, e)
        element == Scalar(symbol.type.of)
    IN IF LegalSymbol(symbol) /\ IsArray(symbol.type)
         THEN Typed(element, IndexErrors(index), <<"index", element, symbol, index.node>>)
         ELSE Ill(IndexErrors(index) + 1)

AnalyzeUnary(scopes, op, e) ==
    LET x == AnalyzeExpr(scopes, e)
        fits == IF op = "-" THEN IsNumeric(x.type) ELSE x.type = BoolType
    IN CASE fits -> Typed(x.type, x.errors, <<"unary", x.type, op, x.node>>)
         [] ~fits /\ x.type = Unknown -> x
         [] OTHER -> Ill(x.errors + 1)

Comparisons == {"==", "!=", "<", ">", "<=", ">="}

\* What op makes of two types, Unknown when it cannot have them
BinaryResult(op, lhs, rhs) ==
    CASE op \in {"&&", "||"} -> IF lhs = BoolType /\ rhs = BoolType THEN BoolType ELSE Unknown
      [] op \in {"==", "!="} /\ lhs = BoolType /\ rhs = BoolType -> BoolType
      [] op = "%" -> IF lhs = IntType /\ rhs = IntType THEN IntType ELSE Unknown
      [] OTHER -> IF op \in Comparisons /\ PromoteArithmetic(lhs, rhs) # Unknown THEN BoolType
                  ELSE PromoteArithmetic(lhs, rhs)

AnalyzeBinary(scopes, op, l, r) ==
    LET lhs == AnalyzeExpr(scopes, l)
        rhs == AnalyzeExpr(scopes, r)
        errors == lhs.errors + rhs.errors
        type == BinaryResult(op, lhs.type, rhs.type)
    IN CASE Unknown \in {lhs.type, rhs.type} -> Ill(errors)
         [] Unknown \notin {lhs.type, rhs.type} /\ type = Unknown -> Ill(errors + 1)
         [] OTHER -> Typed(type, errors, <<"binary", type, op, lhs.node, rhs.node>>)

Total(numbers) == FoldLeft(+, 0, numbers)

AnalyzeCall(scopes, name, es) ==
    LET callee == LookUp(scopes, name)
        args == [n \in DOMAIN es |-> AnalyzeExpr(scopes, es[n])]
        errors == Total([n \in DOMAIN args |-> args[n].errors])
        mismatches == {n \in DOMAIN args : ~IsAssignable(callee.params[n], args[n].type)}
    IN CASE ~callee.function -> Ill(errors + 1)
         [] callee.function /\ Len(args) # Len(callee.params) -> Typed(callee.type, errors + 1, <<>>)
         [] OTHER -> Typed(callee.type, errors + Cardinality(mismatches),
                           <<"call", callee.type, name, [n \in DOMAIN args |-> args[n].node]>>)

AnalyzeExpr(scopes, e) ==
    CASE e[1] = "int" -> Typed(IntType, 0, <<"int", IntType, e[2]>>)
      [] e[1] = "float" -> Typed(FloatType, 0, <<"float", FloatType, e[2]>>)
      [] e[1] = "bool" -> Typed(BoolType, 0, <<"bool", BoolType, e[2]>>)
      [] e[1] = "name" -> AnalyzeVarRef(scopes, e[2])
      [] e[1] = "index" -> AnalyzeIndex(scopes, e[2], e[3])
      [] e[1] = "unary" -> AnalyzeUnary(scopes, e[2], e[3])
      [] e[1] = "binary" -> AnalyzeBinary(scopes, e[2], e[3], e[4])
      [] e[1] = "call" -> AnalyzeCall(scopes, e[2], e[3])

-----------------------------------------------------------------------------
(* Statements.  s: the scopes, the errors so far, the loops around, what the *)
(* function returns, the number of the last symbol, and the tree *)

Error(s, n) == [s EXCEPT !.errors = @ + n]
Complain(s, wrong) == Error(s, IF wrong THEN 1 ELSE 0)

\* SymbolTable::declare; a name that is taken stays what it was
Declare(s, name, symbol) ==
    IF name \in DOMAIN Last(s.scopes) THEN Error(s, 1)
    ELSE [s EXCEPT !.scopes[Len(s.scopes)] = (name :> symbol) @@ @, !.last = symbol.id]

PushScope(s) == [s EXCEPT !.scopes = Append(@, <<>>)]
PopScope(s) == [s EXCEPT !.scopes = Front(@)]

RECURSIVE AnalyzeStmt(_, _)

\* The trees of statements in a row.  An else branch or a clause may be absent
AnalyzeAll(s, statements) ==
    InOrder(LAMBDA t, statement :
              [IF statement = <<>> THEN t ELSE AnalyzeStmt(t, statement)
                 EXCEPT !.node = Append(t.node, IF statement = <<>> THEN <<>> ELSE @)],
            [s EXCEPT !.node = <<>>], statements)

AnalyzeBlock(s, block) ==
    [PopScope(AnalyzeAll(PushScope(s), block[2])) EXCEPT !.node = <<"block", @>>]

\* requireBoolCondition
Required(s, c) ==
    [Complain(Error(s, c.errors), c.type \notin {BoolType, Unknown}) EXCEPT !.node = c.node]
AnalyzeCondition(s, e) == Required(s, AnalyzeExpr(s.scopes, e))

\* The initializer is analysed before the name is declared
DeclareVar(s, type, name, length, e, init) ==
    LET declared == IF length > 0 THEN ArrayOf(type, length) ELSE Scalar(type)
        checked == Complain(Complain(Error(s, init.errors), type = "void" \/ (length > 0 /\ e # <<>>)),
                            ~IsAssignable(declared, init.type))
        symbol == Variable(s.last + 1, declared)
    IN IF type = "void" /\ length > 0 THEN checked
       ELSE [Declare(checked, name, symbol) EXCEPT !.node = <<"var", symbol, init.node>>]
AnalyzeVarDecl(s, type, name, length, e) ==
    DeclareVar(s, type, name, length, e,
               IF e = <<>> \/ length > 0 THEN Typed(Unknown, 0, <<>>) ELSE AnalyzeExpr(s.scopes, e))

CheckAssign(s, target, i, index, value) ==
    LET legal == IsArray(target.type) = (i # <<>>)
        after == Error(s, value.errors)
    IN IF ~LegalSymbol(target) THEN Error(after, 1)
       ELSE [Complain(Error(after, IndexErrors(index)),
                      ~legal \/ ~IsAssignable(Scalar(target.type.of), value.type))
               EXCEPT !.node = <<"assign", target, index.node, value.node>>]
AnalyzeAssign(s, name, i, e) ==
    CheckAssign(s, LookUp(s.scopes, name), i,
                IF i = <<>> THEN Typed(IntType, 0, <<>>) ELSE AnalyzeExpr(s.scopes, i),
                AnalyzeExpr(s.scopes, e))

CheckReturn(s, e, value) ==
    LET wrong == IF e = <<>> \/ s.result = VoidType THEN (e = <<>>) # (s.result = VoidType)
                 ELSE ~IsAssignable(s.result, value.type)
    IN [Complain(Error(s, value.errors), wrong) EXCEPT !.node = <<"return", value.node>>]
AnalyzeReturn(s, e) ==
    CheckReturn(s, e, IF e = <<>> THEN Typed(VoidType, 0, <<>>) ELSE AnalyzeExpr(s.scopes, e))

AnalyzeExprStmt(s, x) == [Error(s, x.errors) EXCEPT !.node = <<"expr", x.node>>]

\* The condition and the branches
AnalyzeIf(s, cond, then, else) ==
    [AnalyzeAll(s, <<<<"condition", cond>>, then, else>>) EXCEPT !.node = <<"if">> \o @]

AnalyzeWhile(s, cond, body) ==
    [AnalyzeAll(s, <<<<"condition", cond>>, <<"body", body>>>>) EXCEPT !.node = <<"while">> \o @]

\* A scope of its own; the step is analysed before the body
AnalyzeFor(s, init, cond, step, body) ==
    [PopScope(AnalyzeAll(PushScope(s),
                         <<init, IF cond = <<>> THEN <<>> ELSE <<"condition", cond>>, step, <<"body", body>>>>))
       EXCEPT !.node = <<"for">> \o @]

AnalyzeStmt(s, t) ==
    CASE t[1] = "block" -> AnalyzeBlock(s, t)
      [] t[1] = "condition" -> AnalyzeCondition(s, t[2])
      [] t[1] = "body" ->
           [AnalyzeBlock([s EXCEPT !.loops = @ + 1], t[2]) EXCEPT !.loops = s.loops]
      [] t[1] = "var" -> AnalyzeVarDecl(s, t[2], t[3], t[4], t[5])
      [] t[1] = "assign" -> AnalyzeAssign(s, t[2], t[3], t[4])
      [] t[1] = "expr" -> AnalyzeExprStmt(s, AnalyzeExpr(s.scopes, t[2]))
      [] t[1] = "if" -> AnalyzeIf(s, t[2], t[3], t[4])
      [] t[1] = "while" -> AnalyzeWhile(s, t[2], t[3])
      [] t[1] = "for" -> AnalyzeFor(s, t[2], t[3], t[4], t[5])
      [] t[1] \in {"break", "continue"} -> [Complain(s, s.loops = 0) EXCEPT !.node = t]
      [] t[1] = "return" -> AnalyzeReturn(s, t[2])

-----------------------------------------------------------------------------
(* Functions *)

RECURSIVE ReturnsOnAllPaths(_)

\* Mutant: a loop returns when its body does
ReturnsOnAllPaths_Loops(t) ==
    CASE t[1] = "return" -> TRUE
      [] t[1] = "block" -> \E n \in DOMAIN t[2] : ReturnsOnAllPaths(t[2][n])
      [] t[1] = "if" -> t[4] # <<>> /\ ReturnsOnAllPaths(t[3]) /\ ReturnsOnAllPaths(t[4])
      [] t[1] = "while" -> ReturnsOnAllPaths(t[3])
      [] OTHER -> FALSE

\* A loop guarantees nothing: its condition may be false on entry
ReturnsOnAllPaths(t) ==
    CASE t[1] = "return" -> TRUE
      [] t[1] = "block" -> \E n \in DOMAIN t[2] : ReturnsOnAllPaths(t[2][n])
      [] t[1] = "if" -> t[4] # <<>> /\ ReturnsOnAllPaths(t[3]) /\ ReturnsOnAllPaths(t[4])
      [] OTHER -> FALSE

NameOf(function) == function[2]
ParamTypes(function) == [n \in DOMAIN function[3] |-> Scalar(function[3][n][1])]

\* declareBuiltins
Builtins ==
    [print_int |-> <<IntType>>, print_float |-> <<FloatType>>, print_bool |-> <<BoolType>>]

\* collectSignatures: the first function of a name is the one
CollectSignatures(s, program) ==
    InOrder(LAMBDA t, function :
              IF NameOf(function) \in DOMAIN t.scopes[1] THEN Error(t, 1)
              ELSE LET params == ParamTypes(function)
                       voids == {n \in DOMAIN params : params[n] = VoidType}
                   IN Declare(Error(t, Cardinality(voids)), NameOf(function),
                              Function(t.last + 1, Scalar(function[4]), params)),
            s, program)

\* checkEntryPoint
HasEntryPoint(scopes) ==
    LET main == LookUp(scopes, "main") IN main.function /\ main.params = <<>> /\ main.type = IntType

\* declareParam
DeclareParam(s, param) ==
    LET u == Declare(s, param[2], Variable(s.last + 1, Scalar(param[1])))
    IN [u EXCEPT !.node = Append(@, LookUp(u.scopes, param[2]))]

\* analyzeFunction, t being where the parameters are declared.  The body shares their scope
AnalyzeFunctionBody(t, function, before) ==
    [Complain(PopScope(AnalyzeAll(t, function[5][2])),
              t.result # VoidType /\ ~ReturnsOnAllPaths(function[5]))
       EXCEPT !.node = Append(before, <<"fn", NameOf(function), t.node, t.result, @>>)]
AnalyzeFunction(s, function) ==
    AnalyzeFunctionBody(InOrder(DeclareParam,
                                [PushScope(s) EXCEPT !.node = <<>>, !.result = Scalar(function[4])],
                                function[3]), function, s.node)

Sema0 ==
    [scopes |-> <<[name \in DOMAIN Builtins |-> Function(0, VoidType, Builtins[name])]>>,
     errors |-> 0, loops |-> 0, result |-> VoidType, last |-> 0, node |-> <<>>]

\* Sema::analyze.  A second function of a name has no symbol and is not looked at
AnalyzeFunctions(declared, program) ==
    InOrder(LAMBDA s, n : AnalyzeFunction(s, program[n]),
            Complain(declared, ~HasEntryPoint(declared.scopes)),
            SelectSeq([n \in DOMAIN program |-> n], LAMBDA n :
              /\ NameOf(program[n]) \notin DOMAIN Builtins
              /\ \A m \in 1 .. n - 1 : NameOf(program[m]) # NameOf(program[n])))
Analyze(program) == AnalyzeFunctions(CollectSignatures(Sema0, program), program)
=============================================================================
