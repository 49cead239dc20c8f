--------------------------- MODULE SourceMeaning ----------------------------
(***************************************************************************)
(* What a program of the language means and how it is written down, the    *)
(* two references the compiler is compared with (docs/language.md).        *)
(*                                                                         *)
(* Its meaning is an interpreter of the tree the parser makes, which knows *)
(* nothing of symbols, slots, blocks or registers.  Names are looked up    *)
(* while the program runs, every value carries its type, and a step the    *)
(* types do not allow is "wrong".  An element of an array that was never   *)
(* written, and one past its end, have no meaning: the run is "undefined". *)
(*                                                                         *)
(* Its text is the tokens of a tree, with a parenthesis only where the     *)
(* tree would be another one without it.  This is what the parser has to   *)
(* read back, stated without the parser.                                   *)
(***************************************************************************)
EXTENDS IR

CONSTANT Rounds  \* bound: loop rounds and nested calls of a run

ASSUME SourceAssumption == Rounds \in Nat

\* A value is its type and a number; these are none
Void == <<"void", 0>>
Wrong == <<"wrong", 0>>
Trapped == <<"trapped", 0>>

Stop(s, status) == [s EXCEPT !.status = status]
\* The last expression came out as v
Give(s, v) == IF v \in {Wrong, Trapped} THEN Stop(s, v[1]) ELSE [s EXCEPT !.value = v]

Widened(v, type) ==
    CASE v[1] = type /\ type # "void" -> v
      [] v[1] = "int" /\ type = "float" -> <<"float", FromInt(v[2])>>
      [] OTHER -> Wrong

-----------------------------------------------------------------------------
(* Variables: a type, a length (0 for a scalar) and the cells written so far *)

NewVariable(type, length, v) ==
    [type |-> type, length |-> length, cells |-> IF length = 0 THEN 0 :> v[2] ELSE <<>>]

Holder(s, name) == {k \in DOMAIN s.scopes : name \in DOMAIN s.scopes[k]}
Named(s, name) == s.scopes[Max(Holder(s, name))][name]

\* A cell that exists: the only one of a scalar, an element of an array
CellStatus(s, name, indexed, n) ==
    IF Holder(s, name) = {} \/ (Named(s, name).length # 0) # indexed THEN "wrong"
    ELSE IF indexed /\ n \notin 0 .. Named(s, name).length - 1 THEN "undefined" ELSE "running"

ReadCell(s, name, indexed, n) ==
    LET status == CellStatus(s, name, indexed, n)
    IN IF status # "running" THEN Stop(s, status)
       ELSE IF n \notin DOMAIN Named(s, name).cells THEN Stop(s, "undefined")
       ELSE Give(s, <<Named(s, name).type, Named(s, name).cells[n]>>)

WriteCell(s, name, indexed, n, v) ==
    LET status == CellStatus(s, name, indexed, n)
        w == Widened(v, Named(s, name).type)
    IN IF status # "running" THEN Stop(s, status)
       ELSE IF w = Wrong THEN Stop(s, "wrong")
       ELSE [s EXCEPT !.scopes[Max(Holder(s, name))][name].cells = (n :> w[2]) @@ @]

OpenScope(s) == [s EXCEPT !.scopes = Append(@, <<>>)]
LeaveScopes(s, outer) == [s EXCEPT !.scopes = SubSeq(@, 1, Len(outer.scopes))]

DeclareVariable(s, type, name, length, v) ==
    IF name \in DOMAIN Last(s.scopes) \/ type = "void" \/ v = Wrong THEN Stop(s, "wrong")
    ELSE [s EXCEPT !.scopes[Len(s.scopes)] = (name :> NewVariable(type, length, v)) @@ @]

-----------------------------------------------------------------------------
(* Operators *)

Truth(b) == <<"bool", IF b THEN 1 ELSE 0>>
Relations == {"==", "!=", "<", ">", "<=", ">="}
Related(op, a, b) ==
    CASE op = "==" -> a = b [] op = "!=" -> a # b [] op = "<" -> a < b
      [] op = ">" -> a > b [] op = "<=" -> a <= b [] op = ">=" -> a >= b

OnInts(op, a, b) ==
    CASE op = "+" -> <<"int", Wrap(a + b)>>
      [] op = "-" -> <<"int", Wrap(a - b)>>
      [] op = "*" -> <<"int", Wrap(a * b)>>
      [] op \in {"/", "%"} /\ (b = 0 \/ (a = MinInt /\ b = -1)) -> Trapped
      [] op = "/" /\ b # 0 -> <<"int", Quotient(a, b)>>
      [] op = "%" /\ b # 0 -> <<"int", Remainder(a, b)>>
      [] OTHER -> Truth(Related(op, a, b))

\* Every comparison with a NaN is false, except that it differs from everything
OnFloats(op, a, b) ==
    CASE op = "%" -> Wrong
      [] op \in Relations /\ NaN \in {a, b} -> Truth(op = "!=")
      [] op \in Relations /\ NaN \notin {a, b} -> Truth(Related(op, a, b))
      [] op = "+" -> <<"float", FloatComputed("fadd", a, b)>>
      [] op = "-" -> <<"float", FloatComputed("fsub", a, b)>>
      [] op = "*" -> <<"float", FloatComputed("fmul", a, b)>>
      [] op = "/" -> <<"float", FloatComputed("fdiv", a, b)>>

Operate(op, x, y) ==
    LET a == Widened(x, "float")
        b == Widened(y, "float")
    IN CASE x[1] = "int" /\ y[1] = "int" -> OnInts(op, x[2], y[2])
         [] x[1] = "bool" /\ y[1] = "bool" /\ op \in {"==", "!="} -> Truth(Related(op, x[2], y[2]))
         [] "float" \in {x[1], y[1]} /\ Wrong \notin {a, b} -> OnFloats(op, a[2], b[2])
         [] OTHER -> Wrong

Negate(op, x) ==
    CASE op = "!" /\ x[1] = "bool" -> Truth(x[2] = 0)
      [] op = "-" /\ x[1] = "int" -> <<"int", Wrap(-x[2])>>
      [] op = "-" /\ x[1] = "float" -> <<"float", IF x[2] = NaN THEN NaN ELSE -x[2]>>
      [] OTHER -> Wrong

-----------------------------------------------------------------------------
(* Evaluation, from left to right.  s.program is the list of functions *)

RECURSIVE Evaluate(_, _), Execute(_, _), Repeat(_, _, _, _)

Running(s) == s.status = "running"
\* One after another as long as the program runs
Then(s, Next(_)) == IF Running(s) THEN Next(s) ELSE s

Collected(t, u) == [state |-> u, values |-> Append(t.values, u.value)]
EvaluateAll(s, es) ==
    InOrder(LAMBDA t, e : Collected(t, Evaluate(t.state, e)), [state |-> s, values |-> <<>>], es)

Printed == [print_int |-> "int", print_float |-> "float", print_bool |-> "bool"]

\* left is where the body ends
ReturnTo(s, type, left) ==
    LET back == [left EXCEPT !.scopes = s.scopes, !.rounds = s.rounds, !.result = s.result]
    IN CASE left.status = "returned" -> Stop(back, "running")
         [] left.status = "running" -> IF type = "void" THEN Give(back, Void) ELSE Stop(back, "wrong")
         [] left.status \in {"break", "continue"} -> Stop(back, "wrong")
         [] OTHER -> back

\* Parameters share the scope of the body
CallFunction(s, function, values) ==
    LET Bind(t, n) ==
          DeclareVariable(t, function[3][n][1], function[3][n][2], 0,
                          Widened(values[n], function[3][n][1]))
        entered == InOrder(Bind, [s EXCEPT !.scopes = <<<<>>>>, !.rounds = @ + 1, !.result = function[4]],
                           [n \in DOMAIN values |-> n])
    IN ReturnTo(s, function[4], Then(entered, LAMBDA t : InOrder(Execute, t, function[5][2])))

Call(s, name, values) ==
    LET found == SelectSeq(s.program, LAMBDA function : function[2] = name)
        v == Widened(values[1], Printed[name])
    IN CASE Holder(s, name) # {} -> Stop(s, "wrong")
         [] Holder(s, name) = {} /\ name \in DOMAIN Printed ->
              IF Len(values) # 1 \/ v = Wrong THEN Stop(s, "wrong")
              ELSE Give([s EXCEPT !.out = Append(@, <<name, <<v[2]>>>>)], Void)
         [] OTHER ->
              IF found = <<>> \/ Len(found[1][3]) # Len(values) THEN Stop(s, "wrong")
              ELSE IF s.rounds >= Rounds THEN Stop(s, "diverges")
              ELSE CallFunction(s, found[1], values)
CallReady(ready, name) == Then(ready.state, LAMBDA t : Call(t, name, ready.values))

\* The right side counts only when the left one does not decide
ShortCircuit(s, op, l, r) ==
    LET Decide(t) ==
          CASE t.value[1] # "bool" -> Stop(t, "wrong")
            [] t.value = Truth(op = "||") -> t
            [] OTHER -> Then(Evaluate(t, r), LAMBDA u : IF u.value[1] = "bool" THEN u ELSE Stop(u, "wrong"))
    IN Then(Evaluate(s, l), Decide)

Evaluate(s, e) ==
    CASE ~Running(s) -> s
      [] Running(s) /\ e[1] \in {"int", "float", "bool"} -> Give(s, e)
      [] Running(s) /\ e[1] = "name" -> ReadCell(s, e[2], FALSE, 0)
      [] Running(s) /\ e[1] = "index" ->
           Then(Evaluate(s, e[3]), LAMBDA t : IF t.value[1] = "int" THEN ReadCell(t, e[2], TRUE, t.value[2])
                                              ELSE Stop(t, "wrong"))
      [] Running(s) /\ e[1] = "unary" -> Then(Evaluate(s, e[3]), LAMBDA t : Give(t, Negate(e[2], t.value)))
      [] Running(s) /\ e[1] = "binary" ->
           IF e[2] \in {"&&", "||"} THEN ShortCircuit(s, e[2], e[3], e[4])
           ELSE Then(Evaluate(s, e[3]),
                     LAMBDA t : Then(Evaluate(t, e[4]), LAMBDA u : Give(u, Operate(e[2], t.value, u.value))))
      [] Running(s) /\ e[1] = "call" -> CallReady(EvaluateAll(s, e[3]), e[2])

-----------------------------------------------------------------------------
(* Statements *)

Block(s, statements) == LeaveScopes(InOrder(Execute, OpenScope(s), statements), s)

\* Yes(t) when the condition holds, No(t) when it does not; <<>> holds always
Choose(s, cond, Yes(_), No(_)) ==
    Then(IF cond = <<>> THEN Give(s, Truth(TRUE)) ELSE Evaluate(s, cond),
         LAMBDA t : IF t.value[1] # "bool" THEN Stop(t, "wrong")
                    ELSE IF t.value[2] = 1 THEN Yes(t) ELSE No(t))

\* A loop: its body is done.  <<>> as its step does nothing
NextRound(done, cond, step, body) ==
    LET on == IF done.status = "continue" THEN Stop(done, "running") ELSE done
        stepped == IF step = <<>> THEN on ELSE Execute(on, step)
    IN IF done.status = "break" THEN Stop(done, "running")
       ELSE IF done.rounds >= Rounds THEN Stop(done, "diverges")
       ELSE Repeat([stepped EXCEPT !.rounds = @ + 1], cond, step, body)
Repeat(s, cond, step, body) ==
    IF ~Running(s) THEN s
    ELSE Choose(s, cond, LAMBDA t : NextRound(Block(t, body[2]), cond, step, body), LAMBDA t : t)

AssignTo(s, name, i, e) ==
    LET Store(t, v) ==
          IF i = <<>> THEN WriteCell(t, name, FALSE, 0, v)
          ELSE Then(Evaluate(t, i), LAMBDA u : IF u.value[1] = "int" THEN WriteCell(u, name, TRUE, u.value[2], v)
                                               ELSE Stop(u, "wrong"))
    IN Then(Evaluate(s, e), LAMBDA t : Store(t, t.value))

\* A scalar without an initializer is zero
DeclareLocal(s, type, name, length, e) ==
    CASE length > 0 -> IF e = <<>> THEN DeclareVariable(s, type, name, length, Void) ELSE Stop(s, "wrong")
      [] length = 0 /\ e = <<>> -> DeclareVariable(s, type, name, 0, <<type, 0>>)
      [] OTHER -> Then(Evaluate(s, e), LAMBDA t : DeclareVariable(t, type, name, 0, Widened(t.value, type)))

ReturnWith(s, e) ==
    IF e = <<>> THEN (IF s.result = "void" THEN Stop(Give(s, Void), "returned") ELSE Stop(s, "wrong"))
    ELSE Then(Evaluate(s, e), LAMBDA t : Then(Give(t, Widened(t.value, t.result)),
                                              LAMBDA u : Stop(u, "returned")))

Execute(s, t) ==
    CASE ~Running(s) -> s
      [] Running(s) /\ t[1] = "block" -> Block(s, t[2])
      [] Running(s) /\ t[1] = "var" -> DeclareLocal(s, t[2], t[3], t[4], t[5])
      [] Running(s) /\ t[1] = "assign" -> AssignTo(s, t[2], t[3], t[4])
      [] Running(s) /\ t[1] = "expr" -> Evaluate(s, t[2])
      [] Running(s) /\ t[1] = "if" ->
           Choose(s, t[2], LAMBDA u : Execute(u, t[3]), LAMBDA u : IF t[4] = <<>> THEN u ELSE Execute(u, t[4]))
      [] Running(s) /\ t[1] = "while" -> Repeat(s, t[2], <<>>, t[3])
      [] Running(s) /\ t[1] = "for" ->
           LET begun == IF t[2] = <<>> THEN OpenScope(s) ELSE Execute(OpenScope(s), t[2])
           IN LeaveScopes(Repeat(begun, t[3], t[4], t[5]), s)
      [] Running(s) /\ t[1] \in {"break", "continue"} -> Stop(s, t[1])
      [] Running(s) /\ t[1] = "return" -> ReturnWith(s, t[2])

Outcome(end) ==
    [out |-> end.out, value |-> end.value[2], status |-> IF Running(end) THEN "returned" ELSE end.status]

\* main, called with nothing
Meaning(program) ==
    Outcome(Call([program |-> program, scopes |-> <<>>, out |-> <<>>, status |-> "running",
                  value |-> Void, rounds |-> 0, result |-> "int"], "main", <<>>))

-----------------------------------------------------------------------------
(* The text of a program *)

\* From the operators that bind least to those that bind most
Levels == <<{"||"}, {"&&"}, {"==", "!="}, {"<", ">", "<=", ">="}, {"+", "-"}, {"*", "/", "%"}>>
LevelOf(op) == CHOOSE n \in DOMAIN Levels : op \in Levels[n]
UnaryLevel == Len(Levels) + 1

W(kind) == <<kind>>
Parenthesized(words) == <<W("(")>> \o words \o <<W(")")>>
Separated(lists, comma) ==
    FlattenSeq([n \in DOMAIN lists |-> IF n = 1 THEN lists[n] ELSE <<W(comma)>> \o lists[n]])

RECURSIVE WriteExpr(_, _), WriteStmt(_)

\* e where an operator below min would be torn apart
WriteExpr(e, min) ==
    LET level == LevelOf(e[2])
        binary == WriteExpr(e[3], level) \o <<W(e[2])>> \o WriteExpr(e[4], level + 1)
    IN CASE e[1] = "int" -> <<<<"number", e[2]>>>>
         [] e[1] = "float" -> <<<<"decimal", e[2]>>>>
         [] e[1] = "bool" -> <<W(IF e[2] = 1 THEN "true" ELSE "false")>>
         [] e[1] = "name" -> <<e>>
         [] e[1] = "index" -> <<<<"name", e[2]>>, W("[")>> \o WriteExpr(e[3], 1) \o <<W("]")>>
         [] e[1] = "unary" -> <<W(e[2])>> \o WriteExpr(e[3], UnaryLevel)
         [] e[1] = "call" ->
              <<<<"name", e[2]>>>>
              \o Parenthesized(Separated([n \in DOMAIN e[3] |-> WriteExpr(e[3][n], 1)], ","))
         [] e[1] = "binary" -> IF level < min THEN Parenthesized(binary) ELSE binary

WriteOptional(e, before) == IF e = <<>> THEN <<>> ELSE before \o WriteExpr(e, 1)
WriteBlock(block) ==
    <<W("{")>> \o FlattenSeq([n \in DOMAIN block[2] |-> WriteStmt(block[2][n])]) \o <<W("}")>>

WriteLength(n) == IF n = 0 THEN <<>> ELSE <<W("["), <<"number", n>>, W("]")>>
WriteAssign(t) ==
    <<<<"name", t[2]>>>>
    \o (IF t[3] = <<>> THEN <<>> ELSE <<W("[")>> \o WriteExpr(t[3], 1) \o <<W("]")>>)
    \o <<W("=")>> \o WriteExpr(t[4], 1)

WriteStmt(t) ==
    CASE t[1] = "block" -> WriteBlock(t)
      [] t[1] = "var" ->
           <<W(t[2]), <<"name", t[3]>>>> \o WriteLength(t[4]) \o WriteOptional(t[5], <<W("=")>>) \o <<W(";")>>
      [] t[1] = "assign" -> WriteAssign(t) \o <<W(";")>>
      [] t[1] = "expr" -> WriteExpr(t[2], 1) \o <<W(";")>>
      [] t[1] = "if" ->
           <<W("if")>> \o Parenthesized(WriteExpr(t[2], 1)) \o WriteBlock(t[3])
           \o (IF t[4] = <<>> THEN <<>> ELSE <<W("else")>> \o WriteStmt(t[4]))
      [] t[1] = "while" -> <<W("while")>> \o Parenthesized(WriteExpr(t[2], 1)) \o WriteBlock(t[3])
      [] t[1] = "for" ->
           <<W("for")>>
           \o Parenthesized((IF t[2] = <<>> THEN <<W(";")>> ELSE WriteStmt(t[2]))
                            \o WriteOptional(t[3], <<>>) \o <<W(";")>>
                            \o (IF t[4] = <<>> THEN <<>> ELSE WriteAssign(t[4])))
           \o WriteBlock(t[5])
      [] t[1] \in {"break", "continue"} -> <<W(t[1]), W(";")>>
      [] t[1] = "return" -> <<W("return")>> \o WriteOptional(t[2], <<>>) \o <<W(";")>>

WriteFunction(function) ==
    LET Param(param) == <<W(param[1]), <<"name", param[2]>>>>
    IN <<W("fn"), <<"name", function[2]>>>>
       \o Parenthesized(Separated([n \in DOMAIN function[3] |-> Param(function[3][n])], ","))
       \o (IF function[4] = "void" THEN <<>> ELSE <<W("->"), W(function[4])>>)
       \o WriteBlock(function[5])

Written(program) ==
    FlattenSeq([n \in DOMAIN program |-> WriteFunction(program[n])]) \o <<W("eof")>>
=============================================================================
