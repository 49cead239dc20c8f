------------------------------- MODULE IRGen -------------------------------
(***************************************************************************)
(* From the tree Sema leaves to IR: src/irgen/IRGen.cpp with the builder   *)
(* of src/ir/IRBuilder.cpp.                                                *)
(*                                                                         *)
(* The state of the generator is a record: f the function so far, at the   *)
(* insertion point, slots the alloca of each symbol, loops where break and *)
(* continue go, value what the last expression became, and functions the   *)
(* signatures of the module.                                               *)
(***************************************************************************)
EXTENDS IR, Sema

LowerType(type) == [int |-> "i64", float |-> "f64", bool |-> "i1", void |-> "void"][type.of]

-----------------------------------------------------------------------------
(* IRBuilder *)

NextInst(g) == 1 + Cardinality(DOMAIN g.f.inst)
ValueOf(g, v) == [g EXCEPT !.value = v]
Insert(g, ins) == ValueOf([g EXCEPT !.f = Emit(@, g.at, NextInst(g), ins)], Ref(NextInst(g)))
AtTerminatedBlock(g) == HasTerminator(g.f, g.at)

\* createBlock: the block is value
NewBlock(g) == LET b == Len(g.f.order) + 1 IN [g EXCEPT !.f = CreateBlock(@, b), !.value = b]
SetInsertPoint(g, b) == [g EXCEPT !.at = b]

\* Mutant: the slot goes where the declaration is
CreateEntryAlloca_InPlace(g, type, count) ==
    LET slot == Insert(g, Inst("alloca", "ptr", type, <<>>, <<>>))
    IN IF count = 0 THEN slot ELSE [slot EXCEPT !.f.elements = (slot.value[2] :> count) @@ @]

\* The slot goes into the entry block, before its terminator if it has one; count is
\* zero for a scalar
CreateEntryAlloca(g, type, count) ==
    LET i == NextInst(g)
        entry == g.f.code[Entry(g.f)]
        place == IF HasTerminator(g.f, Entry(g.f)) THEN Len(entry) ELSE Len(entry) + 1
    IN ValueOf([g EXCEPT !.f.code[Entry(g.f)] = InsertAt(@, place, i),
                         !.f.inst = (i :> Inst("alloca", "ptr", type, <<>>, <<>>)) @@ @,
                         !.f.elements = IF count = 0 THEN @ ELSE (i :> count) @@ @],
               Ref(i))

CreateStore(g, v, slot) == Insert(g, Inst("store", "void", "", <<v, slot>>, <<>>))
CreateLoad(g, slot, type) == Insert(g, Inst("load", type, "", <<slot>>, <<>>))
CreateBr(g, b) == Insert(g, Branch(b))
CreateRet(g, v) == Insert(g, Inst("ret", "void", "", <<v>>, <<>>))
CreateRetVoid(g) == Insert(g, Inst("ret", "void", "", <<>>, <<>>))
CreateCondBr(g, c, then, else) == Insert(g, Inst("condbr", "void", "", <<c>>, <<then, else>>))

\* Two constants are folded, unless the machine has to trap on them
CreateBinary(g, op, a, b) ==
    IF IsInt(a) /\ IsInt(b) /\ ~Traps(op, <<a[2], b[2]>>)
      THEN ValueOf(g, I64(Computed(op, "", <<a[2], b[2]>>)))
      ELSE Insert(g, Inst(op, TypeOf(g.f, a), "", <<a, b>>, <<>>))

\* IRGen::convert, with createSIToFP: the one conversion widens an integer
Convert(g, v, type) ==
    CASE TypeOf(g.f, v) # "i64" \/ type # "f64" -> ValueOf(g, v)
      [] TypeOf(g.f, v) = "i64" /\ type = "f64" /\ IsInt(v) -> ValueOf(g, F64(FromInt(v[2])))
      [] OTHER -> Insert(g, Inst("sitofp", "f64", "", <<v>>, <<>>))

\* The same of the last value
Converted(x, type) == Convert(x, x.value, type)
StoreTo(x, slot) == CreateStore(x, x.value, slot)
LoadFrom(x, type) == CreateLoad(x, x.value, type)
BranchOn(x, then, else) == CreateCondBr(x, x.value, then, else)
Return(x) == CreateRet(x, x.value)

-----------------------------------------------------------------------------
(* Expressions *)

RECURSIVE LowerExpr(_, _)

SlotOf(g, symbol) == g.slots[symbol.id]

LowerAddress(g, symbol, index) ==
    Insert(index, Inst("gep", "ptr", LowerType(symbol.type), <<SlotOf(g, symbol), index.value>>, <<>>))

\* x is the operand
LowerUnaryExpr(x, op) ==
    LET type == TypeOf(x.f, x.value)
    IN Insert(x, Inst(IF op = "!" THEN "not" ELSE IF type = "f64" THEN "fneg" ELSE "neg",
                      type, "", <<x.value>>, <<>>))

\* Where the branch on the left side goes, when it is true and when it is false
ShortCircuitTargets(op, rhs, end) == IF op = "&&" THEN <<rhs, end>> ELSE <<end, rhs>>

\* Control flow with the result in a slot: there are no phis yet
EndShortCircuit(rhs, slot, end) ==
    CreateLoad(SetInsertPoint(CreateBr(StoreTo(rhs, slot), end), end), slot, "i1")
LowerRightSide(lhs, op, r, slot) ==
    LET rhsBlock == NewBlock(StoreTo(lhs, slot))
        endBlock == NewBlock(rhsBlock)
        to == ShortCircuitTargets(op, rhsBlock.value, endBlock.value)
    IN EndShortCircuit(
         LowerExpr(SetInsertPoint(CreateCondBr(endBlock, lhs.value, to[1], to[2]), rhsBlock.value), r),
         slot, endBlock.value)
LowerShortCircuit(g, op, l, r) ==
    LET slot == CreateEntryAlloca(g, "i1", 0) IN LowerRightSide(LowerExpr(slot, l), op, r, slot.value)

IntegerOp == ("+" :> "add") @@ ("-" :> "sub") @@ ("*" :> "mul") @@ ("/" :> "sdiv") @@ ("%" :> "srem")
FloatOp == ("+" :> "fadd") @@ ("-" :> "fsub") @@ ("*" :> "fmul") @@ ("/" :> "fdiv")
Predicate == ("==" :> "eq") @@ ("!=" :> "ne") @@ ("<" :> "lt") @@ (">" :> "gt") @@ ("<=" :> "le") @@ (">=" :> "ge")

\* Both sides are evaluated, then the narrower one is widened
CombineOperands(rhs, op, left) ==
    LET float == "f64" \in {TypeOf(rhs.f, left), TypeOf(rhs.f, rhs.value)}
        a == IF float THEN Convert(rhs, left, "f64") ELSE ValueOf(rhs, left)
        b == IF float THEN Convert(a, rhs.value, "f64") ELSE ValueOf(a, rhs.value)
    IN IF op \in DOMAIN Predicate
         THEN Insert(b, Inst(IF float THEN "fcmp" ELSE "icmp", "i1", Predicate[op], <<a.value, b.value>>, <<>>))
         ELSE CreateBinary(b, (IF float THEN FloatOp ELSE IntegerOp)[op], a.value, b.value)
LowerBinaryExpr(lhs, op, r) == CombineOperands(LowerExpr(lhs, r), op, lhs.value)

\* Each argument is converted before the next one is evaluated
NextArgument(g, x) == [x EXCEPT !.args = Append(g.args, x.value)]
CallWith(ready, name) ==
    Insert(ready, Inst("call", ready.functions[name].type, name, ready.args, <<>>))
LowerCallExpr(g, name, es) ==
    [CallWith(InOrder(LAMBDA h, n :
                        NextArgument(h, Converted(LowerExpr(h, es[n]), g.functions[name].params[n])),
                      [g EXCEPT !.args = <<>>], [n \in DOMAIN es |-> n]), name)
       EXCEPT !.args = g.args]

LowerExpr(g, e) ==
    CASE e[1] = "int" -> ValueOf(g, I64(e[3]))
      [] e[1] = "float" -> ValueOf(g, F64(e[3]))
      [] e[1] = "bool" -> ValueOf(g, I1(e[3] = 1))
      [] e[1] = "name" -> CreateLoad(g, SlotOf(g, e[3]), LowerType(e[2]))
      [] e[1] = "index" ->
           LoadFrom(LowerAddress(g, e[3], LowerExpr(g, e[4])), LowerType(e[2]))
      [] e[1] = "unary" -> LowerUnaryExpr(LowerExpr(g, e[4]), e[3])
      [] e[1] = "binary" -> IF e[3] \in {"&&", "||"} THEN LowerShortCircuit(g, e[3], e[4], e[5])
                            ELSE LowerBinaryExpr(LowerExpr(g, e[4]), e[3], e[5])
      [] e[1] = "call" -> LowerCallExpr(g, e[3], e[4])

-----------------------------------------------------------------------------
(* Statements *)

RECURSIVE LowerStmt(_, _)

Zero(type) == IF type = "f64" THEN F64(0) ELSE IF type = "i1" THEN I1(FALSE) ELSE I64(0)

\* What follows a terminator in a block is not lowered
LowerBlock(g, statements) ==
    InOrder(LAMBDA h, t : IF AtTerminatedBlock(h) THEN h ELSE LowerStmt(h, t), g, statements)

Close(g, b) == IF AtTerminatedBlock(g) THEN g ELSE CreateBr(g, b)

\* The slot of a scalar is written at once, with zero if need be; an array's is not
LowerVarDecl(g, symbol, e) ==
    LET type == LowerType(symbol.type)
        slot == CreateEntryAlloca(g, type, symbol.type.length)
        named == [slot EXCEPT !.slots = (symbol.id :> slot.value) @@ @]
    IN IF IsArray(symbol.type) THEN named
       ELSE StoreTo(Converted(IF e = <<>> THEN ValueOf(named, Zero(type)) ELSE LowerExpr(named, e), type),
                    slot.value)

\* The value before the index, the conversion after both
StoreAt(address, v, type) == StoreTo(Convert(address, v, type), address.value)
LowerTarget(g, symbol, i) ==
    IF i = <<>> THEN ValueOf(g, SlotOf(g, symbol)) ELSE LowerAddress(g, symbol, LowerExpr(g, i))
LowerAssign(value, symbol, i) ==
    StoreAt(LowerTarget(value, symbol, i), value.value, LowerType(symbol.type))

LowerOptional(g, t) == IF t = <<>> THEN g ELSE LowerStmt(g, t)

\* c is the condition
LowerIf(c, then, else) ==
    LET thenBlock == NewBlock(c)
        elseBlock == IF else = <<>> THEN thenBlock ELSE NewBlock(thenBlock)
        endBlock == NewBlock(elseBlock)
        end == endBlock.value
        branched == CreateCondBr(endBlock, c.value, thenBlock.value,
                                 IF else = <<>> THEN end ELSE elseBlock.value)
        elseFrom(thenDone) ==
          IF else = <<>> THEN thenDone
          ELSE Close(LowerStmt(SetInsertPoint(thenDone, elseBlock.value), else), end)
    IN SetInsertPoint(
         elseFrom(Close(LowerBlock(SetInsertPoint(branched, thenBlock.value), then[2]), end)), end)

\* The body of a loop, and the branch that closes it
LowerBody(g, b, body, breakTo, continueTo) ==
    Close([LowerBlock([SetInsertPoint(g, b) EXCEPT
                         !.loops = Append(@, [break |-> breakTo, continue |-> continueTo])], body[2])
             EXCEPT !.loops = g.loops], continueTo)

LowerWhile(g, cond, body) ==
    LET condBlock == NewBlock(g)
        bodyBlock == NewBlock(condBlock)
        endBlock == NewBlock(bodyBlock)
        atCond == SetInsertPoint(CreateBr(endBlock, condBlock.value), condBlock.value)
        branched == BranchOn(LowerExpr(atCond, cond), bodyBlock.value, endBlock.value)
    IN SetInsertPoint(LowerBody(branched, bodyBlock.value, body, endBlock.value, condBlock.value),
                      endBlock.value)

\* Mutant: continue goes to the condition
StepTarget_Condition(condBlock, stepBlock) == condBlock

\* Where continue goes: the step has a block of its own
StepTarget(condBlock, stepBlock) == stepBlock

\* begun is where the init clause ends
LowerFor(begun, cond, step, body) ==
    LET condBlock == NewBlock(begun)
        bodyBlock == NewBlock(condBlock)
        stepBlock == NewBlock(bodyBlock)
        endBlock == NewBlock(stepBlock)
        atCond == SetInsertPoint(CreateBr(endBlock, condBlock.value), condBlock.value)
        branched == IF cond = <<>> THEN CreateBr(atCond, bodyBlock.value)
                    ELSE BranchOn(LowerExpr(atCond, cond), bodyBlock.value, endBlock.value)
        done == LowerBody(branched, bodyBlock.value, body, endBlock.value,
                          StepTarget(condBlock.value, stepBlock.value))
        stepped == LowerOptional(SetInsertPoint(done, stepBlock.value), step)
    IN SetInsertPoint(CreateBr(stepped, condBlock.value), endBlock.value)

LowerReturnStmt(g, e) ==
    IF e = <<>> THEN CreateRetVoid(g) ELSE Return(Converted(LowerExpr(g, e), g.f.type))

LowerStmt(g, t) ==
    CASE t[1] = "block" -> LowerBlock(g, t[2])
      [] t[1] = "var" -> LowerVarDecl(g, t[2], t[3])
      [] t[1] = "assign" -> LowerAssign(LowerExpr(g, t[4]), t[2], t[3])
      [] t[1] = "expr" -> LowerExpr(g, t[2])
      [] t[1] = "if" -> LowerIf(LowerExpr(g, t[2]), t[3], t[4])
      [] t[1] = "while" -> LowerWhile(g, t[2], t[3])
      [] t[1] = "for" -> LowerFor(LowerOptional(g, t[2]), t[3], t[4], t[5])
      [] t[1] = "break" -> CreateBr(g, Last(g.loops).break)
      [] t[1] = "continue" -> CreateBr(g, Last(g.loops).continue)
      [] t[1] = "return" -> LowerReturnStmt(g, t[2])

-----------------------------------------------------------------------------
(* Functions *)

EmptyFunction(params, type) ==
    [params |-> params, type |-> type, order |-> <<>>, code |-> <<>>, inst |-> <<>>,
     preds |-> <<>>, elements |-> <<>>, alias |-> <<>>]

\* declareBuiltins and declareFunctions
Declared(functions) ==
    LET Types(symbols) == [n \in DOMAIN symbols |-> LowerType(symbols[n].type)]
        Of(name) == CHOOSE n \in DOMAIN functions : functions[n][2] = name
        names == {functions[n][2] : n \in DOMAIN functions}
    IN [name \in names |-> EmptyFunction(Types(functions[Of(name)][3]), LowerType(functions[Of(name)][4]))]
       @@ [name \in DOMAIN Builtins |-> EmptyFunction(<<LowerType(Builtins[name][1])>>, "void")]

\* The epilogue of lowerFunction: what is left open is closed
CloseFunction(g, type) ==
    IF AtTerminatedBlock(g) THEN g.f
    ELSE (IF type = "void" THEN CreateRetVoid(g) ELSE CreateRet(g, Zero(type))).f

\* lowerFunction: parameters get slots like any variable
LowerSource(functions, function) ==
    LET f == functions[function[2]]
        params == function[3]
        start == NewBlock([f |-> f, at |-> 1, slots |-> <<>>, loops |-> <<>>, value |-> <<>>,
                           args |-> <<>>, functions |-> functions])
        Home(g, n) ==
          LET slot == CreateEntryAlloca(g, f.params[n], 0)
          IN CreateStore([slot EXCEPT !.slots = (params[n].id :> slot.value) @@ @], Arg(n), slot.value)
    IN CloseFunction(LowerBlock(InOrder(Home, start, [n \in DOMAIN params |-> n]), function[5]), f.type)

\* IRGen::run
LowerProgram(functions) ==
    LET declared == Declared(functions)
    IN [name \in DOMAIN declared |->
          IF name \in DOMAIN Builtins THEN declared[name]
          ELSE PruneUnreachable(
                 LowerSource(declared, functions[CHOOSE n \in DOMAIN functions : functions[n][2] = name]))]
=============================================================================
