--------------------------------- MODULE IR ---------------------------------
(***************************************************************************)
(* The intermediate representation of src/ir: a function as a value, the   *)
(* edits the passes make on it (IR.cpp, Instruction.h, BasicBlock.h), what *)
(* the two verifiers accept (Verifier.cpp, SSAVerifier.cpp) and what       *)
(* executing it does.                                                      *)
(*                                                                         *)
(* Blocks and instructions are numbers.  A function is a record:           *)
(*   params, type the types of its parameters, and what it returns         *)
(*   order        its blocks, the entry first                              *)
(*   code         the instructions of each block, in order                 *)
(*   inst         every instruction: op, type, attr (the predicate of a    *)
(*                comparison, the callee of a call), args, and to (the     *)
(*                targets of a branch, the incoming blocks of a phi)       *)
(*   preds        the predecessor lists, kept by the edits as the code     *)
(*                keeps them                                               *)
(* and, where the backend reads them:                                      *)
(*   elements     how many elements the allocas of arrays reserve          *)
(*   alias        the coalescing root of the copies SSA destruction wrote  *)
(* User lists are not kept: they are the instructions that have a value    *)
(* among their operands.  Doubles are abstracted to halves without         *)
(* infinities or signed zeros: every level computes on them alike.         *)
(***************************************************************************)
EXTENDS Iteration

CONSTANTS
    Width,    \* bits of an i64, 64 in the code: integers are -2^(Width-1) ..
    Callees,  \* the other functions of the module, by name
    Fuel      \* bound: blocks an execution runs

Declaration(f) == f.order = <<>>

ASSUME IRAssumption ==
    /\ Width \in Nat \ {0} /\ Fuel \in Nat
    /\ \A name \in DOMAIN Callees : Declaration(Callees[name]) \/ Len(Callees[name].order) > 0

-----------------------------------------------------------------------------
(* Values and instructions *)

I64(n) == <<"int", n>>
F64(x) == <<"float", x>>
I1(b) == <<"bool", IF b THEN 1 ELSE 0>>
Arg(n) == <<"arg", n>>
Ref(i) == <<"inst", i>>

IsRef(v) == v[1] = "inst"
IsInt(v) == v[1] = "int"
IsBool(v) == v[1] = "bool"
IsConstant(v) == v[1] \in {"int", "float", "bool"}

Inst(op, type, attr, args, to) ==
    [op |-> op, type |-> type, attr |-> attr, args |-> args, to |-> to]
Branch(to) == Inst("br", "void", "", <<>>, <<to>>)

Arithmetic == {"add", "sub", "mul", "sdiv", "srem", "shl", "ashr"}
FloatArithmetic == {"fadd", "fsub", "fmul", "fdiv"}
Terminators == {"br", "condbr", "ret"}

\* Instruction.def; the variadic ones are not in it
OperandCount == [op \in Arithmetic \cup FloatArithmetic \cup {"icmp", "fcmp", "store", "gep"} |-> 2]
                @@ [op \in {"neg", "fneg", "not", "sitofp", "load", "copy", "condbr"} |-> 1]
                @@ [op \in {"alloca", "br"} |-> 0]

HasResult(ins) == ins.op \notin Terminators \cup {"store"} /\ ins.type # "void"

Blocks(f) == DOMAIN f.code
Entry(f) == Head(f.order)
ParentOf(f, i) == CHOOSE b \in Blocks(f) : Contains(f.code[b], i)
ProgramOrder(f) == FlattenSeq([k \in DOMAIN f.order |-> f.code[f.order[k]]])
Users(f, v) == {i \in DOMAIN f.inst : Contains(f.inst[i].args, v)}

HasTerminator(f, b) == f.code[b] # <<>> /\ f.inst[Last(f.code[b])].op \in Terminators
Terminator(f, b) == f.inst[Last(f.code[b])]
Successors(f, b) == IF HasTerminator(f, b) THEN Terminator(f, b).to ELSE <<>>

\* The phis a walk over the block meets before it stops at another instruction
LeadingPhis(f, b) ==
    {f.code[b][n] : n \in {m \in DOMAIN f.code[b] :
                              \A k \in 1 .. m : f.inst[f.code[b][k]].op = "phi"}}

\* Blocks a walk from b meets that does not go through the blocks of avoided
ReachableFrom(f, b, avoided) ==
    LET within[n \in 0 .. Len(f.order)] ==
          IF n = 0 THEN {b} \ avoided
          ELSE LET S == within[n - 1]
               IN S \cup ((UNION {ToSet(Successors(f, c)) : c \in S}) \ avoided)
    IN within[Len(f.order)]
Reachable(f) == ReachableFrom(f, Entry(f), {})

\* Above every block and every instruction there is
FreshBlock(f) == 1 + Max(Blocks(f))
FreshInst(f) == 1 + Max(DOMAIN f.inst)

-----------------------------------------------------------------------------
(* Edits *)

\* replaceAllUsesWith
ReplaceUses(f, v, w) ==
    [f EXCEPT !.inst = [i \in DOMAIN f.inst |->
        IF Contains(f.inst[i].args, v) THEN [f.inst[i] EXCEPT !.args = ReplaceAll(@, v, w)]
        ELSE f.inst[i]]]

\* eraseFromParent of every instruction of S: no list of predecessors changes
Erase(f, S) ==
    [f EXCEPT !.code = [b \in Blocks(f) |-> SelectSeq(f.code[b], LAMBDA i : i \notin S)],
              !.inst = Restrict(f.inst, DOMAIN f.inst \ S)]

\* append, the one place where an edge enters the lists of predecessors
Emit(f, b, i, ins) ==
    LET edges(c) == IF ins.op \in Terminators
                      THEN [e \in DOMAIN SelectSeq(ins.to, LAMBDA d : d = c) |-> b]
                      ELSE <<>>
    IN [f EXCEPT !.code[b] = Append(@, i), !.inst = (i :> ins) @@ @,
                 !.preds = [c \in Blocks(f) |-> @[c] \o edges(c)]]

InsertAtTop(f, b, i, ins) ==
    [f EXCEPT !.code[b] = <<i>> \o @, !.inst = (i :> ins) @@ @]

CreateBlock(f, b) ==
    [f EXCEPT !.order = Append(@, b), !.code = (b :> <<>>) @@ @, !.preds = (b :> <<>>) @@ @]

\* A terminator replaced by an unconditional branch: erase, then append
ReplaceTerminator(f, b, to) ==
    LET last == Last(f.code[b]) IN Emit(Erase(f, {last}), b, last, Branch(to))

Without(ins, positions) ==
    LET kept == SetToSortSeq(DOMAIN ins.args \ positions, <)
    IN [ins EXCEPT !.args = [k \in DOMAIN kept |-> ins.args[kept[k]]],
                   !.to = [k \in DOMAIN kept |-> ins.to[kept[k]]]]
RemoveIncoming(phi, from) == Without(phi, {k \in DOMAIN phi.to : phi.to[k] = from})
RemoveOneIncoming(phi, from) ==
    LET ks == {k \in DOMAIN phi.to : phi.to[k] = from}
    IN Without(phi, IF ks = {} THEN {} ELSE {Min(ks)})

\* edit applied to the phis at the top of the blocks bs
EditPhis(f, bs, edit(_)) ==
    LET phis == UNION {LeadingPhis(f, b) : b \in bs}
    IN [f EXCEPT !.inst = [i \in DOMAIN f.inst |->
                             IF i \in phis THEN edit(f.inst[i]) ELSE f.inst[i]]]

\* setSuccessor on every entry that names old: the edge comes from new now
RenameIncoming(f, bs, old, new) ==
    EditPhis(f, bs, LAMBDA phi : [phi EXCEPT !.to = ReplaceAll(@, old, new)])

RecomputePredecessors(f) ==
    LET edges(b, c) == [e \in 1 .. Cardinality({k \in DOMAIN Successors(f, b) : Successors(f, b)[k] = c}) |-> b]
    IN [f EXCEPT !.preds = [c \in Blocks(f) |->
                    FlattenSeq([k \in DOMAIN f.order |-> edges(f.order[k], c)])]]

\* pruneUnreachableBlocks: blocks and instructions go, the others keep their operands
PruneUnreachable(f) ==
    LET live == Reachable(f)
        kept == UNION {ToSet(f.code[b]) : b \in live}
    IN IF live = Blocks(f) THEN f
       ELSE RecomputePredecessors(
              [f EXCEPT !.order = SelectSeq(@, LAMBDA b : b \in live),
                        !.code = Restrict(@, live), !.preds = Restrict(@, live),
                        !.inst = Restrict(@, kept)])

\* removeUnreachableBlocks (SimplifyCFG.cpp): the phis let go of the dying blocks first
RemoveUnreachableBlocks(f) ==
    LET live == Reachable(f)
        LetGo(phi) == Without(phi, {k \in DOMAIN phi.to : phi.to[k] \notin live})
    IN PruneUnreachable(EditPhis(f, live, LetGo))

-----------------------------------------------------------------------------
(* The verifiers *)

\* What unique_ptr and parent_ make sure of: a function owns its blocks, and every
\* instruction is in one of them; and a branch stays in the function
IsFunction(f) ==
    /\ f.order \in Seq(Blocks(f)) /\ f.order # <<>>
    /\ ToSet(f.order) = Blocks(f) /\ IsInjective(f.order)
    /\ f.code \in [Blocks(f) -> Seq(DOMAIN f.inst)]
    /\ f.preds \in [Blocks(f) -> Seq(Blocks(f))]
    /\ DOMAIN f.inst = UNION {ToSet(f.code[b]) : b \in Blocks(f)}
    /\ \A b, c \in Blocks(f) : ToSet(f.code[b]) \cap ToSet(f.code[c]) # {} => b = c
    /\ \A b \in Blocks(f) : IsInjective(f.code[b])
    /\ IsFiniteSet(DOMAIN f.inst)
    /\ \A i \in DOMAIN f.inst : LET ins == f.inst[i] IN
         /\ ins.args \in Seq(ToSet(ins.args))
         /\ \A v \in ToSet(ins.args) : v = <<v[1], v[2]>>
         /\ ins.to \in Seq(Blocks(f))

\* d is on every path from the entry to b
DominatesByPaths(f, d, b) == d = b \/ b \notin ReachableFrom(f, Entry(f), {d})

TypeOf(f, v) ==
    CASE IsRef(v) -> f.inst[v[2]].type [] v[1] = "arg" -> f.params[v[2]]
      [] IsBool(v) -> "i1" [] v[1] = "float" -> "f64" [] OTHER -> "i64"

WellStructured(f) ==
    /\ f.preds[Entry(f)] = <<>>
    /\ \A b \in Blocks(f) :
         LET code == f.code[b]
             Is(k, ops) == f.inst[code[k]].op \in ops
         IN /\ HasTerminator(f, b)
            /\ \A k \in 1 .. Len(code) - 1 : ~Is(k, Terminators)
            /\ \A k \in 2 .. Len(code) : Is(k, {"phi"}) => Is(k - 1, {"phi"})

OperandsAreThere(f) ==
    \A i \in DOMAIN f.inst : LET ins == f.inst[i] IN
      /\ ins.op \in DOMAIN OperandCount => Len(ins.args) = OperandCount[ins.op]
      /\ \A v \in ToSet(ins.args) : IsRef(v) => v[2] \in DOMAIN f.inst

PhisMatchEdges(f) ==
    \A b \in Blocks(f) : \A i \in ToSet(f.code[b]) : f.inst[i].op = "phi" =>
      /\ Len(f.inst[i].args) = Len(f.inst[i].to)
      /\ ToBag(f.inst[i].to) = ToBag(f.preds[b])

\* The calls are to the functions of callees
WellTypedIn(f, callees) ==
    \A b \in Blocks(f) : \A i \in ToSet(f.code[b]) :
      LET ins == f.inst[i]
          types == [k \in DOMAIN ins.args |-> TypeOf(f, ins.args[k])]
      IN CASE ins.op \in Arithmetic -> types = <<"i64", "i64">>
           [] ins.op \in FloatArithmetic -> types = <<"f64", "f64">>
           [] ins.op \in {"icmp", "fcmp"} -> ins.type = "i1" /\ types[1] = types[2]
           [] ins.op = "sitofp" -> ins.type = "f64" /\ types = <<"i64">>
           [] ins.op = "not" -> types = <<"i1">>
           [] ins.op = "alloca" -> ins.type = "ptr" /\ b = Entry(f)
           [] ins.op = "gep" -> ins.type = "ptr" /\ types = <<"ptr", "i64">>
           [] ins.op = "load" -> types = <<"ptr">>
           [] ins.op = "store" -> types[2] = "ptr"
           [] ins.op = "condbr" -> types = <<"i1">> /\ Len(ins.to) = 2
           [] ins.op = "br" -> Len(ins.to) = 1
           [] ins.op = "ret" -> types = IF f.type = "void" THEN <<>> ELSE <<f.type>>
           [] ins.op = "call" -> /\ types = callees[ins.attr].params
                                 /\ ins.type = callees[ins.attr].type
           [] OTHER -> TRUE

PredecessorsInSync(f) ==
    \A b \in Blocks(f) : ToBag(f.preds[b]) = ToBag(RecomputePredecessors(f).preds[b])

AllReachable(f) == Reachable(f) = Blocks(f)

\* ir::Verifier::checkFunction
VerifierAcceptsIn(f, callees) ==
    /\ WellStructured(f) /\ OperandsAreThere(f) /\ PhisMatchEdges(f)
    /\ WellTypedIn(f, callees) /\ PredecessorsInSync(f) /\ AllReachable(f)
VerifierAccepts(f) == VerifierAcceptsIn(f, Callees)

\* verifySSA, with dominance as what it means
SSAAccepts(f) ==
    \A b \in Blocks(f) : \A n \in DOMAIN f.code[b] :
      LET ins == f.inst[f.code[b][n]] IN
      \A k \in DOMAIN ins.args : IsRef(ins.args[k]) =>
        LET home == ParentOf(f, ins.args[k][2]) IN
        CASE ins.op = "phi" -> DominatesByPaths(f, home, ins.to[k])
          [] ins.op # "phi" /\ home = b ->
               \E m \in 1 .. n - 1 : f.code[b][m] = ins.args[k][2]
          [] OTHER -> DominatesByPaths(f, home, b)

-----------------------------------------------------------------------------
(* Execution *)

MinInt == -(2 ^ (Width - 1))
Wrap(n) == ((n - MinInt) % (2 ^ Width)) + MinInt
Magnitude(n) == IF n < 0 THEN -n ELSE n
\* Division rounds toward zero, the remainder has the sign of the dividend
Quotient(a, b) ==
    LET q == Magnitude(a) \div Magnitude(b) IN IF (a < 0) = (b < 0) THEN q ELSE -q
Remainder(a, b) == a - b * Quotient(a, b)

Holds(pred, a, b) ==
    CASE pred = "eq" -> a = b [] pred = "ne" -> a # b [] pred = "lt" -> a < b
      [] pred = "gt" -> a > b [] pred = "le" -> a <= b [] pred = "ge" -> a >= b

Traps(op, x) == op \in {"sdiv", "srem"} /\ (x[2] = 0 \/ (x[1] = MinInt /\ x[2] = -1))

\* An f64 is a number of halves, or NaN, which is unordered with everything
NaN == 2 ^ 30
FromInt(n) == 2 * n
FloatComputed(op, a, b) ==
    CASE NaN \in {a, b} \/ (op = "fdiv" /\ b = 0) -> NaN
      [] NaN \notin {a, b} /\ op = "fadd" -> a + b
      [] NaN \notin {a, b} /\ op = "fsub" -> a - b
      [] NaN \notin {a, b} /\ op = "fmul" -> (a * b) \div 2
      [] NaN \notin {a, b} /\ op = "fdiv" /\ b # 0 -> Quotient(2 * a, b)

\* What the instruction selected for op yields: the machine masks shift counts
Computed(op, attr, x) ==
    CASE op = "add" -> Wrap(x[1] + x[2])
      [] op = "sub" -> Wrap(x[1] - x[2])
      [] op = "mul" -> Wrap(x[1] * x[2])
      [] op = "sdiv" -> Quotient(x[1], x[2])
      [] op = "srem" -> Remainder(x[1], x[2])
      [] op = "shl" -> Wrap(x[1] * 2 ^ (x[2] % Width))
      [] op = "ashr" -> x[1] \div 2 ^ (x[2] % Width)
      [] op = "neg" -> Wrap(-x[1])
      [] op = "not" -> 1 - x[1]
      [] op = "icmp" -> IF Holds(attr, x[1], x[2]) THEN 1 ELSE 0
      [] op \in FloatArithmetic -> FloatComputed(op, x[1], x[2])
      [] op = "fneg" -> IF x[1] = NaN THEN NaN ELSE -x[1]
      [] op = "sitofp" -> FromInt(x[1])
      [] op = "fcmp" ->  \* ordered, except for "ne"
           IF NaN \in {x[1], x[2]} THEN (IF attr = "ne" THEN 1 ELSE 0)
           ELSE IF Holds(attr, x[1], x[2]) THEN 1 ELSE 0
      [] op = "copy" -> x[1]

Held(s, v) ==
    CASE IsRef(v) -> s.env[v[2]] [] v[1] = "arg" -> s.args[v[2]] [] OTHER -> v[2]

\* One instruction that is not a phi, after which s.status may have changed
ExecuteInst(f, s, i, Invoke(_, _)) ==
    LET ins == f.inst[i]
        x == [k \in DOMAIN ins.args |-> Held(s, ins.args[k])]
        Yield(v) == [s EXCEPT !.env = (i :> v) @@ @]
        GoTo(b) == [s EXCEPT !.from = s.at, !.at = b]
    IN CASE s.status # "running" -> s
         [] s.status = "running" /\ ins.op = "br" -> GoTo(ins.to[1])
         [] s.status = "running" /\ ins.op = "condbr" -> GoTo(ins.to[2 - x[1]])
         [] s.status = "running" /\ ins.op = "ret" ->
              [s EXCEPT !.status = "returned", !.value = IF x = <<>> THEN 0 ELSE x[1]]
         [] s.status = "running" /\ ins.op = "call" ->
              LET r == Invoke(ins.attr, x)
              IN [Yield(r.value) EXCEPT !.out = @ \o r.out,
                    !.status = IF r.status = "returned" THEN "running" ELSE r.status]
         [] s.status = "running" /\ ins.op = "alloca" -> Yield(<<i, 0>>)
         [] s.status = "running" /\ ins.op = "gep" -> Yield(<<x[1][1], x[1][2] + x[2]>>)
         [] s.status = "running" /\ ins.op = "load" ->
              IF x[1] \in DOMAIN s.mem THEN Yield(s.mem[x[1]])
              ELSE [s EXCEPT !.status = "undefined"]
         [] s.status = "running" /\ ins.op = "store" -> [s EXCEPT !.mem = (x[2] :> x[1]) @@ @]
         [] OTHER -> IF Traps(ins.op, x) THEN [s EXCEPT !.status = "trapped"]
                     ELSE Yield(Computed(ins.op, ins.attr, x))

\* A block: its phis all read before any is written, then the rest in order
ExecuteBlock(f, s, Invoke(_, _)) ==
    LET phis == LeadingPhis(f, s.at)
        Taken(phi) == phi.args[CHOOSE k \in DOMAIN phi.to : phi.to[k] = s.from]
        entered == [s EXCEPT !.env = [i \in phis |-> Held(s, Taken(f.inst[i]))] @@ @]
        rest == SelectSeq(f.code[s.at], LAMBDA i : i \notin phis)
    IN InOrder(LAMBDA t, i : ExecuteInst(f, t, i, Invoke), entered, rest)

RunWith(f, args, Invoke(_, _)) ==
    LET start == [at |-> Entry(f), from |-> Entry(f), args |-> args, env |-> <<>>,
                  mem |-> <<>>, out |-> <<>>, status |-> "running", value |-> 0]
        NextBlock(s, n) == IF s.status = "running" THEN ExecuteBlock(f, s, Invoke) ELSE s
        final == InOrder(NextBlock, start, [n \in 1 .. Fuel |-> n])
    IN [out |-> final.out, value |-> final.value,
        status |-> IF final.status = "running" THEN "diverges" ELSE final.status]

\* The runtime prints what it is given.  A callee with a body calls only the runtime
External(name, x) == [out |-> <<<<name, x>>>>, value |-> 0, status |-> "returned"]
Invoked(name, x) ==
    IF Declaration(Callees[name]) THEN External(name, x) ELSE RunWith(Callees[name], x, External)

Run(f, args) == RunWith(f, args, Invoked)

\* Two results an observer cannot tell apart.  What a run that does not end has
\* printed when the fuel runs out depends on how many blocks that takes
SameResult(r, s) ==
    /\ r.status = s.status
    /\ IF r.status = "diverges" THEN IsPrefix(r.out, s.out) \/ IsPrefix(s.out, r.out)
       ELSE r.out = s.out /\ (r.status = "returned" => r.value = s.value)
=============================================================================
