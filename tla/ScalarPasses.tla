---------------------------- MODULE ScalarPasses ----------------------------
(***************************************************************************)
(* The passes of src/transforms/ScalarPasses.cpp, GVN.cpp and LICM.cpp:    *)
(* each is a function from functions to functions, and walks the           *)
(* instructions in the order in which the code walks them, replacing uses  *)
(* as it goes and erasing at the end.                                      *)
(***************************************************************************)
EXTENDS Dominators

-----------------------------------------------------------------------------
(* What is known when the operands are *)

\* The constant op yields from constants, or {} where it is left to the target:
\* a division that traps, a shift by too much, a negation that overflows
FoldedConstant(op, attr, args) ==
    LET ints == \A k \in DOMAIN args : IsInt(args[k])
        bools == \A k \in DOMAIN args : IsBool(args[k])
        x == [k \in DOMAIN args |-> args[k][2]]
    IN CASE op = "icmp" /\ (ints \/ (bools /\ attr \in {"eq", "ne"})) ->
              {I1(Holds(attr, x[1], x[2]))}
         [] op = "not" /\ bools -> {I1(x[1] = 0)}
         [] op = "neg" /\ ints /\ x[1] # MinInt -> {I64(-x[1])}
         [] op \in {"shl", "ashr"} /\ ints /\ x[2] \in 0 .. Width - 1 ->
              {I64(Computed(op, "", x))}
         [] op \in {"add", "sub", "mul", "sdiv", "srem"} /\ ints /\ ~Traps(op, x) ->
              {I64(Computed(op, "", x))}
         [] OTHER -> {}

\* What needs one operand to be known, or two to be the same
Identity(op, a, b) ==
    CASE op \in {"add", "sub", "shl", "ashr"} /\ b = I64(0) -> {a}
      [] op = "add" /\ a = I64(0) -> {b}
      [] op = "sub" /\ a = b -> {I64(0)}
      [] op \in {"mul", "sdiv"} /\ b = I64(1) -> {a}
      [] op = "srem" /\ b = I64(1) -> {I64(0)}
      [] op = "mul" /\ a = I64(1) -> {b}
      [] op = "mul" /\ I64(0) \in {a, b} -> {I64(0)}
      [] OTHER -> {}

SelfComparison(attr, a, b) == IF a = b THEN {I1(attr \in {"eq", "le", "ge"})} ELSE {}

-----------------------------------------------------------------------------
(* Constant folding and copy propagation *)

\* Replacing(f, i) is what takes the place of i, a set of one value at most
ReplaceThroughout(f, Replacing(_, _)) ==
    LET Visit(s, i) ==
          LET new == Replacing(s.f, i) \ {Ref(i)}
          IN IF new = {} THEN s
             ELSE [f |-> ReplaceUses(s.f, Ref(i), CHOOSE v \in new : TRUE),
                   dead |-> s.dead \cup {i}]
        end == InOrder(Visit, [f |-> f, dead |-> {}], ProgramOrder(f))
    IN Erase(end.f, end.dead)

Fold(f, i) ==
    LET ins == f.inst[i]
        constant == FoldedConstant(ins.op, ins.attr, ins.args)
    IN CASE ins.op \notin Arithmetic \cup {"neg", "not", "icmp"} -> {}
         [] ins.op \in Arithmetic \cup {"neg", "not", "icmp"} /\ constant # {} -> constant
         [] ins.op \in Arithmetic /\ constant = {} -> Identity(ins.op, ins.args[1], ins.args[2])
         [] ins.op = "icmp" /\ constant = {} ->
              SelfComparison(ins.attr, ins.args[1], ins.args[2])
         [] OTHER -> {}

ConstantFolding(f) == ReplaceThroughout(f, Fold)

\* A copy, or a phi all of whose operands are its first one or the phi itself
Forwarded(f, i) ==
    LET ins == f.inst[i] IN
    IF \/ ins.op = "copy"
       \/ ins.op = "phi" /\ ins.args # <<>> /\ ToSet(ins.args) \subseteq {ins.args[1], Ref(i)}
      THEN {ins.args[1]} ELSE {}

CopyPropagation(f) == ReplaceThroughout(f, Forwarded)

-----------------------------------------------------------------------------
(* Dead code elimination and strength reduction *)

\* A division is kept unless its divisor is known not to be zero
HasSideEffects(ins) ==
    \/ ins.op \in {"store", "call"} \cup Terminators
    \/ /\ ins.op \in {"sdiv", "srem"}
       /\ ~IsInt(ins.args[2]) \/ ins.args[2] = I64(0)

DeadCodeElimination(f) ==
    LET Reads(i) == {v[2] : v \in {w \in ToSet(f.inst[i].args) : IsRef(w)}}
        live[n \in 0 .. Cardinality(DOMAIN f.inst)] ==
          IF n = 0 THEN {i \in DOMAIN f.inst : HasSideEffects(f.inst[i])}
          ELSE LET L == live[n - 1] IN L \cup UNION {Reads(i) : i \in L}
    IN Erase(f, DOMAIN f.inst \ live[Cardinality(DOMAIN f.inst)])

\* The exponent, for a positive power of two: a set of one exponent at most
Log2Exact(n) == {k \in 0 .. Width - 2 : n = 2 ^ k}

\* A multiplication by a known power of two, on either side, is a shift
StrengthReduction(f) ==
    LET Reduced(ins) ==
          LET side == IF IsInt(ins.args[2]) THEN 2 ELSE 1
              shift == Log2Exact(ins.args[side][2])
          IN IF ~IsInt(ins.args[side]) \/ shift \subseteq {0} THEN ins
             ELSE [ins EXCEPT !.op = "shl",
                     !.args = <<ins.args[3 - side], I64(CHOOSE k \in shift : TRUE)>>]
    IN [f EXCEPT !.inst = [i \in DOMAIN f.inst |->
                  IF f.inst[i].op = "mul" THEN Reduced(f.inst[i]) ELSE f.inst[i]]]

-----------------------------------------------------------------------------
(* Value numbering *)

\* Neither loads and calls, which may see another memory, nor divisions
Pure == {"add", "sub", "mul", "shl", "ashr", "neg", "not", "icmp"}

\* The order of the operands of add and mul does not matter
Expression(ins) ==
    <<ins.op, ins.attr, IF ins.op \in {"add", "mul"} THEN ToBag(ins.args) ELSE ins.args>>

\* The entries of the blocks the walk is inside of: the others have been erased
Visible(table, idom, b) == {entry \in table : entry.block \in Dominators(idom, b)}

GVN(f) ==
    LET idom == ImmediateDominators(f)
        Number(b, s, i) ==
          LET ins == s.f.inst[i]
              known == {entry \in Visible(s.table, idom, b) : entry.key = Expression(ins)}
          IN IF ins.op \notin Pure THEN s
             ELSE IF known # {}
               THEN [s EXCEPT !.f = ReplaceUses(@, Ref(i), Ref((CHOOSE e \in known : TRUE).inst)),
                              !.dead = @ \cup {i}]
             ELSE [s EXCEPT !.table = @ \cup {[key |-> Expression(ins), inst |-> i, block |-> b]}]
        end == InOrder(LAMBDA s, b : InOrder(LAMBDA t, i : Number(b, t, i), s, f.code[b]),
                       [f |-> f, dead |-> {}, table |-> {}], TreePreorder(f, idom))
    IN Erase(end.f, end.dead)

-----------------------------------------------------------------------------
(* Loop-invariant code motion *)

\* Mutant: divisions are hoisted too
SafeToHoist_Divisions == Pure \cup {"sdiv", "srem"}

SafeToHoist == Pure

\* Nothing the instruction reads is computed in the loop and still there
InvariantIn(f, loop, hoisted, i) ==
    \A v \in ToSet(f.inst[i].args) :
      IsRef(v) => v[2] \in hoisted \/ ParentOf(f, v[2]) \notin loop.body

\* moveBefore the terminator of block b
MoveToEnd(f, i, b) ==
    LET from == ParentOf(f, i)
        g == [f EXCEPT !.code[from] = Remove(@, i)]
    IN [g EXCEPT !.code[b] = Front(@) \o <<i, Last(@)>>]

\* hoistFrom, sweep after sweep over the blocks of the loop until nothing moves: in each
\* sweep but the last something does
HoistFrom(f, loop, preheader) ==
    LET SweepBlock(s, b) ==
          LET movable == SelectSeq(s.f.code[b], LAMBDA i :
                           /\ s.f.inst[i].op \in SafeToHoist /\ i \notin s.hoisted
                           /\ InvariantIn(s.f, loop, s.hoisted, i))
          IN IF b \notin loop.body THEN s
             ELSE [f |-> InOrder(LAMBDA g, i : MoveToEnd(g, i, preheader), s.f, movable),
                   hoisted |-> s.hoisted \cup ToSet(movable)]
        sweeps == Cardinality({i \in UNION {ToSet(f.code[b]) : b \in loop.body} :
                                 f.inst[i].op \in SafeToHoist})
    IN InOrder(LAMBDA s, n : InOrder(SweepBlock, s, f.order),
               [f |-> f, hoisted |-> {}], [n \in 1 .. sweeps |-> n]).f

\* Inner loops before the loops around them
LICM(f) ==
    LET loops == LoopsOf(f, ImmediateDominators(f))
        ordered == SetToSortSeq(loops, LAMBDA l, m :
                     \/ Depth(loops, l) > Depth(loops, m)
                     \/ Depth(loops, l) = Depth(loops, m) /\ l.header < m.header)
    IN InOrder(LAMBDA g, loop : IF loop.preheaders = {} THEN g
                                ELSE HoistFrom(g, loop, CHOOSE p \in loop.preheaders : TRUE),
               f, ordered)
=============================================================================
