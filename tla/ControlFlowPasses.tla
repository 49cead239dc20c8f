------------------------- MODULE ControlFlowPasses --------------------------
(***************************************************************************)
(* The two passes that rearrange blocks.  src/transforms/SimplifyCFG.cpp:  *)
(* branches on a constant are folded, unreachable blocks go, and a block   *)
(* that can only be entered from one place is merged into the block that   *)
(* enters it.  src/transforms/Inline.cpp: which calls are inlined, from    *)
(* the heat of their blocks, and how the callee is spliced into the caller *)
(* between the two halves of the block of the call.                        *)
(***************************************************************************)
EXTENDS IR

-----------------------------------------------------------------------------
(* SimplifyCFG *)

\* condbr on a constant: the arm not taken loses its edge, and so do its phis.
\* When both arms are the same block, one of its two edges goes
FoldBranch(f, b) ==
    LET condbr == Terminator(f, b)
        taken == IF condbr.args[1] = I1(TRUE) THEN 1 ELSE 2
        target == condbr.to[taken]
        dropped == condbr.to[3 - taken]
        LoseEdge(phi) == IF dropped = target THEN RemoveOneIncoming(phi, b)
                                             ELSE RemoveIncoming(phi, b)
    IN ReplaceTerminator(EditPhis(f, {dropped}, LoseEdge), b, target)

ConstantBranch(f, b) ==
    HasTerminator(f, b) /\ Terminator(f, b).op = "condbr" /\ IsBool(Terminator(f, b).args[1])

FoldConstantBranches(f) ==
    IF \E b \in Blocks(f) : ConstantBranch(f, b)
      THEN RecomputePredecessors(
             InOrder(LAMBDA g, b : IF ConstantBranch(g, b) THEN FoldBranch(g, b) ELSE g,
                     f, f.order))
      ELSE f

\* The blocks that end in a jump to a block nothing else jumps to
Mergeable(f) ==
    SelectSeq(f.order, LAMBDA b :
      /\ HasTerminator(f, b) /\ Terminator(f, b).op = "br"
      /\ LET succ == Terminator(f, b).to[1]
         IN succ # b /\ succ # Entry(f) /\ Len(f.preds[succ]) = 1 /\ f.code[succ] # <<>>)

\* Mutant: phis further down keep naming the block that vanished
Downstream_Stale(f, block, succ) == f

\* Phis further down name the block that takes the place of the vanished one
Downstream(f, block, succ) == RenameIncoming(f, ToSet(Successors(f, block)), succ, block)

\* A phi of succ has one edge left and is its operand
Merge(f, block, succ) ==
    LET phis == LeadingPhis(f, succ)
        Forward(g, i) == IF i \in phis /\ Len(g.inst[i].args) = 1
                           THEN ReplaceUses(g, Ref(i), g.inst[i].args[1]) ELSE g
        bare == Erase(InOrder(Forward, f, f.code[succ]), phis \cup {Last(f.code[block])})
        moved == [bare EXCEPT !.code[block] = @ \o bare.code[succ], !.code[succ] = <<>>]
    IN PruneUnreachable(RecomputePredecessors(Downstream(moved, block, succ)))

\* One merge at a time, the first there is, until there is none
MergeIntoPredecessors(f) ==
    LET MergeOne(g, n) ==
          IF Mergeable(g) = <<>> THEN g
          ELSE LET b == Head(Mergeable(g)) IN Merge(g, b, Terminator(g, b).to[1])
    IN InOrder(MergeOne, RecomputePredecessors(f), f.order)

SimplifyCFG(f) == MergeIntoPredecessors(RemoveUnreachableBlocks(FoldConstantBranches(f)))

-----------------------------------------------------------------------------
(* Inline *)

Heats == {"unknown", "cold", "warm", "hot"}

kSizeBudget == 12
kHotSizeBudget == 250

Size(f) == Cardinality(DOMAIN f.inst)

\* That the callee is the caller needs no test of its own here: then it has a call
ShouldInline(ins, budget) ==
    LET callee == Callees[ins.attr] IN
    /\ ~Declaration(callee)
    /\ Size(callee) <= budget
    /\ \A b \in Blocks(callee) : HasTerminator(callee, b)
    /\ \A i \in DOMAIN callee.inst : callee.inst[i].op \notin {"alloca", "call"}

Budget(heat) ==
    CASE heat = "cold" -> 0 [] heat = "hot" -> kHotSizeBudget [] OTHER -> kSizeBudget

CallsIn(f, b) == SelectSeq(f.code[b], LAMBDA i : f.inst[i].op = "call")

\* The calls to be inlined, collected before the first is: heat is that of every block
Chosen(f, heat) ==
    FlattenSeq([k \in DOMAIN f.order |->
      SelectSeq(CallsIn(f, f.order[k]),
                LAMBDA i : ShouldInline(f.inst[i], Budget(heat[f.order[k]])))])

\* The rest of the block moves to cont, and the edges out of it start there
SplitAfter(f, target, call, cont) ==
    LET k == CHOOSE n \in DOMAIN f.code[target] : f.code[target][n] = call
        split == [CreateBlock(f, cont) EXCEPT
                    !.code[target] = SubSeq(f.code[target], 1, k),
                    !.code[cont] = SubSeq(f.code[target], k + 1, Len(f.code[target]))]
    IN RenameIncoming(split, ToSet(Successors(split, cont)), target, cont)

\* The value map: an operand of the callee, where the callee's instructions are
\* numbered from copies on and its parameters are the arguments of the call
Translate(v, copies, arguments) ==
    CASE IsRef(v) -> Ref(copies + v[2])
      [] v[1] = "arg" -> arguments[v[2]]
      [] OTHER -> v

\* The callee with its blocks numbered from cont on and every return a branch to cont
Cloned(callee, cont, copies, arguments) ==
    LET Clone(ins) ==
          IF ins.op = "ret" THEN Branch(cont)
          ELSE [ins EXCEPT
                  !.args = [k \in DOMAIN @ |-> Translate(@[k], copies, arguments)],
                  !.to = [k \in DOMAIN @ |-> cont + @[k]]]
        Numbered(s, from) == [k \in DOMAIN s |-> from + s[k]]
    IN [order |-> Numbered(callee.order, cont),
        code |-> [b \in {cont + c : c \in Blocks(callee)} |->
                    Numbered(callee.code[b - cont], copies)],
        inst |-> [i \in {copies + j : j \in DOMAIN callee.inst} |->
                    Clone(callee.inst[i - copies])]]

\* The returns of the callee: the value, if there is one, and the block
Returns(callee) ==
    LET blocks == SelectSeq(callee.order, LAMBDA b : Terminator(callee, b).op = "ret")
    IN [k \in DOMAIN blocks |-> <<Terminator(callee, blocks[k]).args, blocks[k]>>]

InlineCall(f, call) ==
    LET ins == f.inst[call]
        callee == Callees[ins.attr]
        target == ParentOf(f, call)
        cont == FreshBlock(f)
        merge == FreshInst(f)
        enter == merge + FreshInst(callee)
        split == SplitAfter(f, target, call, cont)
        clone == Cloned(callee, cont, merge, ins.args)
        spliced == [split EXCEPT !.order = @ \o clone.order,
                                 !.code = clone.code @@ @,
                                 !.preds = [b \in DOMAIN clone.code |-> <<>>] @@ @,
                                 !.inst = clone.inst @@ @]
        returns == Returns(callee)
        phi == Inst("phi", ins.type, "",
                    [k \in DOMAIN returns |-> Translate(returns[k][1][1], merge, ins.args)],
                    [k \in DOMAIN returns |-> cont + returns[k][2]])
        \* the value of the call, if the callee returns: one return needs no phi
        handed == CASE ~HasResult(ins) \/ returns = <<>> -> spliced
                    [] HasResult(ins) /\ Len(returns) = 1 ->
                         ReplaceUses(spliced, Ref(call), phi.args[1])
                    [] HasResult(ins) /\ Len(returns) > 1 ->
                         ReplaceUses(InsertAtTop(spliced, cont, merge, phi), Ref(call), Ref(merge))
    IN RecomputePredecessors(
         Emit(Erase(handed, {call}), target, enter, Branch(Head(clone.order))))

Inline(f, heat) == InOrder(InlineCall, f, Chosen(f, heat))
=============================================================================
