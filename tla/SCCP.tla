-------------------------------- MODULE SCCP --------------------------------
(***************************************************************************)
(* Sparse conditional constant propagation, src/transforms/SCCP.cpp: the   *)
(* solver as a state with its two worklists and one step per element taken *)
(* from them, and the rewriting of the function with its result.           *)
(***************************************************************************)
EXTENDS ScalarPasses

Unknown == <<"unknown", 0>>
Overdefined == <<"overdefined", 0>>

\* The solver: what every instruction is known to be, the blocks and edges that
\* may execute, and the worklists, both of them stacks.  mode tells which of the
\* two loops of solve() it is in: a loop goes on until its worklist is empty.  The
\* order of a list of users depends on how the function came about: they are
\* queued in some order, or against it if backward
StartSolver(f, backward) ==
    [values |-> [i \in DOMAIN f.inst |-> Unknown],
     reachable |-> {Entry(f)}, executable |-> {},
     blocks |-> <<Entry(f)>>, users |-> <<>>, mode |-> "blocks", backward |-> backward]

LatticeOf(s, v) ==
    CASE IsRef(v) -> s.values[v[2]] [] v[1] = "arg" -> Overdefined [] OTHER -> v

UserList(f, i, backward) ==
    LET users == SetToSeq(Users(f, Ref(i)))
    IN IF backward THEN Reverse(users) ELSE users

\* An entry that moves queues the users
Update(f, s, i, next) ==
    IF s.values[i] \in {next, Overdefined} THEN s
    ELSE [s EXCEPT !.values[i] = next, !.users = @ \o UserList(f, i, s.backward)]

\* Mutant: a block is visited when it is first reached and not for further edges
MarkEdge_Block(s, from, to) ==
    [s EXCEPT !.executable = @ \cup {<<from, to>>}, !.reachable = @ \cup {to},
              !.blocks = IF to \in s.reachable THEN @ ELSE Append(@, to)]

\* Edges, not blocks: a further edge into a block makes its phis worth another look
MarkEdge(s, from, to) ==
    IF <<from, to>> \in s.executable THEN s
    ELSE [s EXCEPT !.executable = @ \cup {<<from, to>>}, !.reachable = @ \cup {to},
                   !.blocks = Append(@, to)]

\* Mutant: two constants that differ do not make a phi overdefined, the later one counts
MeetOfPhi_Last(s, b, phi) ==
    LET arriving == {k \in DOMAIN phi.args :
                       /\ <<phi.to[k], b>> \in s.executable
                       /\ LatticeOf(s, phi.args[k]) # Unknown}
    IN CASE arriving = {} -> Unknown
         [] \E k \in arriving : LatticeOf(s, phi.args[k]) = Overdefined -> Overdefined
         [] OTHER -> LatticeOf(s, phi.args[Max(arriving)])

\* The meet of what arrives on the edges that may execute
MeetOfPhi(s, b, phi) ==
    LET live == {k \in DOMAIN phi.args : <<phi.to[k], b>> \in s.executable}
        arriving == {LatticeOf(s, phi.args[k]) : k \in live} \ {Unknown}
    IN CASE arriving = {} -> Unknown
         [] Overdefined \in arriving \/ Cardinality(arriving) > 1 -> Overdefined
         [] OTHER -> CHOOSE c \in arriving : TRUE

Foldable == Arithmetic \cup {"neg", "not", "icmp"}

\* What an instruction is, from what its operands are: the constant it folds to,
\* unknown while an operand is, and otherwise overdefined
Evaluated(s, ins) ==
    LET operands == [k \in DOMAIN ins.args |-> LatticeOf(s, ins.args[k])]
        settled == \A k \in DOMAIN operands : IsConstant(operands[k])
        folded == IF settled THEN FoldedConstant(ins.op, ins.attr, operands) ELSE {}
    IN CASE ins.op \notin Foldable -> Overdefined
         [] ins.op \in Foldable /\ folded # {} -> CHOOSE c \in folded : TRUE
         [] ins.op \in Foldable /\ folded = {} ->
              IF Contains(operands, Unknown) THEN Unknown ELSE Overdefined

\* visit()
VisitInst(f, b, s, i) ==
    LET ins == f.inst[i]
        condition == LatticeOf(s, ins.args[1])
    IN CASE ins.op = "phi" -> Update(f, s, i, MeetOfPhi(s, b, ins))
         [] ins.op = "br" -> MarkEdge(s, b, ins.to[1])
         [] ins.op = "condbr" ->
              CASE IsBool(condition) -> MarkEdge(s, b, ins.to[IF condition = I1(TRUE) THEN 1 ELSE 2])
                [] condition = Overdefined ->
                     MarkEdge(MarkEdge(s, b, ins.to[1]), b, ins.to[2])
                [] OTHER -> s
         [] OTHER -> IF HasResult(ins) /\ Evaluated(s, ins) # Unknown
                       THEN Update(f, s, i, Evaluated(s, ins)) ELSE s

\* All the instructions of a block
VisitBlock(f, b, s) == PrefixByPrefix(LAMBDA t, i : VisitInst(f, b, t, i), s, f.code[b])

\* The block taken last from the worklist
SolveBlock(f, s) ==
    LET visited == VisitBlock(f, Last(s.blocks), [s EXCEPT !.blocks = Front(@)])
    IN [visited EXCEPT !.mode = IF visited.blocks = <<>> THEN "users" ELSE "blocks"]

\* The user taken last, if its block may execute
SolveUser(f, s) ==
    LET i == Last(s.users)
        b == ParentOf(f, i)
        taken == [s EXCEPT !.users = Front(@)]
        visited == IF b \in s.reachable THEN VisitInst(f, b, taken, i) ELSE taken
    IN [visited EXCEPT !.mode = IF visited.users = <<>> THEN "blocks" ELSE "users"]

Solved(s) == s.blocks = <<>> /\ s.users = <<>>

\* replaceWithBranch
ResolveBranch(f, b, taken) ==
    LET condbr == Terminator(f, b)
        target == condbr.to[taken]
        lost == ToSet(condbr.to) \ {target}
    IN ReplaceTerminator(EditPhis(f, lost, LAMBDA phi : RemoveIncoming(phi, b)), b, target)

\* rewrite()
RewriteWith(f, s) ==
    LET Visit(r, i) ==
          LET ins == r.f.inst[i]
              b == ParentOf(f, i)
              value == IF ins.op = "condbr" THEN LatticeOf(s, ins.args[1]) ELSE s.values[i]
          IN CASE ins.op = "condbr" /\ IsBool(value) ->
                    [r EXCEPT !.f = ResolveBranch(@, b, IF value = I1(TRUE) THEN 1 ELSE 2)]
               [] ins.op # "condbr" /\ HasResult(ins) /\ IsConstant(value) ->
                    [f |-> ReplaceUses(r.f, Ref(i), value), dead |-> r.dead \cup {i}]
               [] OTHER -> r
        walked == SelectSeq(f.order, LAMBDA b : b \in s.reachable)
        end == InOrder(Visit, [f |-> f, dead |-> {}],
                       FlattenSeq([k \in DOMAIN walked |-> f.code[walked[k]]]))
    IN IF end.f = f /\ end.dead = {} THEN f
       ELSE RemoveUnreachableBlocks(RecomputePredecessors(Erase(end.f, end.dead)))
=============================================================================
