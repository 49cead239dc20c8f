------------------------------ MODULE SSAForm -------------------------------
(***************************************************************************)
(* The two ends of SSA form on the IR.  Construction,                      *)
(* src/transforms/Mem2Reg.cpp: which slots are promoted, where phis go,    *)
(* and the renaming walk over the dominator tree.  Destruction, destroySSA *)
(* of src/transforms/SSADestruction.cpp: module SSADestruction takes it    *)
(* one copy at a time, for functions of every shape; here it is one edit   *)
(* among those a function goes through, and leaves the aliases the         *)
(* allocator reads.                                                        *)
(***************************************************************************)
EXTENDS Dominators

-----------------------------------------------------------------------------
(* Construction *)

\* Every use is a load, or a store into it: an array has uses by gep
IsPromotable(f, a) ==
    \A i \in Users(f, Ref(a)) :
      \/ f.inst[i].op = "load"
      \/ f.inst[i].op = "store" /\ f.inst[i].args[2] = Ref(a)

Promotable(f) ==
    SelectSeq(f.code[Entry(f)], LAMBDA i : f.inst[i].op = "alloca" /\ IsPromotable(f, i))

ZeroOf(type) == IF type = "i1" THEN I1(FALSE) ELSE IF type = "f64" THEN F64(0) ELSE I64(0)
ZeroFor(f, a) == ZeroOf(f.inst[a].attr)

\* The iterated dominance frontier of the blocks that store into slot a
PhiBlocks(f, frontier, a) ==
    LET stores == {i \in Users(f, Ref(a)) : f.inst[i].op = "store"}
        joins[n \in 0 .. Len(f.order)] ==
          IF n = 0 THEN {}
          ELSE LET placed == joins[n - 1]
               IN UNION {frontier[b] : b \in placed \cup {ParentOf(f, i) : i \in stores}}
    IN joins[Len(f.order)]

\* A phi without edges at the top of each of those blocks, slot by slot
PhiFor(f, a, b) == FreshInst(f) + a * FreshBlock(f) + b
PlacePhis(f, slots, at) ==
    LET Place(g, a) ==
          InOrder(LAMBDA h, b : IF b \in at[a]
                                  THEN InsertAtTop(h, b, PhiFor(f, a, b),
                                         Inst("phi", f.inst[a].attr, "", <<>>, <<>>))
                                  ELSE h,
                  g, f.order)
    IN InOrder(Place, f, slots)

\* The values on top of the stacks when block b is entered: those its parent in
\* the tree left there, everything pushed since having been popped
Inherited(idom, b, state) == state.leaving[idom[b]]

\* The walk.  slotOf gives the slot of a new phi; leaving[b] what the slots hold
\* at the end of b
Rename(f, idom, slots, slotOf) ==
    LET Slot(g, v) == IF IsRef(v) /\ Contains(slots, v[2]) THEN {v[2]} ELSE {}
        Visit(w, i) ==
          LET ins == w.f.inst[i] IN
          IF i \in DOMAIN slotOf THEN [w EXCEPT !.held[slotOf[i]] = Ref(i)]
          ELSE IF ins.op = "load" /\ Slot(w.f, ins.args[1]) # {}
            THEN [w EXCEPT !.f = ReplaceUses(@, Ref(i), w.held[ins.args[1][2]]),
                           !.dead = @ \cup {i}]
          ELSE IF ins.op = "store" /\ Slot(w.f, ins.args[2]) # {}
            THEN [w EXCEPT !.held[ins.args[2][2]] = ins.args[1], !.dead = @ \cup {i}]
          ELSE w
        Walk(s, b) ==
          LET held == IF b = Entry(f) THEN [a \in ToSet(slots) |-> ZeroFor(f, a)]
                                      ELSE Inherited(idom, b, s)
              w == InOrder(Visit, [f |-> s.f, held |-> held, dead |-> s.dead], s.f.code[b])
              Incoming(g, phi) ==
                IF phi \in DOMAIN slotOf
                  THEN [g EXCEPT !.inst[phi].args = Append(@, w.held[slotOf[phi]]),
                                 !.inst[phi].to = Append(@, b)]
                  ELSE g
              filled == InOrder(LAMBDA g, c : InOrder(Incoming, g, g.code[c]),
                                w.f, Successors(f, b))
          IN [f |-> filled, dead |-> w.dead,
              leaving |-> (b :> w.held) @@ s.leaving]
        start == [f |-> f, dead |-> {}, leaving |-> <<>>]
        end == InOrder(Walk, start, TreePreorder(f, idom))
    IN Erase(end.f, end.dead \cup ToSet(slots))

PromoteMemoryToRegisters(f) ==
    LET slots == Promotable(f)
        idom == ImmediateDominators(f)
        frontier == Frontier(f, idom)
        at == [a \in ToSet(slots) |-> PhiBlocks(f, frontier, a)]
        phisOf(a) == {PhiFor(f, a, b) : b \in at[a]}
        slotOf == [phi \in UNION {phisOf(a) : a \in ToSet(slots)} |->
                     CHOOSE a \in ToSet(slots) : phi \in phisOf(a)]
    IN IF slots = <<>> THEN f
       ELSE Rename(PlacePhis(f, slots, at), idom, slots, slotOf)

-----------------------------------------------------------------------------
(* Destruction *)

\* In block order
PhisOf(f) ==
    FlattenSeq([k \in DOMAIN f.order |->
        SelectSeq(f.code[f.order[k]], LAMBDA i : i \in LeadingPhis(f, f.order[k]))])

\* A bridge on the n-th edge out of b, if its target has another predecessor.  The
\* lists are those the edits keep: the bridge comes in addition until they are rebuilt
SplitEdge(f, b, n) ==
    LET target == Terminator(f, b).to[n]
        bridge == FreshBlock(f)
        built == Emit(CreateBlock(f, bridge), bridge, FreshInst(f), Branch(target))
        redirected == [built EXCEPT !.inst[Last(f.code[b])].to[n] = bridge]
    IN IF Len(f.preds[target]) < 2 THEN f ELSE RenameIncoming(redirected, {target}, b, bridge)

SplitCriticalEdges(f) ==
    LET Split(g, b) == IF Len(Successors(g, b)) < 2 THEN g
                       ELSE InOrder(LAMBDA h, n : SplitEdge(h, b, n), g, <<1, 2>>)
        split == InOrder(Split, f, f.order)
    IN IF split = f THEN f ELSE RecomputePredecessors(split)

AliasedLocation(f, v) == IF IsRef(v) /\ v[2] \in DOMAIN f.alias THEN Ref(f.alias[v[2]]) ELSE v

\* A root for the phi: a copy of itself, behind the phis and before older roots
InsertRoot(f, phi, root) ==
    LET b == ParentOf(f, phi)
        place == 1 + Cardinality(LeadingPhis(f, b))
    IN [f EXCEPT !.code[b] = InsertAt(@, place, root),
                 !.inst = (root :> Inst("copy", f.inst[phi].type, "", <<Ref(root)>>, <<>>)) @@ @,
                 !.alias = (root :> root) @@ @]

BeforeTerminator(f, b, i, ins) ==
    [f EXCEPT !.code[b] = InsertAt(@, Len(@), i), !.inst = (i :> ins) @@ @]

\* No other pending assignment still has to read what this one overwrites
IsReady(f, pending, n) ==
    \A m \in DOMAIN pending \ {n} : AliasedLocation(f, pending[m].source) # Ref(pending[n].root)

\* emitParallelCopy, one round: the first ready assignment, or a cycle is broken
EmitAssignment(f, b, pending) ==
    LET ready == {n \in DOMAIN pending : IsReady(f, pending, n)}
        next == pending[Min(ready)]
        victim == Ref(pending[1].root)
        type == f.inst[pending[1].root].type
        copy == FreshInst(f)
        Redirected(a) == IF AliasedLocation(f, a.source) = victim THEN [a EXCEPT !.source = Ref(copy)] ELSE a
    IN IF ready # {}
         THEN [f |-> [BeforeTerminator(f, b, copy, Inst("copy", f.inst[next.root].type, "", <<next.source>>, <<>>))
                        EXCEPT !.alias = (copy :> next.root) @@ @],
               pending |-> RemoveAt(pending, Min(ready))]
         ELSE [f |-> BeforeTerminator(f, b, copy, Inst("copy", type, "", <<victim>>, <<>>)),
               pending |-> [n \in DOMAIN pending |-> Redirected(pending[n])]]

\* Breaking a cycle takes a round more than there are assignments in it
EmitParallelCopy(f, b, pending) ==
    LET Round(s, n) == IF s.pending = <<>> THEN s ELSE EmitAssignment(s.f, b, s.pending)
    IN InOrder(Round, [f |-> f, pending |-> pending], [n \in 1 .. 2 * Len(pending) |-> n]).f

DestroySSA(f) ==
    LET phis == PhisOf(f)
        split == SplitCriticalEdges(f)
        base == FreshInst(split) - 1
        Root(phi) == base + (CHOOSE n \in DOMAIN phis : phis[n] = phi)
        rooted == InOrder(LAMBDA g, phi : InsertRoot(g, phi, Root(phi)), split, phis)
        Translated(v) == IF IsRef(v) /\ Contains(phis, v[2]) THEN Ref(Root(v[2])) ELSE v
        Assignments(b, phi) ==
          LET ins == split.inst[phi]
              edges == SelectSeq([k \in DOMAIN ins.to |-> k], LAMBDA k : ins.to[k] = b)
          IN [e \in DOMAIN edges |-> [root |-> Root(phi), source |-> Translated(ins.args[edges[e]])]]
        PendingAt(b) == FlattenSeq([n \in DOMAIN phis |-> Assignments(b, phis[n])])
        copied == InOrder(LAMBDA g, b : EmitParallelCopy(g, b, PendingAt(b)), rooted, split.order)
        replaced == InOrder(LAMBDA g, phi : ReplaceUses(g, Ref(phi), Ref(Root(phi))), copied, phis)
    IN IF phis = <<>> THEN f ELSE Erase(replaced, ToSet(phis))
=============================================================================
