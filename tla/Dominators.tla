----------------------------- MODULE Dominators -----------------------------
(***************************************************************************)
(* The dominator tree, dominance frontiers and natural loops of            *)
(* src/analysis/Dominators.cpp and LoopInfo.cpp, as the passes get them    *)
(* from the analysis manager: the iterative algorithm over a reverse       *)
(* postorder, not what dominance means (that is IR!DominatesByPaths).      *)
(***************************************************************************)
EXTENDS IR

\* One look of the depth-first search at the top of its stack.  A frame of the stack
\* is a block and how many of its successors have been looked at
LookAtTop(f, s) ==
    LET top == Last(s.stack)
        succ == Successors(f, top[1])
    IN IF s.stack = <<>> THEN s
       ELSE IF top[2] = Len(succ)
         THEN [s EXCEPT !.stack = Front(@), !.order = <<top[1]>> \o @]
         ELSE LET child == succ[top[2] + 1]
                  looked == Append(Front(s.stack), <<top[1], top[2] + 1>>)
              IN IF child \in s.visited THEN [s EXCEPT !.stack = looked]
                 ELSE [s EXCEPT !.stack = Append(looked, <<child, 0>>),
                                !.visited = @ \cup {child}]

\* Every frame there can be: the search looks at each of them once at most
Frames(f) == UNION {{b} \X (0 .. Len(Successors(f, b))) : b \in Blocks(f)}

\* Reverse postorder of the depth-first search from the entry
ReversePostorder(f) ==
    PrefixByPrefix(LAMBDA s, n : LookAtTop(f, s),
                   [stack |-> <<<<Entry(f), 0>>>>, visited |-> {Entry(f)}, order |-> <<>>],
                   [n \in 1 .. Cardinality(Frames(f)) |-> n]).order

\* Mutant: of several predecessors only the first one counts
Intersect_First(idom, number, a, b) == b

\* Where the walks up from a and b meet in the tree built so far
Intersect(idom, number, a, b) ==
    LET meet[p \in (DOMAIN idom) \X (DOMAIN idom)] ==
          IF p[1] = p[2] THEN p[1]
          ELSE IF number[p[1]] > number[p[2]] THEN meet[<<idom[p[1]], p[2]>>]
          ELSE meet[<<p[1], idom[p[2]]>>]
    IN meet[<<a, b>>]

\* Where the walks up from the predecessors of b meet, those that are in the tree: a
\* set of one block, or {} while none is (kUndefined)
NewIdom(f, number, idom, b) ==
    PrefixByPrefix(LAMBDA found, p : IF p \notin DOMAIN idom THEN found
                                     ELSE IF found = {} THEN {p}
                                     ELSE {Intersect(idom, number, p, d) : d \in found},
                   {}, f.preds[b])

\* One block of a sweep
LowerIdom(f, number, idom, b) ==
    LET found == NewIdom(f, number, idom, b)
    IN IF b = Entry(f) \/ found = {} THEN idom
       ELSE [c \in DOMAIN idom \cup {b} |-> IF c = b THEN CHOOSE d \in found : TRUE ELSE idom[c]]

Sweep(f, number, rpo, idom) ==
    PrefixByPrefix(LAMBDA t, b : LowerIdom(f, number, t, b), idom, rpo)

\* The sweeps over the reverse postorder until one changes nothing: as many as there
\* are blocks are enough
Sweeps(f, number, rpo) ==
    PrefixByPrefix(LAMBDA idom, n : Sweep(f, number, rpo, idom), [b \in {Entry(f)} |-> b], rpo)

\* computeIdoms.  The domain of the result is the blocks that have an immediate
\* dominator; the entry is its own
ImmediateDominators(f) ==
    LET rpo == ReversePostorder(f)
    IN Sweeps(f, [b \in ToSet(rpo) |-> CHOOSE k \in DOMAIN rpo : rpo[k] = b], rpo)

\* A block and the blocks above it in the tree
Dominators(idom, b) ==
    LET up[c \in DOMAIN idom] == {c} \cup IF idom[c] = c THEN {} ELSE up[idom[c]]
    IN up[b]
Dominates(idom, a, b) == a \in Dominators(idom, b)

\* The blocks in the order in which a walk of the tree enters them, children in
\* the order of the function
TreePreorder(f, idom) ==
    LET children(b) == SelectSeq(f.order, LAMBDA c : idom[c] = b /\ c # b)
        Enter(s) == LET b == Head(s.toEnter)
                    IN [toEnter |-> children(b) \o Tail(s.toEnter), entered |-> Append(s.entered, b)]
    IN InOrder(LAMBDA s, n : Enter(s), [toEnter |-> <<Entry(f)>>, entered |-> <<>>], f.order).entered

\* DominanceFrontier: from each predecessor of a join up to, and without, the
\* immediate dominator of the join
Frontier(f, idom) ==
    [b \in Blocks(f) |->
        {join \in Blocks(f) :
            /\ Len(f.preds[join]) >= 2
            /\ \E p \in ToSet(f.preds[join]) :
                 b \in Dominators(idom, p) \ Dominators(idom, idom[join])}]

-----------------------------------------------------------------------------
(* LoopInfo *)

Latches(f, idom, header) ==
    {b \in Blocks(f) : Contains(Successors(f, b), header) /\ Dominates(idom, header, b)}

\* The blocks that reach a latch without passing the header
LoopBody(f, header, latches) ==
    LET grown[n \in 0 .. Len(f.order)] ==
          IF n = 0 THEN {header} \cup latches
          ELSE LET S == grown[n - 1]
               IN S \cup UNION {ToSet(f.preds[b]) : b \in S \ {header}}
    IN grown[Len(f.order)]

\* The loops: the header, the body, and the preheaders, one at most
LoopsOf(f, idom) ==
    LET headers == {b \in Blocks(f) : Latches(f, idom, b) # {}}
        Of(h) == LET body == LoopBody(f, h, Latches(f, idom, h))
                     outside == SelectSeq(f.preds[h], LAMBDA p : p \notin body)
                 IN [header |-> h, body |-> body,
                     preheaders |-> {p \in ToSet(f.preds[h]) \ body :
                        Len(outside) = 1 /\ Len(Successors(f, p)) = 1}]
    IN {Of(h) : h \in headers}

\* How many loops a loop is in, itself included
Depth(loops, loop) == Cardinality({l \in loops : loop.header \in l.body})
=============================================================================
