----------------------------- MODULE Instrument -----------------------------
(***************************************************************************)
(* instrumentForProfiling of src/transforms/Instrument.cpp on the control  *)
(* flow of one function: critical edges are split, every block gets one    *)
(* counter, and a table says how the records of the profile are read off   *)
(* the counters.  A function is known by its place in the module, a        *)
(* counter by its function and block.  --profile-time is left out.         *)
(***************************************************************************)
EXTENDS Dominators

-----------------------------------------------------------------------------
(* splitCriticalEdges, which SSA destruction calls too *)

CriticalEdge(f, b, n) ==
    LET to == Successors(f, b) IN Len(to) >= 2 /\ n \in DOMAIN to /\ Len(f.preds[to[n]]) >= 2

\* f, and x at i
With(f, i, x) == [j \in DOMAIN f \cup {i} |-> IF j = i THEN x ELSE f[j]]

\* The bridge enters the predecessors of the target; b stays there, and enters nowhere
SplitEdge(f, b, n) ==
    LET target == Successors(f, b)[n]
        bridge == FreshBlock(f)
        jump == FreshInst(f)
        built == [f EXCEPT !.order = Append(@, bridge),
                           !.code = With(@, bridge, <<jump>>),
                           !.inst = With([f.inst EXCEPT ![Last(f.code[b])].to[n] = bridge], jump, Branch(target)),
                           !.preds = With([f.preds EXCEPT ![target] = Append(@, bridge)], bridge, <<>>)]
    IN RenameIncoming(built, {target}, b, bridge)

\* Mutant: the edges of the entry are left as they are
SplitCriticalEdges_NotEntry(f) ==
    LET Split(g, e) == IF e[1] # Entry(g) /\ CriticalEdge(g, e[1], e[2])
                         THEN SplitEdge(g, e[1], e[2]) ELSE g
        edges == FlattenSeq([k \in DOMAIN f.order |-> <<<<f.order[k], 1>>, <<f.order[k], 2>>>>])
    IN RecomputePredecessors(PrefixByPrefix(Split, f, edges))

\* The lists of predecessors grow with every bridge and are put right at the end
SplitCriticalEdges(f) ==
    LET Split(g, e) == IF CriticalEdge(g, e[1], e[2]) THEN SplitEdge(g, e[1], e[2]) ELSE g
        edges == FlattenSeq([k \in DOMAIN f.order |-> <<<<f.order[k], 1>>, <<f.order[k], 2>>>>])
    IN RecomputePredecessors(PrefixByPrefix(Split, f, edges))

-----------------------------------------------------------------------------
(* The records of function k, whose blocks are called label[b] *)

FunctionName(k) == <<k, <<"function", 0>>>>

\* With one number, a and b are the same counter
Record(kind, name, a, b) == [kind |-> kind, name |-> name, a |-> a, b |-> b]

\* Read off the two successors, which have no other way in after the split
BranchRecords(k, f, label) ==
    FlattenSeq([n \in DOMAIN f.order |->
        LET b == f.order[n]
            to == Successors(f, b)
        IN IF Len(to) = 2 THEN <<Record("BRANCH", <<k, label[b]>>, <<k, to[1]>>, <<k, to[2]>>)>>
           ELSE <<>>])

\* Only for a loop with a preheader, whose count is how often it was entered
LoopRecords(k, f, label) ==
    LET loops == {l \in LoopsOf(f, ImmediateDominators(f)) : l.preheaders # {}}
        before(h) == CHOOSE p \in (CHOOSE l \in loops : l.header = h).preheaders : TRUE
    IN FlattenSeq([n \in DOMAIN f.order |->
           LET h == f.order[n]
           IN IF \E l \in loops : l.header = h
                THEN <<Record("LOOP", <<k, label[h]>>, <<k, h>>, <<k, before(h)>>)>>
                ELSE <<>>])

RecordsOf(k, f, label) ==
    LET entered == Record("FUNCTION", FunctionName(k), <<k, Entry(f)>>, <<k, Entry(f)>>)
        blocks == [n \in DOMAIN f.order |-> Record("BLOCK", <<k, label[f.order[n]]>>, <<k, f.order[n]>>, <<k, f.order[n]>>)]
    IN <<entered>> \o blocks \o BranchRecords(k, f, label) \o LoopRecords(k, f, label)
=============================================================================
