----------------------------- MODULE MCRegAlloc -----------------------------
(***************************************************************************)
(* Small instances of RegAlloc.  The pools keep what the target's pools    *)
(* have: r11 is caller-saved and comes first, every other register         *)
(* survives a call.                                                        *)
(***************************************************************************)
EXTENDS RegAlloc

AllRegisters == {"r11", "rbx", "xmm6", "xmm7"}
CalleeSavedRegs == {"rbx", "xmm6", "xmm7"}

TwoOfEach == [Integer |-> <<"r11", "rbx">>, Float |-> <<"xmm6", "xmm7">>]
OneAndNone == [Integer |-> <<"rbx">>, Float |-> <<>>]
SmallTargets == {TwoOfEach, OneAndNone}

\* No unit, two and all of them span a call
FewSpans == {{}, {2, 3}, Units}

\* At most two moves, the first into unit 1: both shapes (a chain through a
\* shared unit, two unrelated copies) are kept
Moves == {m \in Units \X Units : m[1] # m[2]}
FewMoves == {<<>>} \cup {<<m>> : m \in Moves}
              \cup {<<m, n>> : m \in {x \in Moves : x[1] = 1}, n \in Moves}

AllInteger == [u \in Units |-> "Integer"]
AllFloat == [u \in Units |-> "Float"]
Both == [u \in Units |-> IF u % 2 = 0 THEN "Float" ELSE "Integer"]
ThreeClassMaps == {AllInteger, AllFloat, Both}

\* Unit 1 dearer than its degree can make up for, the others close enough that
\* degree and coalescing decide between them
OneDearUnit == {[u \in Units |-> IF u = 1 THEN 10 ELSE u]}

NeighbourClass == \A u \in Units : \A n \in neighbours[u] : regClass[n] = regClass[u]
Symmetric ==
    \A u, v \in Units : ~Merged(u) /\ v \in NeighbourRoots(u) => u \in NeighbourRoots(v)
StackOK ==
    /\ removed = {order[i] : i \in DOMAIN order}
    /\ \A i, j \in DOMAIN order : order[i] = order[j] => i = j
    /\ \A i \in DOMAIN order : rep[order[i]] = order[i]
    /\ phase \notin {"main", "select"} => order = <<>>
LowDegree ==
    \A i \in DOMAIN order : order[i] \notin optimistic =>
        Cardinality(NeighbourRoots(order[i]) \ {order[j] : j \in 1 .. i - 1}) < K
FloatUntouched == class = "Integer" => \A u \in spilled : regClass[u] = "Integer"
=============================================================================
