----------------------------- MODULE MCLiveness -----------------------------
(***************************************************************************)
(* Small functions: CFGs of three blocks whose entry nothing branches to   *)
(* (loops of one block and of two, early exits, unreachable blocks), two   *)
(* values, at most one phi, and two stores to one slot or to two.          *)
(***************************************************************************)
EXTENDS Liveness

Values == {1, 2}
CFGs == {g \in [Blocks -> SUBSET {2, 3}] : 2 \in g[1] /\ g[3] \in {{}, {2}}}

Bodies == {<<>>, <<[def |-> 1, uses |-> {}]>>, <<[def |-> 2, uses |-> {1}]>>,
           <<[def |-> None, uses |-> {1}]>>, <<[def |-> None, uses |-> {2}]>>,
           <<[def |-> None, uses |-> {2}], [def |-> 1, uses |-> {}]>>}

CFGPreds(g, b) == {p \in Blocks : b \in g[p]}

\* A phi for value 2 in block 2, or none
PhisFor(g) ==
    {[b \in Blocks |-> <<>>]} \cup
        {[b \in Blocks |-> IF b = 2 THEN <<[def |-> 2, from |-> from]>> ELSE <<>>] :
            from \in [CFGPreds(g, 2) -> {1, 2}]}

DefinedIn(f, b) == {f.phis[b][i].def : i \in DOMAIN f.phis[b]}
                     \cup {f.body[b][i].def : i \in DOMAIN f.body[b]}

\* In SSA form a value has one definition
OneDefinition(f) ==
    /\ \A b, c \in Blocks : b # c => DefinedIn(f, b) \cap DefinedIn(f, c) \cap Values = {}
    /\ \A b \in Blocks : f.phis[b] # <<>> => \A i \in DOMAIN f.body[b] : f.body[b][i].def # 2

\* What does not matter to an analysis is left empty
LivenessFunctions ==
    {f \in UNION {[succ : {g}, phis : PhisFor(g), body : [Blocks -> Bodies],
                   stores : {[b \in Blocks |-> <<>>]}, slot : {<<1, 2>>}] : g \in CFGs} :
        OneDefinition(f)}

\* Each store stands in one block
StoreLists == {<<>>, <<1>>, <<2>>, <<1, 2>>, <<2, 1>>}
Placed(s) == \A b, c \in Blocks : b # c =>
                {s[b][i] : i \in DOMAIN s[b]} \cap {s[c][i] : i \in DOMAIN s[c]} = {}

ReachingFunctions ==
    [succ : CFGs, phis : {[b \in Blocks |-> <<>>]}, body : {[b \in Blocks |-> <<>>]},
     stores : {s \in [Blocks -> StoreLists] : Placed(s)}, slot : {<<1, 1>>, <<1, 2>>}]

AllFunctions == LivenessFunctions \cup ReachingFunctions
AllProblems == {LivenessProblem(f) : f \in LivenessFunctions}
                 \cup {ReachingProblem(f) : f \in ReachingFunctions}
=============================================================================
