------------------------ MODULE SSADestructionProofs ------------------------
(***************************************************************************)
(* destroySSA is right for every control-flow graph and any number of      *)
(* phis: the function with the copies does what the SSA program does.      *)
(***************************************************************************)
EXTENDS SSADestruction, Induction

-----------------------------------------------------------------------------
(* Sequences *)

\* A sequence with one element more.
LEMMA Appended ==
    ASSUME NEW T, NEW q \in Seq(T), NEW x \in T
    PROVE  /\ Append(q, x) \in Seq(T)
           /\ Len(q) \in Nat /\ DOMAIN q = 1 .. Len(q) /\ Len(Append(q, x)) = Len(q) + 1
           /\ DOMAIN Append(q, x) = DOMAIN q \cup {Len(q) + 1}
           /\ \A i \in DOMAIN q : Append(q, x)[i] = q[i]
           /\ Append(q, x)[Len(q) + 1] = x
  OBVIOUS

\* A sequence with one element replaced.
LEMMA Replaced ==
    ASSUME NEW T, NEW q \in Seq(T), NEW b \in DOMAIN q, NEW x \in T
    PROVE  /\ [q EXCEPT ![b] = x] \in Seq(T)
           /\ Len([q EXCEPT ![b] = x]) = Len(q)
           /\ [q EXCEPT ![b] = x][b] = x
           /\ \A c \in DOMAIN q : c # b => [q EXCEPT ![b] = x][c] = q[c]
  OBVIOUS

\* The same two levels down.
LEMMA ReplacedInside ==
    ASSUME NEW q \in Seq(Seq(Nat)), NEW b \in DOMAIN q, NEW i \in DOMAIN q[b], NEW v \in Nat
    PROVE  /\ [q EXCEPT ![b][i] = v] \in Seq(Seq(Nat))
           /\ Len([q EXCEPT ![b][i] = v]) = Len(q)
           /\ [q EXCEPT ![b][i] = v][b][i] = v
           /\ \A c \in DOMAIN q : DOMAIN [q EXCEPT ![b][i] = v][c] = DOMAIN q[c]
           /\ \A c \in DOMAIN q : \A j \in DOMAIN q[c] :
                 c # b \/ j # i => [q EXCEPT ![b][i] = v][c][j] = q[c][j]
<1> DEFINE inner == [q[b] EXCEPT ![i] = v]
           new == [q EXCEPT ![b] = inner]
           T == Seq(Nat)
<1>1. q[b] \in Seq(Nat)
  OBVIOUS
<1>2. /\ inner \in Seq(Nat) /\ DOMAIN inner = DOMAIN q[b] /\ inner[i] = v
      /\ \A j \in DOMAIN q[b] : j # i => inner[j] = q[b][j]
  BY <1>1
<1>3. [q EXCEPT ![b][i] = v] = new
  OBVIOUS
<1>4. q \in Seq(T) /\ inner \in T
  BY <1>2
<1> HIDE DEF T, inner
<1>5. /\ new \in Seq(T) /\ Len(new) = Len(q) /\ new[b] = inner
      /\ \A c \in DOMAIN q : c # b => new[c] = q[c]
  BY <1>4, Replaced
<1> HIDE DEF new
<1> QED
  BY <1>2, <1>3, <1>5 DEF T

-----------------------------------------------------------------------------
(* Reachability and dominance *)

IsGraph(g) == g \in Seq(Seq(1 .. Len(g))) /\ Len(g) >= 1

\* A branch of a graph names blocks of the graph.
LEMMA TargetTypes ==
    ASSUME NEW g, IsGraph(g)
    PROVE  /\ Len(g) \in Nat /\ DOMAIN g = 1 .. Len(g) /\ 1 \in DOMAIN g
           /\ \A b \in DOMAIN g : Targets(g, b) \subseteq DOMAIN g
<1>1. Len(g) \in Nat /\ DOMAIN g = 1 .. Len(g) /\ 1 \in DOMAIN g
  BY DEF IsGraph
<1>2. ASSUME NEW b \in DOMAIN g PROVE Targets(g, b) \subseteq DOMAIN g
  <2>1. g[b] \in Seq(DOMAIN g)
    BY <1>1 DEF IsGraph
  <2> QED
    BY <2>1 DEF Targets
<1> QED
  BY <1>1, <1>2

\* The rounds of ReachableAvoiding
AreReached(h, g, cut) ==
    /\ h \in [0 .. Len(g) -> SUBSET (DOMAIN g)]
    /\ h[0] = {1} \ cut
    /\ \A n \in 1 .. Len(g) :
          h[n] = h[n - 1] \cup ((UNION {Targets(g, b) : b \in h[n - 1]}) \ cut)
    /\ ReachableAvoiding(g, cut) = h[Len(g)]

\* They are what the recursion in its definition computes.
LEMMA ReachedInRounds ==
    ASSUME NEW g, IsGraph(g), NEW cut
    PROVE  \E h : AreReached(h, g, cut)
<1> DEFINE L == Len(g)
           D == SUBSET (DOMAIN g)
           grown(X) == X \cup ((UNION {Targets(g, b) : b \in X}) \ cut)
           F == [n \in 1 .. L |-> [X \in D |-> grown(X)]]
           f[n \in 0 .. L] ==
              IF n = 0 THEN {1} \ cut
                       ELSE f[n - 1] \cup ((UNION {Targets(g, b) : b \in f[n - 1]}) \ cut)
<1>0. L \in Nat
  BY TargetTypes
<1>1. \A X \in D : grown(X) \in D
  BY TargetTypes
<1>2. ReachableAvoiding(g, cut) = f[L]
  BY DEF ReachableAvoiding
<1>4. {1} \ cut \in D
  BY TargetTypes
<1> HIDE DEF grown, D, L
<1>3. F \in [1 .. L -> [D -> D]]
  BY <1>1
<1>5. PICK h : IsLoop(h, L, D, {1} \ cut, F)
  <2> HIDE DEF F
  <2> QED
    BY <1>0, <1>3, <1>4, LoopExists
<1>6. /\ h \in [0 .. L -> D] /\ h[0] = {1} \ cut
      /\ \A n \in 1 .. L : h[n] = grown(h[n - 1])
  <2>1. h \in [0 .. L -> D] /\ h[0] = {1} \ cut
    BY <1>5 DEF IsLoop
  <2>2. ASSUME NEW n \in 1 .. L PROVE h[n] = grown(h[n - 1])
    <3>1. h[n - 1] \in D
      BY <1>0, <2>1
    <3> QED
      BY <1>5, <3>1 DEF IsLoop
  <2> QED
    BY <2>1, <2>2
<1>7. h = [n \in 0 .. L |->
             IF n = 0 THEN {1} \ cut
                      ELSE h[n - 1] \cup ((UNION {Targets(g, b) : b \in h[n - 1]}) \ cut)]
  BY <1>0, <1>6 DEF grown
<1>8. f = [n \in 0 .. L |->
             IF n = 0 THEN {1} \ cut
                      ELSE f[n - 1] \cup ((UNION {Targets(g, b) : b \in f[n - 1]}) \ cut)]
  BY <1>7, Zenon
<1> HIDE DEF f, F
<1> DEFINE S == {i \in 0 .. L : f[i] = h[i]}
<1>9. 0 \in S
  BY <1>0, <1>6, <1>8
<1>10. ASSUME NEW i \in 1 .. L, i - 1 \in S PROVE i \in S
  <2>0. i \in 0 .. L /\ i # 0
    BY <1>0
  <2>1. f[i] = grown(f[i - 1]) /\ h[i] = grown(h[i - 1])
    <3> HIDE DEF S
    <3> QED
      BY <1>6, <1>8, <2>0 DEF grown
  <2> QED
    BY <1>0, <1>10, <2>0, <2>1
<1>11. L \in S
  <2> HIDE DEF S
  <2>1. \A n \in 0 .. L : n \in S
    BY <1>0, <1>9, <1>10, Rounds
  <2> QED
    BY <1>0, <2>1
<1> QED
  BY <1>2, <1>6, <1>11 DEF grown, AreReached, D, L

\* What is reachable stays in the graph and is closed under its edges.
LEMMA ReachableIsClosed ==
    ASSUME NEW g, IsGraph(g), NEW cut
    PROVE  /\ ReachableAvoiding(g, cut) \subseteq DOMAIN g
           /\ 1 \notin cut => 1 \in ReachableAvoiding(g, cut)
           /\ \A b \in ReachableAvoiding(g, cut) :
                 Targets(g, b) \ cut \subseteq ReachableAvoiding(g, cut)
<1>1. PICK h : AreReached(h, g, cut)
  BY ReachedInRounds
<1> DEFINE L == Len(g)
           found(X) == (UNION {Targets(g, b) : b \in X}) \ cut
           G == [X \in SUBSET (1 .. L) |-> found(X)]
<1>2. L \in Nat /\ DOMAIN g = 1 .. L
  BY TargetTypes
<1>3. G \in [SUBSET (1 .. L) -> SUBSET (1 .. L)]
  BY <1>2, TargetTypes
<1>4. h \in [0 .. L -> SUBSET (1 .. L)]
  BY <1>1, <1>2 DEF AreReached
<1>5. \A i \in 1 .. L : h[i] = h[i - 1] \cup G[h[i - 1]]
  <2>1. \A i \in 1 .. L : i - 1 \in 0 .. L
    BY <1>2
  <2> HIDE DEF L
  <2> QED
    BY <1>1, <1>4, <2>1 DEF AreReached, L
<1>6. G[h[L]] \subseteq h[L]
  <2> HIDE DEF G, L
  <2> QED
    BY <1>2, <1>3, <1>4, <1>5, Saturates
<1>7. h[L] \in SUBSET (1 .. L)
  BY <1>2, <1>4
<1>8. ReachableAvoiding(g, cut) = h[L]
  BY <1>1 DEF AreReached
<1>9. found(h[L]) \subseteq h[L]
  BY <1>6, <1>7
<1>10. 1 \notin cut => 1 \in h[L]
  <2> SUFFICES ASSUME 1 \notin cut PROVE 1 \in h[L]
    OBVIOUS
  <2> DEFINE S == {i \in 0 .. L : 1 \in h[i]}
  <2>1. 0 \in S
    BY <1>1, <1>2 DEF AreReached
  <2>2. \A i \in 1 .. L : i - 1 \in S => i \in S
    <3> HIDE DEF G
    <3> QED
      BY <1>2, <1>5
  <2> HIDE DEF S, L
  <2>3. \A i \in 0 .. L : i \in S
    BY <1>2, <2>1, <2>2, Rounds
  <2> QED
    BY <1>2, <2>3 DEF S
<1> QED
  BY <1>2, <1>7, <1>8, <1>9, <1>10

\* A set with the entry in it that no edge leaves has every reachable block.
LEMMA ReachableIsLeast ==
    ASSUME NEW g, IsGraph(g), NEW X, 1 \in X,
           \A b \in X \cap DOMAIN g : Targets(g, b) \subseteq X
    PROVE  ReachableAvoiding(g, {}) \subseteq X
<1>1. PICK h : AreReached(h, g, {})
  BY ReachedInRounds
<1> DEFINE L == Len(g)
           S == {i \in 0 .. L : h[i] \subseteq X}
<1>2. L \in Nat
  BY TargetTypes
<1>3. 0 \in S
  BY <1>1, <1>2 DEF AreReached
<1>4. ASSUME NEW i \in 1 .. L, i - 1 \in S PROVE i \in S
  <2>1. /\ h[i] = h[i - 1] \cup ((UNION {Targets(g, b) : b \in h[i - 1]}) \ {})
        /\ h[i - 1] \subseteq DOMAIN g
    BY <1>1, <1>2 DEF AreReached
  <2> QED
    BY <1>2, <1>4, <2>1
<1>5. L \in S
  <2> HIDE DEF S, L
  <2>1. \A i \in 0 .. L : i \in S
    BY <1>2, <1>3, <1>4, Rounds
  <2> QED
    BY <1>2, <2>1
<1> QED
  BY <1>1, <1>5 DEF AreReached

\* What dominates a block other than itself dominates its predecessors.
LEMMA DominatesPredecessors ==
    ASSUME NEW g, IsGraph(g), NEW d, NEW b \in DOMAIN g, NEW t \in Targets(g, b),
           Dominates(g, d, t), d # t
    PROVE  Dominates(g, d, b)
  BY ReachableIsClosed DEF Dominates

\* A block with one predecessor does not dominate it.
LEMMA OnlyPredecessorIsBefore ==
    ASSUME NEW g, IsGraph(g), ProperCFG(g), NEW b \in DOMAIN g, NEW t \in DOMAIN g,
           Preds(g, t) = {b}
    PROVE  ~Dominates(g, t, b)
<1> DEFINE X == ReachableAvoiding(g, {t})
<1> SUFFICES ASSUME b \notin X PROVE FALSE
  BY DEF Dominates
<1>1. t # 1
  BY DEF ProperCFG
<1>2. 1 \in X /\ X \subseteq DOMAIN g /\ \A c \in X : Targets(g, c) \ {t} \subseteq X
  BY <1>1, ReachableIsClosed
<1>3. \A c \in X : t \notin Targets(g, c)
  BY <1>2 DEF Preds
<1> HIDE DEF X
<1>4. \A c \in X \cap DOMAIN g : Targets(g, c) \subseteq X
  BY <1>2, <1>3
<1>5. ReachableAvoiding(g, {}) \subseteq X
  BY <1>2, <1>4, ReachableIsLeast
<1> QED
  BY <1>5 DEF ProperCFG, X

-----------------------------------------------------------------------------
(* Executing a list of copies *)

\* h has the contents after each of the copies
AreSteps(h, copies, contents) ==
    /\ DOMAIN h = 0 .. Len(copies)
    /\ h[0] = contents
    /\ \A n \in 1 .. Len(copies) : h[n] = Copied(copies[n], h[n - 1])

\* A list of copies can be executed.
LEMMA StepsExist ==
    ASSUME NEW copies \in Seq(Int \X Int), NEW contents
    PROVE  \E h : AreSteps(h, copies, contents)
<1> DEFINE L == Len(copies)
           Upto(h, k) == /\ DOMAIN h = 0 .. k /\ h[0] = contents
                         /\ \A n \in 1 .. k : h[n] = Copied(copies[n], h[n - 1])
           S == {k \in 0 .. L : \E h : Upto(h, k)}
<1>0. L \in Nat
  OBVIOUS
<1>1. 0 \in S
  <2> DEFINE h == [i \in 0 .. 0 |-> contents]
  <2>1. DOMAIN h = 0 .. 0 /\ h[0] = contents /\ 1 .. 0 = {}
    OBVIOUS
  <2>2. Upto(h, 0)
    BY <2>1
  <2> HIDE DEF h, Upto, L
  <2> QED
    BY <1>0, <2>2
<1>2. ASSUME NEW k \in 1 .. L, k - 1 \in S PROVE k \in S
  <2>1. PICK h : Upto(h, k - 1)
    BY <1>2
  <2> DEFINE g == [i \in 0 .. k |-> IF i = k THEN Copied(copies[k], h[k - 1]) ELSE h[i]]
  <2>2. DOMAIN g = 0 .. k /\ g[0] = contents
    BY <1>0, <2>1
  <2>3. ASSUME NEW n \in 1 .. k PROVE g[n] = Copied(copies[n], g[n - 1])
    <3>1. g[n - 1] = h[n - 1]
      BY <1>0
    <3>2. CASE n = k
      BY <3>1, <3>2
    <3>3. CASE n # k
      <4>1. n \in 1 .. (k - 1) /\ g[n] = h[n]
        BY <1>0, <3>3
      <4> QED
        BY <2>1, <3>1, <4>1
    <3> QED
      BY <3>2, <3>3
  <2> HIDE DEF g
  <2>4. Upto(g, k)
    BY <2>2, <2>3
  <2>5. k \in 0 .. L
    BY <1>0
  <2> HIDE DEF Upto, L
  <2> QED
    BY <2>4, <2>5
<1>3. L \in S
  <2> HIDE DEF S, L
  <2>1. \A k \in 0 .. L : k \in S
    BY <1>0, <1>1, <1>2, Rounds
  <2> QED
    BY <1>0, <2>1
<1> QED
  BY <1>3 DEF AreSteps

\* And the last of the steps is the outcome.
LEMMA ExecuteIsLast ==
    ASSUME NEW copies \in Seq(Int \X Int), NEW contents, NEW h, AreSteps(h, copies, contents)
    PROVE  Execute(copies, contents) = h[Len(copies)]
<1> DEFINE L == Len(copies)
           g[n \in 0 .. L] == IF n = 0 THEN contents ELSE Copied(copies[n], g[n - 1])
<1>0. L \in Nat
  OBVIOUS
<1>1. Execute(copies, contents) = g[L]
  BY DEF Execute
<1> DEFINE k == [n \in 0 .. L |-> h[n]]
<1>2. k = [n \in 0 .. L |-> IF n = 0 THEN contents ELSE Copied(copies[n], k[n - 1])]
  <2>1. \A n \in 0 .. L : h[n] = IF n = 0 THEN contents ELSE Copied(copies[n], k[n - 1])
    <3>1. \A n \in 1 .. L : k[n - 1] = h[n - 1]
      BY <1>0
    <3> HIDE DEF k, L
    <3> QED
      BY <1>0, <3>1 DEF AreSteps, L
  <2> HIDE DEF L
  <2>2. \A n \in 0 .. L : k[n] = IF n = 0 THEN contents ELSE Copied(copies[n], k[n - 1])
    BY <2>1
  <2>3. k = [n \in 0 .. L |-> k[n]]
    OBVIOUS
  <2> HIDE DEF k
  <2> QED
    BY <2>2, <2>3
<1>3. g = [n \in 0 .. L |-> IF n = 0 THEN contents ELSE Copied(copies[n], g[n - 1])]
  <2> HIDE DEF k
  <2> QED
    BY <1>2, Zenon
<1> HIDE DEF g
<1> DEFINE S == {i \in 0 .. L : g[i] = h[i]}
<1>4. 0 \in S
  BY <1>0, <1>3 DEF AreSteps
<1>5. ASSUME NEW i \in 1 .. L, i - 1 \in S PROVE i \in S
  <2>0. i \in 0 .. L /\ i # 0
    BY <1>0
  <2>1. g[i] = Copied(copies[i], g[i - 1]) /\ h[i] = Copied(copies[i], h[i - 1])
    BY <1>3, <2>0 DEF AreSteps
  <2> QED
    BY <1>5, <2>0, <2>1
<1>6. L \in S
  <2> HIDE DEF S, L
  <2>1. \A k1 \in 0 .. L : k1 \in S
    BY <1>0, <1>4, <1>5, Rounds
  <2> QED
    BY <1>0, <2>1
<1> QED
  BY <1>1, <1>6

\* No copies change nothing, and one more copy is executed after the others.
LEMMA ExecuteAppend ==
    ASSUME NEW copies \in Seq(Int \X Int), NEW copy \in Int \X Int, NEW contents
    PROVE  /\ Execute(<<>>, contents) = contents
           /\ Execute(Append(copies, copy), contents) = Copied(copy, Execute(copies, contents))
<1> DEFINE L == Len(copies)
           longer == Append(copies, copy)
<1>0. L \in Nat /\ longer \in Seq(Int \X Int) /\ Len(longer) = L + 1
  OBVIOUS
<1>1. PICK e : AreSteps(e, <<>>, contents)
  <2>1. <<>> \in Seq(Int \X Int)
    OBVIOUS
  <2> QED
    BY <2>1, StepsExist
<1>2. Execute(<<>>, contents) = contents
  <2>1. <<>> \in Seq(Int \X Int) /\ Len(<<>>) = 0
    OBVIOUS
  <2>2. Execute(<<>>, contents) = e[Len(<<>>)]
    BY <1>1, <2>1, ExecuteIsLast
  <2> QED
    BY <1>1, <2>1, <2>2 DEF AreSteps
<1>3. PICK h : AreSteps(h, longer, contents)
  <2> HIDE DEF longer
  <2> QED
    BY <1>0, StepsExist
<1>4. \A n \in 1 .. L : longer[n] = copies[n]
  OBVIOUS
<1>5. longer[L + 1] = copy
  OBVIOUS
<1> DEFINE k == [n \in 0 .. L |-> h[n]]
<1>6. AreSteps(k, copies, contents)
  <2>1. \A n \in 1 .. L : n \in 1 .. L + 1 /\ n - 1 \in 0 .. L /\ n \in 0 .. L
    BY <1>0
  <2>2. k[0] = h[0] /\ \A n \in 1 .. L : k[n] = h[n] /\ k[n - 1] = h[n - 1]
    BY <1>0, <2>1
  <2>3. h[0] = contents /\ \A n \in 1 .. L : h[n] = Copied(longer[n], h[n - 1])
    <3> HIDE DEF longer, L
    <3> QED
      BY <1>0, <1>3, <2>1 DEF AreSteps
  <2>4. DOMAIN k = 0 .. L
    OBVIOUS
  <2> HIDE DEF k, longer
  <2> QED
    BY <1>4, <2>2, <2>3, <2>4 DEF AreSteps
<1>7. Execute(copies, contents) = h[L]
  <2>1. k[L] = h[L]
    BY <1>0
  <2> HIDE DEF k
  <2> QED
    BY <1>6, <2>1, ExecuteIsLast
<1>8. Execute(longer, contents) = h[L + 1]
  <2> HIDE DEF longer, L
  <2> QED
    BY <1>0, <1>3, ExecuteIsLast
<1>9. h[L + 1] = Copied(copy, h[L])
  <2>1. L + 1 \in 1 .. L + 1 /\ (L + 1) - 1 = L
    BY <1>0
  <2> HIDE DEF longer, L
  <2> QED
    BY <1>0, <1>3, <1>5, <2>1 DEF AreSteps
<1> QED
  BY <1>2, <1>7, <1>8, <1>9

-----------------------------------------------------------------------------
(* The inductive invariant *)

PCP == INSTANCE ParallelCopyProofs WITH MaxRoot <- NPhis, Others <- Consts

\* What execution works on: values, and what some locations contain, all the
\* roots among them
Values == Consts \cup {0}
Contents == {c \in UNION {[S -> Values] : S \in SUBSET Int} : Phis \subseteq DOMAIN c}

\* The edges of the program: a block, and which of its successors
Edges == {e \in Blocks \X {1, 2} : e[2] \in DOMAIN cfg[e[1]]}
Target(e) == cfg[e[1]][e[2]]

\* Where the edge leads once split, and the block that is given its copies
LeadsTo(e) == succ[e[1]][e[2]]
Carrier(e) == IF LeadsTo(e) \in Blocks THEN e[1] ELSE LeadsTo(e)

\* The copies of block c do what the edge out of it owes, and no more
Performs(copies, c) ==
    \A contents \in Contents :
        /\ Execute(copies, contents) \in Contents
        /\ \A p \in Phis :
              Execute(copies, contents)[p] =
                 IF c \in DOMAIN incoming[p] THEN ValueOf(incoming[p][c], contents)
                                             ELSE contents[p]

\* The copies so far leave what the parallel copy's own model says they do
Tracks(copies, m) ==
    \A contents \in Contents :
        /\ Execute(copies, contents) \in Contents
        /\ \A l \in DOMAIN m :
              /\ l \in Consts \cup DOMAIN Execute(copies, contents)
              /\ ValueOf(l, Execute(copies, contents)) = ValueOf(m[l], contents)

ProgramOK ==
    /\ cfg \in CFGs /\ ProperCFG(cfg)
    /\ homeOf \in [Phis -> Blocks \ {1}]
    /\ \A p \in Phis : operands[p] \in [Preds(cfg, homeOf[p]) -> Sources]
    /\ StrictSSA

\* An edge leads where it did or into a bridge of its own
EdgesOK ==
    /\ succ \in Seq(Seq(Nat)) /\ Len(cfg) <= Len(succ)
    /\ \A b \in Blocks : DOMAIN succ[b] = DOMAIN cfg[b]
    /\ \A e \in Edges : LeadsTo(e) = Target(e) \/ LeadsTo(e) \in Len(cfg) + 1 .. Len(succ)
    /\ \A e1, e2 \in Edges : LeadsTo(e1) = LeadsTo(e2) /\ LeadsTo(e1) \notin Blocks => e1 = e2

\* The phis name the carriers of the edges into their block
OperandsOK ==
    /\ DOMAIN incoming = Phis
    /\ \A p \in Phis :
          /\ DOMAIN incoming[p] = {Carrier(e) : e \in {x \in Edges : Target(x) = homeOf[p]}}
          /\ \A e \in Edges :
                Target(e) = homeOf[p] => incoming[p][Carrier(e)] = operands[p][e[1]]

\* While edges are split the stored lists may have grown but never shrink; and
\* the edges left whole are then not critical
CountsOK ==
    /\ phase = "split" =>
          /\ predCount \in [DOMAIN succ -> Nat]
          /\ \A b \in Blocks : Cardinality(Preds(cfg, b)) <= predCount[b]
          /\ \A b \in DOMAIN succ \ Blocks : predCount[b] = 0
    /\ phase # "split" =>
          \A e \in Edges : Len(cfg[e[1]]) >= 2 /\ LeadsTo(e) \in Blocks =>
                              Preds(cfg, Target(e)) = {e[1]}

Copies == Seq(Int \X Int)

CodeOK ==
    /\ code \in Seq(Copies) /\ Len(code) = Len(succ)
    /\ current \in 0 .. Len(succ)
    /\ phase = "split" => current = 0
    /\ current = 0 => pending = {}
    /\ \A c \in DOMAIN succ : c > current => code[c] = <<>>
    /\ \A c \in DOMAIN succ : c < current => Performs(code[c], c)
    /\ phase = "copies" /\ current # 0 => wanted = Owed(current) /\ Tracks(code[current], mem)
    /\ phase \in {"block", "branch"} => \A c \in DOMAIN succ : Performs(code[c], c)

\* Wherever execution stands, the locations hold what they should: before the
\* branch those of the phis the copies of this block assign are ahead of them
RunOK ==
    /\ phase \in {"split", "copies", "block", "branch"}
    /\ at \in Blocks /\ env \in [Phis -> Values] /\ loc \in Contents
    /\ \A p \in Phis :
          IF phase = "branch" /\ at \in DOMAIN incoming[p]
            THEN loc[p] = ValueOf(operands[p][at], env)
            ELSE Defined(p, at) => loc[p] = env[p]

IInv ==
    /\ ProgramOK /\ EdgesOK /\ OperandsOK /\ CountsOK
    /\ PCP!IInv /\ CodeOK /\ RunOK

-----------------------------------------------------------------------------
\* The module of the parallel copy is used as it is.
LEMMA LocationsAreNumbered == PCP!LocationAssumption
  BY SSAAssumption DEF PCP!LocationAssumption

\* What it proves of its steps holds of the steps here.
LEMMA CopyingStep ==
    PCP!IInv /\ (PC!Emit \/ PC!Save \/ UNCHANGED copying) => PCP!IInv'
<1>1. PC!Emit <=> PCP!Emit
  BY DEF PC!Emit, PCP!Emit, PC!Ready, PCP!Ready
<1>2. PC!Save <=> PCP!Save
  BY DEF PC!Save, PCP!Save, PC!Ready, PCP!Ready, PC!Redirected, PCP!Redirected,
         PC!Assigned, PCP!Assigned
<1>3. UNCHANGED copying => UNCHANGED PCP!vars
  BY DEF copying, PCP!vars
<1>4. PCP!IInv /\ [PCP!Next]_PCP!vars => PCP!IInv'
  BY LocationsAreNumbered, PCP!NextIInv DEF PCP!NextIInv
<1> QED
  BY <1>1, <1>2, <1>3, <1>4 DEF PCP!Next

\* And of what it starts from.
LEMMA CopyingStart ==
    PCP!Init => PCP!IInv
  BY LocationsAreNumbered, PCP!InitIInv DEF PCP!InitIInv

\* The program is a graph.
LEMMA ProgramIsGraph ==
    ASSUME ProgramOK
    PROVE  /\ IsGraph(cfg) /\ Len(cfg) \in Nat /\ Blocks = 1 .. Len(cfg) /\ 1 \in Blocks
           /\ \A b \in Blocks : cfg[b] \in Seq(Blocks) /\ Len(cfg[b]) <= 2 /\ IsInjective(cfg[b])
           /\ \A e \in Edges : /\ e[1] \in Blocks /\ e[2] \in {1, 2} /\ Target(e) \in Blocks
                               /\ e[1] \in Preds(cfg, Target(e))
                               /\ e = <<e[1], e[2]>>
<1>1. IsGraph(cfg)
  BY SSAAssumption DEF ProgramOK, IsGraph
<1>2. Len(cfg) \in Nat /\ Blocks = 1 .. Len(cfg) /\ 1 \in Blocks
  BY <1>1, TargetTypes DEF Blocks
<1>3. ASSUME NEW b \in Blocks
      PROVE  cfg[b] \in Seq(Blocks) /\ Len(cfg[b]) <= 2 /\ IsInjective(cfg[b])
  BY <1>1, <1>2 DEF IsGraph, ProgramOK, ProperCFG, Blocks
<1>4. ASSUME NEW e \in Edges
      PROVE  /\ e[1] \in Blocks /\ e[2] \in {1, 2} /\ Target(e) \in Blocks
             /\ e[1] \in Preds(cfg, Target(e)) /\ e = <<e[1], e[2]>>
  <2>1. e[1] \in Blocks /\ e[2] \in {1, 2} /\ e[2] \in DOMAIN cfg[e[1]] /\ e = <<e[1], e[2]>>
    BY DEF Edges
  <2>2. Target(e) \in Blocks
    BY <1>3, <2>1 DEF Target
  <2>3. Target(e) \in Targets(cfg, e[1])
    BY <2>1 DEF Target, Targets
  <2> QED
    BY <2>1, <2>2, <2>3 DEF Preds, Blocks
<1> QED
  BY <1>1, <1>2, <1>3, <1>4

\* Every way into a block is an edge.
LEMMA PredsAreEdges ==
    ASSUME ProgramOK, NEW t, NEW b \in Preds(cfg, t)
    PROVE  \E e \in Edges : e[1] = b /\ Target(e) = t
<1>1. b \in Blocks /\ t \in Targets(cfg, b)
  BY DEF Preds, Blocks
<1>2. PICK i \in DOMAIN cfg[b] : cfg[b][i] = t
  BY <1>1 DEF Targets
<1>3. cfg[b] \in Seq(Blocks) /\ Len(cfg[b]) <= 2
  BY <1>1, ProgramIsGraph
<1>4. i \in {1, 2}
  BY <1>2, <1>3
<1>5. <<b, i>> \in Edges /\ Target(<<b, i>>) = t
  BY <1>1, <1>2, <1>4 DEF Edges, Target
<1> QED
  BY <1>5

\* The invariant holds of what destroySSA is given.
LEMMA InitIInv == Init => IInv
<1> SUFFICES ASSUME Init PROVE IInv
  OBVIOUS
<1>1. ProgramOK
  <2>1. homeOf \in [Phis -> Blocks \ {1}]
    <3>1. IsGraph(cfg)
      BY SSAAssumption DEF Init, IsGraph
    <3>2. \A n \in 2 .. Len(cfg) : n \in Blocks \ {1}
      BY <3>1, TargetTypes DEF Blocks
    <3> QED
      BY <3>2 DEF Init
  <2>2. \A p \in Phis : operands[p] \in [Preds(cfg, homeOf[p]) -> Sources]
    <3>1. ASSUME NEW p \in Phis PROVE operands[p] \in [Preds(cfg, homeOf[p]) -> Sources]
      <4>1. DOMAIN operands[p] = Preds(cfg, homeOf[p])
        BY DEF Init, StrictSSA
      <4>2. PICK q \in Phis : operands[p] \in [Preds(cfg, homeOf[q]) -> Sources]
        BY DEF Init
      <4> QED
        BY <4>1, <4>2
    <3> QED
      BY <3>1
  <2> QED
    BY <2>1, <2>2 DEF Init, ProgramOK
<1>2. /\ Len(cfg) \in Nat /\ Blocks = 1 .. Len(cfg) /\ 1 \in Blocks
      /\ \A b \in Blocks : cfg[b] \in Seq(Blocks)
      /\ \A e \in Edges : e[1] \in Blocks /\ Target(e) \in Blocks /\ e[1] \in Preds(cfg, Target(e))
  BY <1>1, ProgramIsGraph
<1>3. \A e \in Edges : LeadsTo(e) = Target(e) /\ Carrier(e) = e[1]
  BY <1>2 DEF Init, LeadsTo, Target, Carrier
<1>4. EdgesOK
  <2>1. cfg \in Seq(Seq(Nat))
    <3>1. \A b \in Blocks : cfg[b] \in Seq(Nat)
      BY <1>2
    <3> DEFINE T == Seq(Nat)
               L == Len(cfg)
    <3>2. cfg \in [1 .. L -> T] /\ L \in Nat
      BY <1>1, <1>2, <3>1, ProgramIsGraph DEF IsGraph
    <3> HIDE DEF T, L
    <3>3. cfg \in Seq(T)
      BY <3>2
    <3> QED
      BY <3>3 DEF T
  <2>2. \A e1, e2 \in Edges : LeadsTo(e1) = LeadsTo(e2) /\ LeadsTo(e1) \notin Blocks => e1 = e2
    BY <1>2, <1>3
  <2> QED
    BY <1>2, <1>3, <2>1, <2>2 DEF Init, EdgesOK
<1>5. OperandsOK
  <2>1. ASSUME NEW p \in Phis
        PROVE  DOMAIN incoming[p] = {Carrier(e) : e \in {x \in Edges : Target(x) = homeOf[p]}}
    <3>1. DOMAIN incoming[p] = Preds(cfg, homeOf[p])
      BY <1>1 DEF Init, ProgramOK
    <3>2. \A b \in Preds(cfg, homeOf[p]) : \E e \in Edges : e[1] = b /\ Target(e) = homeOf[p]
      BY <1>1, PredsAreEdges
    <3> QED
      BY <1>2, <1>3, <3>1, <3>2
  <2> QED
    BY <1>3, <2>1 DEF Init, OperandsOK
<1>6. CountsOK
  <2>1. \A b \in Blocks : Preds(cfg, b) \subseteq Blocks
    BY DEF Preds, Blocks
  <2>2. \A b \in Blocks : Cardinality(Preds(cfg, b)) \in Nat
    <3>1. IsFiniteSet(Blocks)
      BY <1>2, FS_Interval
    <3> QED
      BY <2>1, <3>1, FS_Subset, FS_CardinalityType
  <2>3. succ = cfg /\ predCount = [b \in Blocks |-> Cardinality(Preds(cfg, b))] /\ phase = "split"
    BY DEF Init
  <2> QED
    BY <2>2, <2>3 DEF CountsOK, Blocks
<1>7. PCP!IInv
  <2>1. wanted = <<>> /\ pending = {} /\ source = <<>> /\ temps = 0 /\ mem = [l \in Sources |-> l]
    BY DEF Init
  <2>2. DOMAIN wanted = {} /\ wanted = [x \in {} |-> x] /\ source = wanted
    BY <2>1
  <2>3. wanted \in [{} -> PCP!Locations]
    BY <2>2
  <2>4. wanted \in UNION {[S -> PCP!Locations] : S \in SUBSET PCP!Roots}
    BY <2>3
  <2>5. PCP!Init
    BY <2>1, <2>2, <2>4 DEF PCP!Init, PCP!Locations, PCP!Roots, Sources, Phis
  <2> QED
    BY <2>5, CopyingStart
<1>8. CodeOK
  <2>1. DOMAIN succ = 1 .. Len(cfg) /\ Len(succ) = Len(cfg)
    BY <1>2 DEF Init, Blocks
  <2>2. \A c \in DOMAIN succ : code[c] = <<>>
    BY <1>2, <2>1 DEF Init
  <2>3. <<>> \in Copies
    BY DEF Copies
  <2>4. code \in Seq(Copies) /\ Len(code) = Len(succ)
    <3>1. code = [b \in 1 .. Len(cfg) |-> <<>>]
      BY <1>2 DEF Init
    <3> QED
      BY <1>2, <2>1, <2>3, <3>1
  <2>5. phase = "split" /\ current = 0 /\ pending = {}
    BY DEF Init
  <2>6. \A c \in DOMAIN succ : ~(c < current)
    BY <1>2, <2>1, <2>5
  <2>7. current \in 0 .. Len(succ)
    BY <1>2, <2>1, <2>5
  <2>8. phase # "copies" /\ phase \notin {"block", "branch"}
    BY <2>5
  <2> QED
    BY <2>2, <2>4, <2>5, <2>6, <2>7, <2>8 DEF CodeOK
<1>9. RunOK
  <2>1. env \in [Phis -> Values]
    <3>1. (CHOOSE c \in Consts : TRUE) \in Consts
      BY SSAAssumption
    <3> QED
      BY <3>1 DEF Init, Values
  <2>2. loc \in Contents
    <3>1. Phis \subseteq Int /\ DOMAIN loc = Phis /\ loc \in [Phis -> Values]
      BY SSAAssumption DEF Init, Phis, Values
    <3> QED
      BY <3>1 DEF Contents
  <2>3. \A p \in Phis : ~Defined(p, 1)
    <3>1. IsGraph(cfg) /\ \A p \in Phis : homeOf[p] # 1
      BY <1>1, ProgramIsGraph DEF ProgramOK
    <3> QED
      BY <3>1, ReachableIsClosed DEF Defined, Dominates
  <2> QED
    BY <1>2, <2>1, <2>2, <2>3 DEF Init, RunOK
<1> QED
  BY <1>1, <1>4, <1>5, <1>6, <1>7, <1>8, <1>9 DEF IInv

\* Splitting an edge: its copies move to a bridge nobody else uses.
LEMMA SplitEdgeIInv == IInv /\ SplitEdge => IInv'
<1> SUFFICES ASSUME IInv, SplitEdge PROVE IInv'
  OBVIOUS
<1>1. PICK s \in CriticalEdges :
         /\ succ' = Append([succ EXCEPT ![s[1]][s[2]] = Len(succ) + 1], <<succ[s[1]][s[2]]>>)
         /\ predCount' = Append([predCount EXCEPT ![succ[s[1]][s[2]]] = @ + 1], 0)
         /\ incoming' = Rename(succ[s[1]][s[2]], s[1], Len(succ) + 1)
         /\ code' = Append(code, <<>>)
  BY DEF SplitEdge
<1>2. /\ phase = "split" /\ phase' = "split"
      /\ UNCHANGED program /\ UNCHANGED current /\ UNCHANGED copying /\ UNCHANGED running
  BY DEF SplitEdge
<1> DEFINE t == Target(s)
           bridge == Len(succ) + 1
<1>3. /\ IsGraph(cfg) /\ Len(cfg) \in Nat /\ Blocks = 1 .. Len(cfg)
      /\ \A b \in Blocks : cfg[b] \in Seq(Blocks) /\ Len(cfg[b]) <= 2 /\ IsInjective(cfg[b])
      /\ \A e \in Edges : /\ e[1] \in Blocks /\ Target(e) \in Blocks
                          /\ e[2] \in DOMAIN cfg[e[1]] /\ e = <<e[1], e[2]>>
  BY ProgramIsGraph DEF IInv, Edges
<1>4. /\ succ \in Seq(Seq(Nat)) /\ Len(succ) \in Nat /\ DOMAIN succ = 1 .. Len(succ)
      /\ Len(cfg) <= Len(succ) /\ Blocks \subseteq DOMAIN succ
      /\ bridge \notin DOMAIN succ /\ bridge \notin Blocks /\ bridge \in Nat
  BY <1>3 DEF IInv, EdgesOK
<1>5. /\ \A b \in Blocks : DOMAIN succ[b] = DOMAIN cfg[b]
      /\ \A e \in Edges : LeadsTo(e) = Target(e) \/ LeadsTo(e) \in Len(cfg) + 1 .. Len(succ)
      /\ \A e1, e2 \in Edges : LeadsTo(e1) = LeadsTo(e2) /\ LeadsTo(e1) \notin Blocks => e1 = e2
  BY DEF IInv, EdgesOK
<1>6. /\ predCount \in [DOMAIN succ -> Nat]
      /\ \A b \in Blocks : Cardinality(Preds(cfg, b)) <= predCount[b]
      /\ \A b \in DOMAIN succ \ Blocks : predCount[b] = 0
  BY <1>2 DEF IInv, CountsOK
<1>7. s \in Edges /\ predCount[LeadsTo(s)] >= 2 /\ succ[s[1]][s[2]] = LeadsTo(s)
  BY <1>5, <1>1 DEF CriticalEdges, Critical, Edges, LeadsTo
<1>8. LeadsTo(s) = t /\ t \in Blocks /\ Carrier(s) = s[1]
  <2>1. LeadsTo(s) \in DOMAIN succ
    <3>1. s \in Edges /\ Target(s) \in DOMAIN succ
      BY <1>3, <1>4, <1>7
    <3>2. LeadsTo(s) = Target(s) \/ LeadsTo(s) \in Len(cfg) + 1 .. Len(succ)
      BY <1>5, <3>1
    <3>3. Len(cfg) + 1 .. Len(succ) \subseteq DOMAIN succ
      BY <1>3, <1>4
    <3> QED
      BY <3>1, <3>2, <3>3
  <2>2. LeadsTo(s) \in Blocks
    BY <1>6, <1>7, <2>1
  <2>3. LeadsTo(s) \notin Len(cfg) + 1 .. Len(succ)
    BY <1>3, <1>4, <2>2
  <2> QED
    BY <1>5, <1>7, <2>2, <2>3 DEF Carrier
<1>9. /\ cfg' = cfg /\ homeOf' = homeOf /\ operands' = operands /\ current' = current
      /\ Blocks' = Blocks /\ Edges' = Edges /\ \A e : Target(e)' = Target(e)
  BY <1>2 DEF program, Blocks, Edges, Target
<1> HIDE DEF t
<1>10. /\ \A e \in Edges : e # s => LeadsTo(e)' = LeadsTo(e) /\ Carrier(e)' = Carrier(e)
       /\ LeadsTo(s)' = bridge /\ Carrier(s)' = bridge
       /\ \A b \in Blocks : DOMAIN succ'[b] = DOMAIN succ[b]
  <2> DEFINE new == [succ EXCEPT ![s[1]][s[2]] = bridge]
  <2>0. s[1] \in DOMAIN succ /\ s[2] \in DOMAIN succ[s[1]] /\ s[1] \in Blocks
    BY <1>3, <1>4, <1>5, <1>7
  <2>1. /\ new \in Seq(Seq(Nat)) /\ Len(new) = Len(succ)
        /\ new[s[1]][s[2]] = bridge
        /\ \A b \in DOMAIN succ : DOMAIN new[b] = DOMAIN succ[b]
        /\ \A c \in DOMAIN succ : \A j \in DOMAIN succ[c] :
              c # s[1] \/ j # s[2] => new[c][j] = succ[c][j]
    <3>1. PICK q \in Seq(Seq(Nat)), v \in Nat : q = succ /\ v = bridge
      BY <1>4
    <3>a. PICK b \in DOMAIN q : b = s[1]
      BY <2>0, <3>1
    <3>2. PICK i \in DOMAIN q[b] : b = s[1] /\ i = s[2]
      BY <2>0, <3>1, <3>a
    <3> DEFINE new2 == [q EXCEPT ![b][i] = v]
    <3>3. new = new2
      BY <3>1, <3>2
    <3>4. /\ new2 \in Seq(Seq(Nat)) /\ Len(new2) = Len(q) /\ new2[b][i] = v
          /\ \A c \in DOMAIN q : DOMAIN new2[c] = DOMAIN q[c]
          /\ \A c \in DOMAIN q : \A j \in DOMAIN q[c] :
                c # b \/ j # i => new2[c][j] = q[c][j]
      BY ReplacedInside
    <3> HIDE DEF new, new2
    <3> QED
      BY <3>1, <3>2, <3>3, <3>4
  <2>2. \A b \in Blocks : succ'[b] = new[b]
    <3>1. succ' = Append(new, <<t>>) /\ <<t>> \in Seq(Nat)
      BY <1>1, <1>3, <1>7, <1>8
    <3>2. DOMAIN new = DOMAIN succ
      BY <1>4, <2>1
    <3> HIDE DEF new
    <3> QED
      BY <1>4, <2>1, <3>1, <3>2, Appended
  <2>3. \A b \in Blocks : DOMAIN new[b] = DOMAIN succ[b]
    BY <1>4, <2>1
  <2>4. new[s[1]][s[2]] = bridge
    BY <2>1
  <2> HIDE DEF new, bridge
  <2>5. \A e \in Edges : e # s => new[e[1]][e[2]] = succ[e[1]][e[2]]
    <3> SUFFICES ASSUME NEW e \in Edges, e # s PROVE new[e[1]][e[2]] = succ[e[1]][e[2]]
      OBVIOUS
    <3>1. e[1] # s[1] \/ e[2] # s[2]
      BY <1>3, <1>7
    <3>2. e[1] \in DOMAIN succ /\ e[2] \in DOMAIN succ[e[1]]
      BY <1>3, <1>4, <1>5
    <3> QED
      BY <2>1, <3>1, <3>2
  <2>6. \A e \in Edges : e # s => LeadsTo(e)' = LeadsTo(e)
    <3>1. \A e \in Edges : succ'[e[1]] = new[e[1]]
      BY <1>3, <2>2
    <3> QED
      BY <2>5, <3>1 DEF LeadsTo
  <2>7. LeadsTo(s)' = bridge
    BY <1>3, <1>7, <2>2, <2>4 DEF LeadsTo
  <2> QED
    BY <1>4, <1>9, <2>2, <2>3, <2>6, <2>7 DEF Carrier
<1>11. succ' \in Seq(Seq(Nat)) /\ Len(succ') = bridge /\ DOMAIN succ' = DOMAIN succ \cup {bridge}
  <2> DEFINE T == Seq(Nat)
             new == [succ EXCEPT ![s[1]][s[2]] = bridge]
  <2>0. s[1] \in DOMAIN succ /\ s[2] \in DOMAIN succ[s[1]]
    BY <1>3, <1>4, <1>5, <1>7
  <2>1. new \in Seq(T) /\ Len(new) = Len(succ)
    <3> HIDE DEF bridge
    <3> QED
      BY <1>4, <2>0, ReplacedInside, SMTT(30)
  <2>2. <<t>> \in T /\ succ' = Append(new, <<t>>)
    BY <1>1, <1>3, <1>7, <1>8
  <2> HIDE DEF T, new
  <2>3. /\ succ' \in Seq(T) /\ Len(succ') = Len(new) + 1
        /\ DOMAIN succ' = DOMAIN new \cup {Len(new) + 1} /\ DOMAIN new = 1 .. Len(new)
    BY <2>1, <2>2, Appended
  <2> QED
    BY <1>4, <2>1, <2>3 DEF T
<1>12. ProgramOK'
  BY <1>9 DEF IInv, ProgramOK, StrictSSA
<1>13. EdgesOK'
  <2>1. Len(cfg) <= bridge
    BY <1>3, <1>4
  <2>2. ASSUME NEW e \in Edges
        PROVE  LeadsTo(e)' = Target(e) \/ LeadsTo(e)' \in Len(cfg) + 1 .. bridge
    <3>1. CASE e = s
      BY <1>3, <1>4, <1>10, <3>1
    <3>2. CASE e # s
      BY <1>3, <1>4, <1>5, <1>10, <3>2
    <3> QED
      BY <3>1, <3>2
  <2>3. \A e \in Edges : LeadsTo(e) # bridge
    BY <1>3, <1>4, <1>5
  <2>4. ASSUME NEW e1 \in Edges, NEW e2 \in Edges, LeadsTo(e1)' = LeadsTo(e2)',
               LeadsTo(e1)' \notin Blocks
        PROVE  e1 = e2
    <3> HIDE DEF bridge
    <3> QED
      BY <1>5, <1>10, <2>3, <2>4
  <2> HIDE DEF bridge
  <2>5. \A e1, e2 \in Edges' :
           LeadsTo(e1)' = LeadsTo(e2)' /\ LeadsTo(e1)' \notin Blocks' => e1 = e2
    BY <1>9, <2>4
  <2>6. \A e \in Edges' : LeadsTo(e)' = Target(e)' \/ LeadsTo(e)' \in Len(cfg') + 1 .. Len(succ')
    BY <1>9, <1>11, <2>2
  <2>7. \A b \in Blocks' : DOMAIN succ'[b] = DOMAIN cfg'[b]
    BY <1>5, <1>9, <1>10
  <2> QED
    BY <1>9, <1>11, <2>1, <2>5, <2>6, <2>7 DEF EdgesOK
<1>14. OperandsOK'
  <2>1. incoming' = Rename(t, s[1], bridge)
    BY <1>1, <1>7, <1>8
  <2>2. /\ DOMAIN incoming = Phis /\ DOMAIN incoming' = Phis
        /\ \A p \in Phis :
              /\ DOMAIN incoming[p] = {Carrier(e) : e \in {x \in Edges : Target(x) = homeOf[p]}}
              /\ \A e \in Edges : Target(e) = homeOf[p] =>
                                     incoming[p][Carrier(e)] = operands[p][e[1]]
    BY <2>1 DEF IInv, OperandsOK, Rename
  <2>3. ASSUME NEW e \in Edges PROVE Carrier(e) # bridge
    BY <1>3, <1>4, <1>5 DEF Carrier
  <2>4. ASSUME NEW e \in Edges, Target(e) = t, Carrier(e) = s[1] PROVE e = s
    <3>1. LeadsTo(e) \in Blocks /\ e[1] = s[1]
      BY <1>3, <1>7, <2>4 DEF Carrier
    <3>2. cfg[s[1]][e[2]] = cfg[s[1]][s[2]] /\ e[2] \in DOMAIN cfg[s[1]] /\ s[2] \in DOMAIN cfg[s[1]]
      BY <1>3, <1>7, <2>4, <3>1 DEF Target, t
    <3>3. e[2] = s[2]
      BY <1>3, <1>7, <3>2 DEF IsInjective
    <3> QED
      BY <1>3, <1>7, <3>1, <3>3
  <2> HIDE DEF bridge
  <2>5. ASSUME NEW p \in Phis
        PROVE  /\ DOMAIN incoming'[p] = {Carrier(e)' : e \in {x \in Edges : Target(x) = homeOf[p]}}
               /\ \A e \in Edges : Target(e) = homeOf[p] =>
                                      incoming'[p][Carrier(e)'] = operands[p][e[1]]
    <3>1. CASE homeOf[p] # t
      <4>1. incoming'[p] = incoming[p]
        BY <2>1, <3>1 DEF Rename
      <4>2. \A e \in Edges : Target(e) = homeOf[p] => e # s
        BY <3>1 DEF t
      <4>3. \A e \in {x \in Edges : Target(x) = homeOf[p]} : Carrier(e)' = Carrier(e)
        BY <1>10, <4>2
      <4> QED
        BY <2>2, <4>1, <4>3
    <3>2. CASE homeOf[p] = t
      <4>1. s[1] \in DOMAIN incoming[p]
        BY <1>7, <1>8, <2>2, <3>2 DEF t
      <4>2. incoming'[p] = [b \in (DOMAIN incoming[p] \ {s[1]}) \cup {bridge} |->
                              IF b = bridge THEN incoming[p][s[1]] ELSE incoming[p][b]]
        BY <2>1, <3>2, <4>1 DEF Rename
      <4>3. \A e \in Edges : Target(e) = t => Carrier(e)' = IF e = s THEN bridge ELSE Carrier(e)
        BY <1>10
      <4>4. \A e \in Edges : Target(e) = t => (Carrier(e) = s[1] <=> e = s)
        BY <1>8, <2>4
      <4>5. DOMAIN incoming'[p] = {Carrier(e)' : e \in {x \in Edges : Target(x) = homeOf[p]}}
        <5>1. ASSUME NEW c
              PROVE  c \in DOMAIN incoming'[p] <=>
                        \E e \in Edges : Target(e) = t /\ c = Carrier(e)'
          <6>1. c \in DOMAIN incoming'[p] <=> (c \in DOMAIN incoming[p] /\ c # s[1]) \/ c = bridge
            BY <4>2
          <6>2. c \in DOMAIN incoming[p] <=> \E e \in Edges : Target(e) = t /\ c = Carrier(e)
            BY <2>2, <3>2
          <6>3. s \in Edges /\ Target(s) = t
            BY <1>7 DEF t
          <6> QED
            BY <4>3, <4>4, <6>1, <6>2, <6>3
        <5> QED
          BY <3>2, <5>1
      <4>6. ASSUME NEW e \in Edges, Target(e) = homeOf[p]
            PROVE  incoming'[p][Carrier(e)'] = operands[p][e[1]]
        <5>1. CASE e = s
          BY <1>8, <2>2, <4>2, <4>3, <4>6, <3>2, <5>1
        <5>2. CASE e # s
          <6>1. Carrier(e) \in DOMAIN incoming[p] /\ Carrier(e) # s[1] /\ Carrier(e) # bridge
            BY <2>2, <2>3, <3>2, <4>4, <4>6, <5>2
          <6>2. Carrier(e)' = Carrier(e)
            BY <3>2, <4>3, <4>6, <5>2
          <6> QED
            BY <2>2, <4>2, <4>6, <6>1, <6>2
        <5> QED
          BY <5>1, <5>2
      <4> QED
        BY <4>5, <4>6
    <3> QED
      BY <3>1, <3>2
  <2> QED
    BY <1>9, <2>2, <2>5 DEF OperandsOK
<1>15. CountsOK'
  <2> DEFINE new == [predCount EXCEPT ![t] = @ + 1]
  <2>1. predCount' = Append(new, 0)
    BY <1>1, <1>7, <1>8
  <2>2. /\ new \in [DOMAIN succ -> Nat]
        /\ \A b \in DOMAIN succ : new[b] >= predCount[b] /\ (b \notin Blocks => new[b] = predCount[b])
    <3>1. t \in DOMAIN succ /\ predCount[t] \in Nat
      BY <1>4, <1>6, <1>8
    <3>2. predCount[t] + 1 \in Nat /\ predCount[t] + 1 >= predCount[t]
      BY <3>1
    <3>3. \A b \in DOMAIN succ : predCount[b] \in Nat /\ predCount[b] >= predCount[b]
      BY <1>6
    <3>4. \A b \in DOMAIN succ : new[b] = IF b = t THEN predCount[t] + 1 ELSE predCount[b]
      BY <1>6
    <3>5. new \in [DOMAIN succ -> Nat]
      BY <1>6, <3>2
    <3> HIDE DEF new
    <3> QED
      BY <1>8, <3>2, <3>3, <3>4, <3>5
  <2> HIDE DEF new
  <2>3. new \in Seq(Nat) /\ Len(new) = Len(succ)
    <3> DEFINE n == Len(succ)
    <3>1. n \in Nat /\ new \in [1 .. n -> Nat]
      BY <1>4, <2>2
    <3> HIDE DEF n
    <3>2. new \in Seq(Nat) /\ Len(new) = n
      BY <3>1
    <3> QED
      BY <3>2 DEF n
  <2>4. /\ predCount' \in Seq(Nat) /\ DOMAIN predCount' = DOMAIN succ \cup {bridge}
        /\ \A b \in DOMAIN succ : predCount'[b] = new[b]
        /\ predCount'[bridge] = 0
    BY <1>4, <2>1, <2>2, <2>3, Appended
  <2>5. \A b \in Blocks : Cardinality(Preds(cfg, b)) \in Nat
    <3>1. IsFiniteSet(Blocks)
      BY <1>3, FS_Interval
    <3>2. \A b \in Blocks : Preds(cfg, b) \subseteq Blocks
      BY DEF Preds, Blocks
    <3> QED
      BY <3>1, <3>2, FS_Subset, FS_CardinalityType
  <2>6. ASSUME NEW b \in Blocks PROVE Cardinality(Preds(cfg, b)) <= predCount'[b]
    <3>1. /\ Cardinality(Preds(cfg, b)) <= predCount[b] /\ Cardinality(Preds(cfg, b)) \in Nat
          /\ predCount[b] \in Nat /\ new[b] \in Nat /\ predCount[b] <= new[b]
          /\ predCount'[b] = new[b]
      BY <1>4, <1>6, <2>2, <2>4, <2>5
    <3> QED
      BY <3>1
  <2>7. \A b \in DOMAIN succ' \ Blocks : predCount'[b] = 0
    <3> HIDE DEF bridge
    <3> QED
      BY <1>6, <1>11, <2>2, <2>4
  <2>8. predCount' \in [DOMAIN succ' -> Nat]
    <3>1. predCount' \in [DOMAIN predCount' -> Nat]
      BY <2>4
    <3>2. DOMAIN predCount' = DOMAIN succ'
      BY <1>11, <2>4
    <3> QED
      BY <3>1, <3>2
  <2> HIDE DEF bridge
  <2> QED
    BY <1>2, <1>9, <2>6, <2>7, <2>8 DEF CountsOK
<1>16. PCP!IInv'
  BY <1>2, CopyingStep DEF IInv
<1>17. CodeOK'
  <2>1. /\ code \in Seq(Copies) /\ Len(code) = Len(succ)
        /\ current = 0 /\ pending = {} /\ \A c \in DOMAIN succ : c > 0 => code[c] = <<>>
    BY <1>2 DEF IInv, CodeOK
  <2>2. \A c \in DOMAIN succ : code[c] = <<>>
    BY <1>4, <2>1
  <2>3. <<>> \in Copies
    BY DEF Copies
  <2>4. /\ code' \in Seq(Copies) /\ Len(code') = bridge
        /\ \A c \in DOMAIN succ : code'[c] = <<>>
        /\ code'[bridge] = <<>>
    <3>1. DOMAIN code = DOMAIN succ
      BY <1>4, <2>1
    <3> QED
      BY <1>1, <2>1, <2>2, <2>3, <3>1, Appended
  <2>5. pending' = {} /\ current' = 0 /\ phase' = "split" /\ \A c \in DOMAIN succ' : code'[c] = <<>>
    BY <1>2, <1>9, <1>11, <2>1, <2>4 DEF copying
  <2>6. Len(code') = Len(succ') /\ 0 \in 0 .. Len(succ') /\ \A c \in DOMAIN succ' : ~(c < 0)
    BY <1>4, <1>11, <2>4
  <2>7. phase' # "copies" /\ phase' \notin {"block", "branch"}
    BY <2>5
  <2> QED
    BY <2>4, <2>5, <2>6, <2>7 DEF CodeOK
<1>18. RunOK'
  <2>1. /\ at' = at /\ env' = env /\ loc' = loc
        /\ \A p \in Phis : Defined(p, at)' <=> Defined(p, at)
    BY <1>2, <1>9 DEF running, Defined
  <2> QED
    BY <1>2, <1>9, <2>1 DEF IInv, RunOK
<1> QED
  BY <1>12, <1>13, <1>14, <1>15, <1>16, <1>17, <1>18 DEF IInv

\* A set of at most one element has no other.
LEMMA AtMostOne ==
    ASSUME NEW S, IsFiniteSet(S), Cardinality(S) <= 1, NEW b \in S
    PROVE  S = {b}
<1>1. {b} \subseteq S /\ Cardinality({b}) = 1
  BY FS_Singleton
<1>2. Cardinality(S) \in Nat /\ 1 <= Cardinality(S)
  BY <1>1, FS_Subset, FS_CardinalityType
<1>3. Cardinality(S) = Cardinality({b})
  BY <1>1, <1>2
<1> QED
  BY <1>1, <1>3, FS_Subset

\* What the splitting leaves: no edge between a branch and a join.
LEMMA SplitDoneIInv == IInv /\ SplitDone => IInv'
<1> SUFFICES ASSUME IInv, SplitDone PROVE IInv'
  OBVIOUS
<1>1. /\ phase = "split" /\ phase' = "copies" /\ CriticalEdges = {}
      /\ UNCHANGED program /\ UNCHANGED <<succ, incoming>> /\ UNCHANGED <<current, code>>
      /\ UNCHANGED copying /\ UNCHANGED running
  BY DEF SplitDone
<1>2. /\ cfg' = cfg /\ homeOf' = homeOf /\ operands' = operands /\ succ' = succ
      /\ incoming' = incoming /\ current' = current /\ code' = code
      /\ wanted' = wanted /\ mem' = mem /\ pending' = pending
      /\ at' = at /\ env' = env /\ loc' = loc
  BY <1>1 DEF program, copying, running
<1>3. Blocks' = Blocks /\ Edges' = Edges
  BY <1>2 DEF Blocks, Edges
<1>4. (\A e : Target(e)' = Target(e)) /\ (\A e : LeadsTo(e)' = LeadsTo(e))
  BY <1>2 DEF Target, LeadsTo
<1>5. \A e : Carrier(e)' = Carrier(e)
  BY <1>3, <1>4 DEF Carrier
<1>6. ProgramOK'
  BY <1>2 DEF IInv, ProgramOK, StrictSSA, Blocks
<1>7. EdgesOK'
  BY <1>2, <1>3, <1>4 DEF IInv, EdgesOK
<1>8. OperandsOK'
  <2>1. \A p \in Phis : {Carrier(e)' : e \in {x \in Edges' : Target(x)' = homeOf'[p]}}
                           = {Carrier(e) : e \in {x \in Edges : Target(x) = homeOf[p]}}
    BY <1>2, <1>3, <1>4, <1>5
  <2> QED
    BY <1>2, <1>3, <1>4, <1>5, <2>1 DEF IInv, OperandsOK
<1>9. CountsOK'
  <2> SUFFICES ASSUME NEW e \in Edges, Len(cfg[e[1]]) >= 2, LeadsTo(e) \in Blocks
               PROVE  Preds(cfg, Target(e)) = {e[1]}
    BY <1>1, <1>2, <1>3, <1>4 DEF CountsOK
  <2> DEFINE t == Target(e)
  <2>1. /\ Len(cfg) \in Nat /\ Blocks = 1 .. Len(cfg) /\ \A b \in Blocks : cfg[b] \in Seq(Blocks)
        /\ e[1] \in Blocks /\ e[2] \in {1, 2} /\ t \in Blocks /\ e[1] \in Preds(cfg, t)
        /\ e = <<e[1], e[2]>> /\ e[2] \in DOMAIN cfg[e[1]]
    BY ProgramIsGraph DEF IInv, Edges
  <2>2. /\ succ \in Seq(Seq(Nat)) /\ DOMAIN succ[e[1]] = DOMAIN cfg[e[1]] /\ e[1] \in DOMAIN succ
        /\ LeadsTo(e) = t /\ t \in DOMAIN succ
    <3>1. /\ succ \in Seq(Seq(Nat)) /\ Len(cfg) <= Len(succ)
          /\ \A b \in Blocks : DOMAIN succ[b] = DOMAIN cfg[b]
          /\ LeadsTo(e) = t \/ LeadsTo(e) \in Len(cfg) + 1 .. Len(succ)
      BY DEF IInv, EdgesOK
    <3>2. Len(succ) \in Nat /\ DOMAIN succ = 1 .. Len(succ)
      BY <3>1
    <3>3. Blocks \subseteq DOMAIN succ /\ LeadsTo(e) \notin Len(cfg) + 1 .. Len(succ)
      BY <2>1, <3>1, <3>2
    <3> QED
      BY <2>1, <3>1, <3>3
  <2>3. Len(succ[e[1]]) >= 2
    <3>1. succ[e[1]] \in Seq(Nat) /\ cfg[e[1]] \in Seq(Blocks)
      BY <2>1, <2>2
    <3>2. Len(succ[e[1]]) = Len(cfg[e[1]])
      BY <2>2, <3>1
    <3> QED
      BY <3>2
  <2>4. predCount \in [DOMAIN succ -> Nat] /\ Cardinality(Preds(cfg, t)) <= predCount[t]
    <3>1. /\ predCount \in [DOMAIN succ -> Nat]
          /\ \A b \in Blocks : Cardinality(Preds(cfg, b)) <= predCount[b]
      BY <1>1 DEF IInv, CountsOK
    <3> HIDE DEF t
    <3> QED
      BY <2>1, <3>1
  <2>5. ~(predCount[t] >= 2)
    <3>1. ~Critical(e[1], e[2])
      BY <1>1, <2>1 DEF CriticalEdges
    <3>2. /\ e[1] \in Blocks /\ Len(succ[e[1]]) >= 2 /\ e[2] \in DOMAIN succ[e[1]]
          /\ succ[e[1]][e[2]] = t
      BY <2>1, <2>2, <2>3 DEF LeadsTo
    <3> HIDE DEF t
    <3> QED
      BY <3>1, <3>2 DEF Critical
  <2>6. IsFiniteSet(Preds(cfg, t))
    <3>1. IsFiniteSet(Blocks)
      <4>1. Len(cfg) \in Nat /\ Blocks = 1 .. Len(cfg)
        BY <2>1
      <4> QED
        BY <4>1, FS_Interval
    <3>2. Preds(cfg, t) \subseteq Blocks
      BY DEF Preds, Blocks
    <3> QED
      BY <3>1, <3>2, FS_Subset
  <2>7. Cardinality(Preds(cfg, t)) \in Nat /\ predCount[t] \in Nat
    BY <2>2, <2>4, <2>6, FS_CardinalityType
  <2>8. Cardinality(Preds(cfg, t)) <= 1
    BY <2>4, <2>5, <2>7
  <2> HIDE DEF t
  <2>9. Preds(cfg, t) = {e[1]}
    BY <2>1, <2>6, <2>8, AtMostOne
  <2> QED
    BY <2>9 DEF t
<1>10. PCP!IInv'
  BY <1>1, CopyingStep DEF IInv
<1>11. CodeOK'
  <2>1. \A c \in DOMAIN succ : ~(c < current) /\ current = 0
    BY <1>1 DEF IInv, CodeOK, EdgesOK
  <2>2. phase' # "split" /\ phase' \notin {"block", "branch"}
    BY <1>1
  <2> QED
    BY <1>2, <2>1, <2>2 DEF IInv, CodeOK
<1>12. RunOK'
  BY <1>1, <1>2, <1>3 DEF IInv, RunOK, Defined
<1> QED
  BY <1>6, <1>7, <1>8, <1>9, <1>10, <1>11, <1>12 DEF IInv

-----------------------------------------------------------------------------
(* The copies *)

\* What a step that leaves the function as it is keeps.
LEMMA FunctionKept ==
    ASSUME IInv, UNCHANGED program, UNCHANGED function, phase # "split", phase' # "split"
    PROVE  /\ ProgramOK' /\ EdgesOK' /\ OperandsOK' /\ CountsOK'
           /\ Blocks' = Blocks
           /\ \A c : Performs(code[c], c)' <=> Performs(code'[c], c)
<1>1. /\ cfg' = cfg /\ homeOf' = homeOf /\ operands' = operands /\ succ' = succ
      /\ incoming' = incoming /\ predCount' = predCount
  BY DEF program, function
<1>2. Blocks' = Blocks /\ Edges' = Edges
  BY <1>1 DEF Blocks, Edges
<1>3. (\A e : Target(e)' = Target(e)) /\ (\A e : LeadsTo(e)' = LeadsTo(e))
  BY <1>1 DEF Target, LeadsTo
<1>4. \A e : Carrier(e)' = Carrier(e)
  BY <1>2, <1>3 DEF Carrier
<1>5. ProgramOK'
  BY <1>1 DEF IInv, ProgramOK, StrictSSA, Blocks
<1>6. EdgesOK'
  BY <1>1, <1>2, <1>3 DEF IInv, EdgesOK
<1>7. OperandsOK'
  <2>1. \A p \in Phis : {Carrier(e)' : e \in {x \in Edges' : Target(x)' = homeOf'[p]}}
                           = {Carrier(e) : e \in {x \in Edges : Target(x) = homeOf[p]}}
    BY <1>1, <1>2, <1>3, <1>4
  <2> QED
    BY <1>1, <1>2, <1>3, <1>4, <2>1 DEF IInv, OperandsOK
<1>8. CountsOK'
  BY <1>1, <1>2, <1>3 DEF IInv, CountsOK
<1>9. \A c : Performs(code[c], c)' <=> Performs(code'[c], c)
  BY <1>1 DEF Performs
<1> QED
  BY <1>2, <1>5, <1>6, <1>7, <1>8, <1>9

\* The sources of the phis are numbered, constants apart from the rest.
LEMMA SourceTypes ==
    /\ NPhis \in Nat /\ Phis \subseteq Int /\ Sources \subseteq Int
    /\ \A p \in Phis : p \notin Consts
    /\ \A n \in Nat \ {0} : n \notin Consts
    /\ PCP!Locations = Sources /\ PCP!Roots = Phis
  BY SSAAssumption DEF Phis, Sources, PCP!Locations, PCP!Roots

\* A phi's operands are sources whatever its blocks have been renamed to.
LEMMA IncomingTypes ==
    ASSUME ProgramOK, OperandsOK, NEW p \in Phis, NEW c \in DOMAIN incoming[p]
    PROVE  incoming[p][c] \in Sources
<1>1. PICK e \in Edges : Target(e) = homeOf[p] /\ c = Carrier(e)
  BY DEF OperandsOK
<1>2. incoming[p][c] = operands[p][e[1]] /\ e[1] \in Preds(cfg, homeOf[p])
  BY <1>1, ProgramIsGraph DEF OperandsOK
<1> QED
  BY <1>2 DEF ProgramOK

\* A copy of something there leaves contents.
LEMMA CopiedContents ==
    ASSUME NEW contents \in Contents, NEW a \in Int, NEW b \in Consts \cup DOMAIN contents
    PROVE  /\ Copied(<<a, b>>, contents) \in Contents
           /\ DOMAIN Copied(<<a, b>>, contents) = DOMAIN contents \cup {a}
           /\ Copied(<<a, b>>, contents)[a] = ValueOf(b, contents)
           /\ \A l \in DOMAIN contents : l # a => Copied(<<a, b>>, contents)[l] = contents[l]
<1>1. PICK S \in SUBSET Int : contents \in [S -> Values]
  BY DEF Contents
<1>2. Phis \subseteq S /\ DOMAIN contents = S
  BY <1>1 DEF Contents
<1>3. ValueOf(b, contents) \in Values
  BY <1>1 DEF ValueOf, Values
<1> DEFINE new == Copied(<<a, b>>, contents)
<1>4. new = [l \in S \cup {a} |-> IF l = a THEN ValueOf(b, contents) ELSE contents[l]]
  BY <1>2 DEF Copied
<1>5. new \in [S \cup {a} -> Values]
  BY <1>1, <1>3, <1>4
<1>6. new \in Contents
  BY <1>2, <1>5 DEF Contents
<1> QED
  BY <1>2, <1>4, <1>6

\* What the model notes of a copy of b into a
Noted(m2, m, a, b) ==
    /\ a \in Int \ Consts /\ b \in DOMAIN m /\ b \in Int
    /\ DOMAIN m2 = DOMAIN m \cup {a} /\ m2[a] = m[b]
    /\ \A l \in DOMAIN m : l # a => m2[l] = m[l]

\* A copy executed and one noted in the model agree.
LEMMA CopyTracked ==
    ASSUME NEW copies \in Copies, NEW m, Tracks(copies, m),
           NEW a, NEW b, NEW m2, Noted(m2, m, a, b)
    PROVE  Tracks(Append(copies, <<a, b>>), m2)
<1> SUFFICES ASSUME NEW contents \in Contents
             PROVE  /\ Execute(Append(copies, <<a, b>>), contents) \in Contents
                    /\ \A l \in DOMAIN m2 :
                          /\ l \in Consts \cup DOMAIN Execute(Append(copies, <<a, b>>), contents)
                          /\ ValueOf(l, Execute(Append(copies, <<a, b>>), contents))
                                = ValueOf(m2[l], contents)
  BY DEF Tracks
<1>0. /\ a \in Int /\ a \notin Consts /\ b \in DOMAIN m /\ b \in Int
      /\ DOMAIN m2 = DOMAIN m \cup {a} /\ m2[a] = m[b]
      /\ \A l \in DOMAIN m : l # a => m2[l] = m[l]
  BY DEF Noted
<1> DEFINE e == Execute(copies, contents)
           e2 == Execute(Append(copies, <<a, b>>), contents)
<1>1. /\ e \in Contents
      /\ \A l \in DOMAIN m : l \in Consts \cup DOMAIN e /\ ValueOf(l, e) = ValueOf(m[l], contents)
  BY DEF Tracks
<1>2. e2 = Copied(<<a, b>>, e)
  <2>1. <<a, b>> \in Int \X Int /\ copies \in Seq(Int \X Int)
    BY <1>0 DEF Copies
  <2> QED
    BY <2>1, ExecuteAppend
<1> HIDE DEF e, e2
<1>3. /\ e2 \in Contents /\ DOMAIN e2 = DOMAIN e \cup {a} /\ e2[a] = ValueOf(b, e)
      /\ \A l \in DOMAIN e : l # a => e2[l] = e[l]
  BY <1>0, <1>1, <1>2, CopiedContents
<1>4. ASSUME NEW l \in DOMAIN m2
      PROVE  l \in Consts \cup DOMAIN e2 /\ ValueOf(l, e2) = ValueOf(m2[l], contents)
  <2>1. CASE l = a
    BY <1>0, <1>1, <1>3, <2>1 DEF ValueOf
  <2>2. CASE l # a
    BY <1>0, <1>1, <1>3, <2>2 DEF ValueOf
  <2> QED
    BY <2>1, <2>2
<1> QED
  BY <1>3, <1>4 DEF e2

\* A block whose parallel copy is complete performs what its edge owes.
LEMMA TracksPerforms ==
    ASSUME IInv, phase = "copies", current # 0, pending = {}
    PROVE  Performs(code[current], current)
<1>1. wanted = Owed(current) /\ Tracks(code[current], mem)
  BY DEF IInv, CodeOK
<1>2. /\ DOMAIN mem = Sources \cup (NPhis + 1 .. NPhis + temps)
      /\ \A p \in DOMAIN wanted : mem[p] = wanted[p]
      /\ \A l \in Sources \ DOMAIN wanted : mem[l] = l
  BY SourceTypes DEF IInv, PCP!IInv, PCP!TypeOK, PCP!SourcesSurvive, PCP!OthersUntouched, PCP!Assigned
<1> SUFFICES ASSUME NEW contents \in Contents, NEW p \in Phis
             PROVE  /\ Execute(code[current], contents) \in Contents
                    /\ Execute(code[current], contents)[p] =
                          IF current \in DOMAIN incoming[p]
                            THEN ValueOf(incoming[p][current], contents) ELSE contents[p]
  <2>1. ASSUME NEW contents \in Contents PROVE Execute(code[current], contents) \in Contents
    BY <1>1 DEF Tracks
  <2> QED
    BY <2>1 DEF Performs
<1> DEFINE e == Execute(code[current], contents)
<1>3. /\ e \in Contents
      /\ \A l \in DOMAIN mem : ValueOf(l, e) = ValueOf(mem[l], contents)
  BY <1>1 DEF Tracks
<1> HIDE DEF e
<1>4. p \in Sources /\ p \in DOMAIN mem /\ p \notin Consts
  BY <1>2, SourceTypes DEF Sources
<1>5. e[p] = ValueOf(mem[p], contents)
  BY <1>3, <1>4 DEF ValueOf
<1>6. p \in DOMAIN wanted <=> current \in DOMAIN incoming[p]
  BY <1>1 DEF Owed
<1>7. p \in DOMAIN wanted => wanted[p] = incoming[p][current]
  BY <1>1 DEF Owed
<1> QED
  BY <1>2, <1>3, <1>4, <1>5, <1>6, <1>7 DEF ValueOf, e

\* While copies are emitted nothing runs.
LEMMA NothingRuns ==
    ASSUME IInv, UNCHANGED program, UNCHANGED function, UNCHANGED running,
           phase = "copies", phase' \in {"copies", "block"}
    PROVE  RunOK'
<1>1. /\ at' = at /\ env' = env /\ loc' = loc /\ incoming' = incoming /\ operands' = operands
      /\ Blocks' = Blocks /\ \A p \in Phis : Defined(p, at)' <=> Defined(p, at)
  BY DEF program, function, running, Defined, Blocks
<1>2. phase # "branch" /\ phase' # "branch" /\ phase' \in {"split", "copies", "block", "branch"}
  OBVIOUS
<1>3. at \in Blocks /\ env \in [Phis -> Values] /\ loc \in Contents
      /\ \A p \in Phis : Defined(p, at) => loc[p] = env[p]
  BY <1>2 DEF IInv, RunOK
<1> QED
  BY <1>1, <1>2, <1>3 DEF RunOK

\* The next block starts from its own parallel copy; the one before is complete.
LEMMA NextBlockIInv == IInv /\ NextBlock => IInv'
<1> SUFFICES ASSUME IInv, NextBlock PROVE IInv'
  OBVIOUS
<1>1. /\ phase = "copies" /\ phase' = "copies" /\ pending = {} /\ current < Len(succ)
      /\ current' = current + 1 /\ wanted' = Owed(current + 1) /\ pending' = DOMAIN wanted'
      /\ source' = wanted' /\ temps' = 0 /\ mem' = [l \in Sources |-> l]
      /\ UNCHANGED program /\ UNCHANGED function /\ code' = code /\ UNCHANGED running
      /\ succ' = succ /\ incoming' = incoming
  BY DEF NextBlock, function
<1>2. /\ ProgramOK' /\ EdgesOK' /\ OperandsOK' /\ CountsOK'
      /\ \A c : Performs(code[c], c)' <=> Performs(code'[c], c)
  BY <1>1, FunctionKept
<1>3. PCP!IInv'
  <2>1. wanted' \in [{q \in Phis : current + 1 \in DOMAIN incoming[q]} -> Sources]
    BY <1>1, IncomingTypes DEF Owed, IInv
  <2>2. wanted' \in UNION {[S -> Sources] : S \in SUBSET Phis}
    BY <2>1
  <2>3. PCP!Init'
    BY <1>1, <2>2 DEF PCP!Init, PCP!Locations, PCP!Roots, Sources, Phis
  <2>4. PCP!Init' => PCP!IInv'
    BY CopyingStart, PTL
  <2> QED
    BY <2>3, <2>4
<1>4. CodeOK'
  <2>1. /\ code \in Seq(Copies) /\ Len(code) = Len(succ) /\ current \in 0 .. Len(succ)
        /\ \A c \in DOMAIN succ : c > current => code[c] = <<>>
        /\ \A c \in DOMAIN succ : c < current => Performs(code[c], c)
    BY DEF IInv, CodeOK
  <2>2. Len(succ) \in Nat /\ DOMAIN succ = 1 .. Len(succ) /\ current \in Nat
    BY <2>1 DEF IInv, EdgesOK
  <2>3. current' \in 0 .. Len(succ) /\ current' # 0 /\ current' \in DOMAIN succ
    BY <1>1, <2>1, <2>2
  <2>4. code[current'] = <<>>
    BY <1>1, <2>1, <2>2, <2>3
  <2>5. \A c \in DOMAIN succ : c > current' => code[c] = <<>>
    BY <1>1, <2>1, <2>2
  <2>6. ASSUME NEW c \in DOMAIN succ, c < current' PROVE Performs(code[c], c)
    <3>1. CASE c < current
      BY <2>1, <3>1
    <3>2. CASE c = current
      <4>1. current # 0
        BY <2>2, <3>2
      <4> QED
        BY <1>1, <3>2, <4>1, TracksPerforms
    <3> QED
      BY <1>1, <2>2, <2>6, <3>1, <3>2
  <2>7. Tracks(<<>>, mem')
    <3> SUFFICES ASSUME NEW contents \in Contents
                 PROVE  /\ Execute(<<>>, contents) \in Contents
                        /\ \A l \in Sources :
                              /\ l \in Consts \cup DOMAIN Execute(<<>>, contents)
                              /\ ValueOf(l, Execute(<<>>, contents)) = ValueOf(l, contents)
      BY <1>1 DEF Tracks
    <3>1. <<>> \in Seq(Int \X Int) /\ <<0, 0>> \in Int \X Int
      OBVIOUS
    <3>2. Execute(<<>>, contents) = contents
      BY <3>1, ExecuteAppend
    <3>3. Phis \subseteq DOMAIN contents
      BY DEF Contents
    <3> QED
      BY <3>2, <3>3 DEF Sources
  <2>8. wanted' = Owed(current)'
    BY <1>1 DEF Owed
  <2>9. Tracks(code[current], mem)'
    BY <1>1, <2>4, <2>7 DEF Tracks
  <2>10. \A c \in DOMAIN succ : c < current' => Performs(code[c], c)'
    BY <1>1, <1>2, <2>6
  <2> QED
    BY <1>1, <2>1, <2>3, <2>5, <2>8, <2>9, <2>10 DEF CodeOK
<1>5. RunOK'
  BY <1>1, NothingRuns
<1> QED
  BY <1>2, <1>3, <1>4, <1>5 DEF IInv

\* A copy added to the code of the block at hand that its model knows of.
LEMMA CodeExtended ==
    ASSUME IInv, phase = "copies", phase' = "copies", pending # {},
           UNCHANGED program, UNCHANGED function, UNCHANGED current, UNCHANGED running,
           PC!Emit \/ PC!Save, wanted' = wanted,
           NEW a, NEW b, Noted(mem', mem, a, b),
           code' = [code EXCEPT ![current] = Append(@, <<a, b>>)]
    PROVE  IInv'
<1>1. /\ ProgramOK' /\ EdgesOK' /\ OperandsOK' /\ CountsOK' /\ succ' = succ /\ incoming' = incoming
      /\ \A c : Performs(code[c], c)' <=> Performs(code'[c], c)
  BY FunctionKept DEF function
<1>2. PCP!IInv'
  BY CopyingStep DEF IInv
<1>3. CodeOK'
  <2>1. /\ code \in Seq(Copies) /\ Len(code) = Len(succ) /\ current \in 0 .. Len(succ)
        /\ current # 0
        /\ \A c \in DOMAIN succ : c > current => code[c] = <<>>
        /\ \A c \in DOMAIN succ : c < current => Performs(code[c], c)
        /\ wanted = Owed(current) /\ Tracks(code[current], mem)
    BY DEF IInv, CodeOK
  <2>2. Len(succ) \in Nat /\ DOMAIN succ = 1 .. Len(succ) /\ current \in DOMAIN code
        /\ DOMAIN code = DOMAIN succ
    BY <2>1 DEF IInv, EdgesOK
  <2> DEFINE more == Append(code[current], <<a, b>>)
  <2>3. code[current] \in Copies /\ more \in Copies
    <3>1. code[current] \in Copies /\ <<a, b>> \in Int \X Int
      BY <2>1, <2>2 DEF Noted
    <3> QED
      BY <3>1 DEF Copies
  <2>4. Tracks(more, mem')
    <3>1. code[current] \in Copies /\ Tracks(code[current], mem)
      BY <2>1, <2>3
    <3> QED
      BY <3>1, CopyTracked
  <2> HIDE DEF more
  <2>5. code' = [code EXCEPT ![current] = more]
    BY <2>2 DEF more
  <2>6. /\ code' \in Seq(Copies) /\ Len(code') = Len(code) /\ code'[current] = more
        /\ \A c \in DOMAIN code : c # current => code'[c] = code[c]
    <3>1. code \in Seq(Copies) /\ current \in DOMAIN code /\ more \in Copies
      BY <2>1, <2>2, <2>3
    <3> DEFINE T == Copies
               new == [code EXCEPT ![current] = more]
    <3> HIDE DEF T
    <3>2. /\ new \in Seq(T) /\ Len(new) = Len(code) /\ new[current] = more
          /\ \A c \in DOMAIN code : c # current => new[c] = code[c]
      BY <3>1, Replaced DEF T
    <3> HIDE DEF new
    <3> QED
      BY <2>5, <3>2 DEF T, new
  <2>7. \A c \in DOMAIN succ : c > current => code'[c] = <<>>
    BY <2>1, <2>2, <2>6
  <2>8. \A c \in DOMAIN succ : c < current => Performs(code'[c], c)
    <3>1. ASSUME NEW c \in DOMAIN succ, c < current PROVE code'[c] = code[c]
      BY <2>1, <2>2, <2>6, <3>1
    <3> QED
      BY <2>1, <3>1
  <2>9. wanted' = Owed(current)'
    BY <1>1, <2>1 DEF Owed
  <2>10. Tracks(code[current], mem)'
    BY <2>4, <2>6 DEF Tracks
  <2>11. \A c \in DOMAIN succ : c < current => Performs(code[c], c)'
    BY <1>1, <2>8
  <2> QED
    BY <1>1, <2>1, <2>6, <2>7, <2>9, <2>10, <2>11 DEF CodeOK
<1>4. RunOK'
  BY NothingRuns
<1> QED
  BY <1>1, <1>2, <1>3, <1>4 DEF IInv

\* The copy that is emitted is the assignment that left the list.
LEMMA EmitCopyIInv == IInv /\ EmitCopy => IInv'
<1> SUFFICES ASSUME IInv, EmitCopy PROVE IInv'
  OBVIOUS
<1>1. /\ phase = "copies" /\ phase' = "copies" /\ PC!Emit
      /\ UNCHANGED program /\ UNCHANGED function /\ UNCHANGED current /\ UNCHANGED running
  BY DEF EmitCopy
<1>2. PICK r \in pending : /\ mem' = [mem EXCEPT ![r] = mem[source[r]]]
                           /\ pending' = pending \ {r} /\ wanted' = wanted
  BY <1>1 DEF PC!Emit
<1>3. PICK q \in pending \ pending' : code' = [code EXCEPT ![current] = Append(@, <<q, source[q]>>)]
  BY DEF EmitCopy
<1>4. q = r
  BY <1>2, <1>3
<1>5. /\ r \in Phis /\ source[r] \in DOMAIN mem
      /\ DOMAIN mem = Sources \cup (NPhis + 1 .. NPhis + temps) /\ temps \in Nat
  BY <1>2, SourceTypes DEF IInv, PCP!IInv, PCP!TypeOK, PCP!Assigned
<1>6. r \in Int /\ r \notin Consts /\ source[r] \in Int /\ r \in DOMAIN mem
  BY <1>5, SourceTypes DEF Sources
<1>7. /\ DOMAIN mem' = DOMAIN mem \cup {r} /\ mem'[r] = mem[source[r]]
      /\ \A l \in DOMAIN mem : l # r => mem'[l] = mem[l]
  BY <1>2, <1>6
<1>8. Noted(mem', mem, r, source[r])
  BY <1>5, <1>6, <1>7 DEF Noted
<1> QED
  BY <1>1, <1>2, <1>3, <1>4, <1>8, CodeExtended

\* And so is the one into a temporary.
LEMMA SaveCopyIInv == IInv /\ SaveCopy => IInv'
<1> SUFFICES ASSUME IInv, SaveCopy PROVE IInv'
  OBVIOUS
<1>1. /\ phase = "copies" /\ phase' = "copies" /\ PC!Save
      /\ UNCHANGED program /\ UNCHANGED function /\ UNCHANGED current /\ UNCHANGED running
  BY DEF SaveCopy
<1>2. PICK v \in pending : /\ \A r \in pending : v <= r
                           /\ mem' = [l \in DOMAIN mem \cup {NPhis + temps + 1} |->
                                 IF l = NPhis + temps + 1 THEN mem[v] ELSE mem[l]]
  BY <1>1 DEF PC!Save
<1>3. PICK q \in pending : /\ \A r \in pending : q <= r
                           /\ code' = [code EXCEPT ![current] = Append(@, <<NPhis + temps', q>>)]
  BY DEF SaveCopy
<1>4. /\ pending \subseteq Phis /\ temps \in Nat
      /\ DOMAIN mem = Sources \cup (NPhis + 1 .. NPhis + temps)
      /\ temps' = temps + 1 /\ wanted' = wanted
  BY <1>1, SourceTypes DEF IInv, PCP!IInv, PCP!TypeOK, PCP!Assigned, PC!Save
<1>5. q \in Int /\ v \in Int /\ q \in DOMAIN mem
  BY <1>4, SourceTypes DEF Sources
<1>6. q = v
  BY <1>2, <1>3, <1>5
<1> DEFINE temp == NPhis + temps + 1
<1>7. temp \in Int /\ temp \notin Consts /\ NPhis + temps' = temp /\ temp \in Nat \ {0}
  BY <1>4, SourceTypes
<1>8. temp \notin DOMAIN mem
  <2>1. temp \notin Sources
    BY <1>4, <1>7, SourceTypes DEF Sources, Phis
  <2> QED
    BY <1>4, <2>1, SourceTypes
<1>9. /\ DOMAIN mem' = DOMAIN mem \cup {temp} /\ mem'[temp] = mem[q]
      /\ \A l \in DOMAIN mem : l # temp => mem'[l] = mem[l]
  BY <1>2, <1>6
<1>10. code' = [code EXCEPT ![current] = Append(@, <<temp, q>>)]
  BY <1>3, <1>7
<1> HIDE DEF temp
<1>11. Noted(mem', mem, temp, q)
  BY <1>5, <1>7, <1>9 DEF Noted
<1> QED
  BY <1>1, <1>3, <1>4, <1>10, <1>11, CodeExtended

\* In the end every block performs what its edge owes.
LEMMA CopiesDoneIInv == IInv /\ CopiesDone => IInv'
<1> SUFFICES ASSUME IInv, CopiesDone PROVE IInv'
  OBVIOUS
<1>1. /\ phase = "copies" /\ phase' = "block" /\ pending = {} /\ current = Len(succ)
      /\ UNCHANGED program /\ UNCHANGED function /\ UNCHANGED <<current, code>>
      /\ UNCHANGED copying /\ UNCHANGED running
  BY DEF CopiesDone
<1>2. /\ ProgramOK' /\ EdgesOK' /\ OperandsOK' /\ CountsOK' /\ succ' = succ
      /\ \A c : Performs(code[c], c)' <=> Performs(code'[c], c)
  BY <1>1, FunctionKept DEF function
<1>3. PCP!IInv'
  BY <1>1, CopyingStep DEF IInv
<1>4. CodeOK'
  <2>1. /\ code \in Seq(Copies) /\ Len(code) = Len(succ) /\ current \in 0 .. Len(succ)
        /\ \A c \in DOMAIN succ : c > current => code[c] = <<>>
        /\ \A c \in DOMAIN succ : c < current => Performs(code[c], c)
    BY DEF IInv, CodeOK
  <2>2. Len(succ) \in Nat /\ DOMAIN succ = 1 .. Len(succ)
    BY DEF IInv, EdgesOK
  <2>3. ASSUME NEW c \in DOMAIN succ PROVE Performs(code[c], c)
    <3>1. CASE c < current
      BY <2>1, <3>1
    <3>2. CASE c = current
      <4>1. current # 0
        BY <2>2, <3>2
      <4> QED
        BY <1>1, <3>2, <4>1, TracksPerforms
    <3> QED
      BY <1>1, <2>2, <3>1, <3>2
  <2>4. code' = code /\ current' = current /\ pending' = pending
    BY <1>1 DEF copying
  <2>5. \A c \in DOMAIN succ : Performs(code[c], c)'
    BY <1>2, <2>3, <2>4
  <2> QED
    BY <1>1, <1>2, <2>1, <2>4, <2>5 DEF CodeOK
<1>5. RunOK'
  BY <1>1, NothingRuns
<1> QED
  BY <1>2, <1>3, <1>4, <1>5 DEF IInv

-----------------------------------------------------------------------------
(* Execution *)

\* What a block of the program carries out itself is an edge left whole.
LEMMA CarriedInside ==
    ASSUME ProgramOK, OperandsOK, NEW p \in Phis, NEW b \in Blocks, b \in DOMAIN incoming[p]
    PROVE  \E e \in Edges : /\ e[1] = b /\ Target(e) = homeOf[p] /\ LeadsTo(e) \in Blocks
                            /\ incoming[p][b] = operands[p][b] /\ b \in Preds(cfg, homeOf[p])
<1>1. PICK e \in Edges : Target(e) = homeOf[p] /\ b = Carrier(e)
  BY DEF OperandsOK
<1>2. LeadsTo(e) \in Blocks /\ e[1] = b
  BY <1>1 DEF Carrier
<1>3. incoming[p][b] = operands[p][e[1]]
  BY <1>1 DEF OperandsOK
<1>4. e[1] \in Preds(cfg, homeOf[p])
  BY <1>1, ProgramIsGraph
<1> QED
  BY <1>1, <1>2, <1>3, <1>4

\* In a block that branches both ways no copy assigns a phi that may be used there:
\* such a phi would be dominated by the block it dominates.
LEMMA NothingUsableIsAssigned ==
    ASSUME ProgramOK, OperandsOK, CountsOK, phase # "split",
           NEW p \in Phis, NEW b \in Blocks, b \in DOMAIN incoming[p], Len(cfg[b]) >= 2
    PROVE  ~Defined(p, b)
<1>1. PICK e \in Edges : e[1] = b /\ Target(e) = homeOf[p] /\ LeadsTo(e) \in Blocks
  BY CarriedInside
<1>2. Preds(cfg, homeOf[p]) = {b}
  BY <1>1 DEF CountsOK
<1>3. IsGraph(cfg) /\ homeOf[p] \in Blocks /\ ProperCFG(cfg)
  BY ProgramIsGraph DEF ProgramOK
<1> QED
  BY <1>2, <1>3, OnlyPredecessorIsBefore DEF Defined, Blocks

\* An operand is there where its edge leaves: whoever agrees on the phis usable
\* in a block agrees on the operands for it.
LEMMA OperandsAgree ==
    ASSUME ProgramOK, NEW p \in Phis, NEW b \in Preds(cfg, homeOf[p]),
           NEW l, NEW v \in [Phis -> Values],
           operands[p][b] \in Phis /\ Defined(operands[p][b], b) =>
               l[operands[p][b]] = v[operands[p][b]]
    PROVE  ValueOf(operands[p][b], l) = ValueOf(operands[p][b], v)
           /\ ValueOf(operands[p][b], v) \in Values
<1>1. operands[p][b] \in Sources /\ b \in DOMAIN operands[p]
  BY DEF ProgramOK
<1>2. operands[p][b] \in Phis => Defined(operands[p][b], b)
  BY <1>1 DEF ProgramOK, StrictSSA, Defined
<1>3. CASE operands[p][b] \in Consts
  BY <1>3 DEF ValueOf, Values
<1>4. CASE operands[p][b] \notin Consts
  BY <1>1, <1>2, <1>4 DEF ValueOf, Sources
<1> QED
  BY <1>3, <1>4

\* A step of the execution leaves the function and its copies as they are.
LEMMA OnlyRuns ==
    ASSUME IInv, UNCHANGED program, UNCHANGED function, UNCHANGED <<current, code>>,
           UNCHANGED copying, phase \in {"block", "branch"}, phase' \in {"block", "branch"}
    PROVE  /\ ProgramOK' /\ EdgesOK' /\ OperandsOK' /\ CountsOK' /\ PCP!IInv' /\ CodeOK'
           /\ \A p, b : Defined(p, b)' <=> Defined(p, b)
           /\ incoming' = incoming /\ operands' = operands /\ Blocks' = Blocks
<1>1. /\ ProgramOK' /\ EdgesOK' /\ OperandsOK' /\ CountsOK' /\ Blocks' = Blocks
      /\ \A c : Performs(code[c], c)' <=> Performs(code'[c], c)
  <2>1. phase # "split" /\ phase' # "split"
    OBVIOUS
  <2> QED
    BY <2>1, FunctionKept
<1>2. PCP!IInv'
  BY CopyingStep DEF IInv
<1>3. CodeOK'
  <2>1. /\ code \in Seq(Copies) /\ Len(code) = Len(succ) /\ current \in 0 .. Len(succ)
        /\ current = 0 => pending = {}
        /\ \A c \in DOMAIN succ : c > current => code[c] = <<>>
        /\ \A c \in DOMAIN succ : Performs(code[c], c)
    BY DEF IInv, CodeOK
  <2>2. code' = code /\ current' = current /\ pending' = pending /\ succ' = succ
    BY DEF copying, function
  <2>3. \A c \in DOMAIN succ : Performs(code[c], c)'
    BY <1>1, <2>1, <2>2
  <2>4. phase' # "split" /\ phase' # "copies"
    OBVIOUS
  <2> QED
    BY <2>1, <2>2, <2>3, <2>4 DEF CodeOK
<1>4. /\ \A p, b : Defined(p, b)' <=> Defined(p, b)
      /\ incoming' = incoming /\ operands' = operands
  BY DEF program, function, Defined
<1> QED
  BY <1>1, <1>2, <1>3, <1>4

\* The blocks of the program and their bridges are blocks of the function.
LEMMA BlocksOfTheFunction ==
    ASSUME IInv
    PROVE  /\ Blocks \subseteq DOMAIN succ
           /\ \A e \in Edges : LeadsTo(e) \in DOMAIN succ
<1>1. Blocks = 1 .. Len(cfg) /\ Len(cfg) \in Nat /\ \A e \in Edges : Target(e) \in Blocks
  BY ProgramIsGraph DEF IInv
<1>2. /\ Len(succ) \in Nat /\ DOMAIN succ = 1 .. Len(succ) /\ Len(cfg) <= Len(succ)
      /\ \A e \in Edges : LeadsTo(e) = Target(e) \/ LeadsTo(e) \in Len(cfg) + 1 .. Len(succ)
  BY DEF IInv, EdgesOK
<1> QED
  BY <1>1, <1>2

\* The copies before a branch assign the phis what the branch will.
LEMMA RunCopiesIInv == IInv /\ RunCopies => IInv'
<1> SUFFICES ASSUME IInv, RunCopies PROVE IInv'
  OBVIOUS
<1>1. /\ phase = "block" /\ phase' = "branch" /\ loc' = Execute(code[at], loc)
      /\ at' = at /\ env' = env
      /\ UNCHANGED program /\ UNCHANGED function /\ UNCHANGED <<current, code>>
      /\ UNCHANGED copying
  BY DEF RunCopies
<1>2. /\ ProgramOK' /\ EdgesOK' /\ OperandsOK' /\ CountsOK' /\ PCP!IInv' /\ CodeOK'
      /\ \A p, b : Defined(p, b)' <=> Defined(p, b)
      /\ incoming' = incoming /\ operands' = operands /\ Blocks' = Blocks
  BY <1>1, OnlyRuns
<1>3. /\ at \in Blocks /\ env \in [Phis -> Values] /\ loc \in Contents
      /\ \A p \in Phis : Defined(p, at) => loc[p] = env[p]
  BY <1>1 DEF IInv, RunOK
<1>4. /\ loc' \in Contents
      /\ \A p \in Phis : loc'[p] = IF at \in DOMAIN incoming[p]
                                     THEN ValueOf(incoming[p][at], loc) ELSE loc[p]
  <2>1. Performs(code[at], at)
    BY <1>1, <1>3, BlocksOfTheFunction DEF IInv, CodeOK
  <2> QED
    BY <1>1, <1>3, <2>1 DEF Performs
<1>5. ASSUME NEW p \in Phis, at \in DOMAIN incoming[p]
      PROVE  loc'[p] = ValueOf(operands[p][at], env)
  <2>1. incoming[p][at] = operands[p][at] /\ at \in Preds(cfg, homeOf[p])
    BY <1>3, <1>5, CarriedInside DEF IInv
  <2>2. ValueOf(operands[p][at], loc) = ValueOf(operands[p][at], env)
    BY <1>3, <2>1, OperandsAgree DEF IInv
  <2> QED
    BY <1>4, <1>5, <2>1, <2>2
<1>6. ASSUME NEW p \in Phis, at \notin DOMAIN incoming[p], Defined(p, at)
      PROVE  loc'[p] = env[p]
  BY <1>3, <1>4, <1>6
<1>7. RunOK'
  BY <1>1, <1>2, <1>3, <1>4, <1>5, <1>6 DEF RunOK
<1> QED
  BY <1>2, <1>7 DEF IInv

\* Before a branch, a phi usable in the block has its value unless the edge taken
\* assigns it.
LEMMA LeftAlone ==
    ASSUME IInv, phase = "branch", NEW e \in Edges, e[1] = at,
           NEW p \in Phis, Defined(p, at), homeOf[p] # Target(e) \/ LeadsTo(e) \notin Blocks
    PROVE  loc[p] = env[p]
<1>1. at \in Blocks
  BY DEF IInv, RunOK
<1>2. ASSUME at \in DOMAIN incoming[p] PROVE FALSE
  <2>1. PICK x \in Edges : x[1] = at /\ Target(x) = homeOf[p] /\ LeadsTo(x) \in Blocks
    BY <1>1, <1>2, CarriedInside DEF IInv
  <2>2. x # e
    BY <2>1
  <2>3. e = <<at, e[2]>> /\ x = <<at, x[2]>>
    BY <2>1, ProgramIsGraph DEF IInv
  <2>4. e[2] # x[2]
    BY <2>2, <2>3
  <2>5. e[2] \in {1, 2} /\ x[2] \in {1, 2} /\ e[2] \in DOMAIN cfg[at] /\ x[2] \in DOMAIN cfg[at]
    BY <2>1 DEF Edges
  <2>6. cfg[at] \in Seq(Blocks)
    BY <1>1, ProgramIsGraph DEF IInv
  <2>7. 2 \in DOMAIN cfg[at]
    BY <2>4, <2>5
  <2>8. Len(cfg[at]) >= 2
    BY <2>6, <2>7
  <2> QED
    BY <1>1, <1>2, <2>8, NothingUsableIsAssigned DEF IInv
<1> QED
  BY <1>2 DEF IInv, RunOK

\* Through the branch every usable phi's location has what the phi has.
LEMMA RunBranchIInv == IInv /\ RunBranch => IInv'
<1> SUFFICES ASSUME IInv, RunBranch PROVE IInv'
  OBVIOUS
<1>1. /\ phase = "branch" /\ phase' = "block"
      /\ UNCHANGED program /\ UNCHANGED function /\ UNCHANGED <<current, code>>
      /\ UNCHANGED copying
  BY DEF RunBranch
<1>2. PICK i \in DOMAIN cfg[at] :
         /\ at' = cfg[at][i]
         /\ env' = [p \in Phis |-> IF homeOf[p] = cfg[at][i]
                                     THEN ValueOf(operands[p][at], env) ELSE env[p]]
         /\ loc' = IF succ[at][i] \in Blocks THEN loc ELSE Execute(code[succ[at][i]], loc)
  BY DEF RunBranch
<1>3. /\ ProgramOK' /\ EdgesOK' /\ OperandsOK' /\ CountsOK' /\ PCP!IInv' /\ CodeOK'
      /\ \A p, b : Defined(p, b)' <=> Defined(p, b)
      /\ incoming' = incoming /\ operands' = operands /\ Blocks' = Blocks
  BY <1>1, OnlyRuns
<1>4. /\ at \in Blocks /\ env \in [Phis -> Values] /\ loc \in Contents
      /\ \A p \in Phis : at \in DOMAIN incoming[p] => loc[p] = ValueOf(operands[p][at], env)
  BY <1>1 DEF IInv, RunOK
<1> DEFINE e == <<at, i>>
           t == cfg[at][i]
           bridge == succ[at][i]
<1>5. e \in Edges /\ e[1] = at /\ Target(e) = t /\ LeadsTo(e) = bridge
  <2>1. cfg[at] \in Seq(Blocks) /\ Len(cfg[at]) <= 2
    BY <1>4, ProgramIsGraph DEF IInv
  <2>2. i \in {1, 2}
    BY <2>1
  <2> QED
    BY <1>4, <2>2 DEF Edges, Target, LeadsTo
<1>6. t \in Blocks /\ at \in Preds(cfg, t) /\ bridge \in DOMAIN succ
  BY <1>5, ProgramIsGraph, BlocksOfTheFunction DEF IInv
<1>7. /\ at' = t
      /\ env' = [p \in Phis |-> IF homeOf[p] = t THEN ValueOf(operands[p][at], env) ELSE env[p]]
      /\ loc' = IF bridge \in Blocks THEN loc ELSE Execute(code[bridge], loc)
  BY <1>2
<1> HIDE DEF e, t, bridge
<1>8. env' \in [Phis -> Values]
  <2>1. ASSUME NEW p \in Phis, homeOf[p] = t PROVE ValueOf(operands[p][at], env) \in Values
    BY <1>4, <1>6, <2>1, OperandsAgree DEF IInv
  <2> QED
    BY <1>4, <1>7, <2>1
<1>9. ASSUME NEW p \in Phis, Defined(p, t), homeOf[p] # t PROVE loc[p] = env[p]
  <2>1. IsGraph(cfg) /\ at \in DOMAIN cfg /\ t \in Targets(cfg, at)
    BY <1>4, <1>6, ProgramIsGraph DEF IInv, Preds, Blocks
  <2>2. Defined(p, at)
    BY <1>9, <2>1, DominatesPredecessors DEF Defined
  <2> QED
    BY <1>1, <1>5, <1>9, <2>2, LeftAlone
<1>10. CASE bridge \in Blocks
  <2>1. loc' = loc
    BY <1>7, <1>10
  <2>2. ASSUME NEW p \in Phis, homeOf[p] = t PROVE loc[p] = env'[p]
    <3>1. Carrier(e) = at
      BY <1>5, <1>10 DEF Carrier
    <3>2. at \in DOMAIN incoming[p]
      BY <1>5, <2>2, <3>1 DEF IInv, OperandsOK
    <3> QED
      BY <1>4, <1>7, <2>2, <3>2
  <2>3. ASSUME NEW p \in Phis, Defined(p, t) PROVE loc'[p] = env'[p]
    BY <1>7, <1>9, <2>1, <2>2, <2>3
  <2>4. RunOK'
    BY <1>1, <1>3, <1>4, <1>6, <1>7, <1>8, <2>1, <2>3 DEF RunOK
  <2> QED
    BY <1>3, <2>4 DEF IInv
<1>11. CASE bridge \notin Blocks
  <2>1. /\ loc' \in Contents
        /\ \A p \in Phis : loc'[p] = IF bridge \in DOMAIN incoming[p]
                                       THEN ValueOf(incoming[p][bridge], loc) ELSE loc[p]
    <3>1. Performs(code[bridge], bridge)
      BY <1>1, <1>6 DEF IInv, CodeOK
    <3> QED
      BY <1>4, <1>7, <1>11, <3>1 DEF Performs
  <2>2. Carrier(e) = bridge
    BY <1>5, <1>11 DEF Carrier
  <2>3. ASSUME NEW p \in Phis, homeOf[p] = t PROVE loc'[p] = env'[p]
    <3>1. bridge \in DOMAIN incoming[p] /\ incoming[p][bridge] = operands[p][at]
      BY <1>5, <2>2, <2>3 DEF IInv, OperandsOK
    <3>2. ASSUME NEW q \in Phis, Defined(q, at) PROVE loc[q] = env[q]
      BY <1>1, <1>5, <1>11, <3>2, LeftAlone
    <3>3. ValueOf(operands[p][at], loc) = ValueOf(operands[p][at], env)
      BY <1>4, <1>6, <2>3, <3>2, OperandsAgree DEF IInv
    <3> QED
      BY <1>7, <2>1, <2>3, <3>1, <3>3
  <2>4. ASSUME NEW p \in Phis, homeOf[p] # t PROVE bridge \notin DOMAIN incoming[p]
    <3> SUFFICES ASSUME bridge \in DOMAIN incoming[p] PROVE FALSE
      OBVIOUS
    <3>1. PICK x \in Edges : Target(x) = homeOf[p] /\ bridge = Carrier(x)
      BY DEF IInv, OperandsOK
    <3>2. x[1] \in Blocks
      BY <3>1, ProgramIsGraph DEF IInv
    <3>3. LeadsTo(x) = bridge
      BY <1>11, <3>1, <3>2 DEF Carrier
    <3>4. x = e
      BY <1>5, <1>11, <3>3 DEF IInv, EdgesOK
    <3> QED
      BY <1>5, <2>4, <3>1, <3>4
  <2>5. ASSUME NEW p \in Phis, Defined(p, t) PROVE loc'[p] = env'[p]
    BY <1>7, <1>9, <2>1, <2>3, <2>4, <2>5
  <2>6. RunOK'
    BY <1>1, <1>3, <1>6, <1>7, <1>8, <2>1, <2>5 DEF RunOK
  <2> QED
    BY <1>3, <2>6 DEF IInv
<1> QED
  BY <1>10, <1>11

-----------------------------------------------------------------------------
(* The theorems *)

\* Every step keeps the invariant.
LEMMA NextIInv == IInv /\ [Next]_vars => IInv'
<1>1. IInv /\ UNCHANGED vars => IInv'
  <2> SUFFICES ASSUME IInv, UNCHANGED vars PROVE IInv'
    OBVIOUS
  <2>1. /\ cfg' = cfg /\ homeOf' = homeOf /\ operands' = operands /\ phase' = phase
        /\ succ' = succ /\ predCount' = predCount /\ incoming' = incoming
        /\ current' = current /\ code' = code
        /\ wanted' = wanted /\ pending' = pending /\ source' = source /\ temps' = temps
        /\ mem' = mem /\ at' = at /\ env' = env /\ loc' = loc
    BY DEF vars, program, function, copying, running
  <2>2. Blocks' = Blocks /\ Edges' = Edges
    BY <2>1 DEF Blocks, Edges
  <2>3. (\A e : Target(e)' = Target(e)) /\ (\A e : LeadsTo(e)' = LeadsTo(e))
    BY <2>1 DEF Target, LeadsTo
  <2>4. \A e : Carrier(e)' = Carrier(e)
    BY <2>2, <2>3 DEF Carrier
  <2>5. ProgramOK'
    BY <2>1, <2>2 DEF IInv, ProgramOK, StrictSSA
  <2>6. EdgesOK'
    BY <2>1, <2>2, <2>3 DEF IInv, EdgesOK
  <2>7. OperandsOK'
    <3>1. \A p \in Phis : {Carrier(e)' : e \in {x \in Edges' : Target(x)' = homeOf'[p]}}
                             = {Carrier(e) : e \in {x \in Edges : Target(x) = homeOf[p]}}
      BY <2>1, <2>2, <2>3, <2>4
    <3> QED
      BY <2>1, <2>2, <2>3, <2>4, <3>1 DEF IInv, OperandsOK
  <2>8. CountsOK'
    BY <2>1, <2>2, <2>3 DEF IInv, CountsOK
  <2>9. PCP!IInv'
    BY <2>1, CopyingStep DEF IInv, copying
  <2>10. CodeOK'
    <3>1. \A c : Performs(code[c], c)' <=> Performs(code[c], c)
      BY <2>1 DEF Performs
    <3>2. Tracks(code[current], mem)' <=> Tracks(code[current], mem)
      BY <2>1 DEF Tracks
    <3>3. Owed(current)' = Owed(current)
      BY <2>1 DEF Owed
    <3> QED
      BY <2>1, <3>1, <3>2, <3>3 DEF IInv, CodeOK
  <2>11. RunOK'
    BY <2>1, <2>2 DEF IInv, RunOK, Defined
  <2> QED
    BY <2>5, <2>6, <2>7, <2>8, <2>9, <2>10, <2>11 DEF IInv
<1> QED
  BY <1>1, SplitEdgeIInv, SplitDoneIInv, NextBlockIInv, EmitCopyIInv, SaveCopyIInv,
     CopiesDoneIInv, RunCopiesIInv, RunBranchIInv DEF Next

\* The invariant holds throughout.
THEOREM Invariant == Spec => []IInv
  BY InitIInv, NextIInv, PTL DEF Spec

\* For every control-flow graph, every strict SSA program over it and every way the
\* branches go, the location of a usable phi holds the phi's value: no copy for another
\* edge, another phi or an earlier iteration got in between (destroySSA).
THEOREM DestructionKeepsValues == Spec => []LocationsHoldPhis
<1>1. IInv => LocationsHoldPhis
  <2> SUFFICES ASSUME IInv, phase = "block" \/ (phase = "branch" /\ Len(cfg[at]) = 2),
                      NEW p \in Phis, Defined(p, at)
               PROVE  loc[p] = env[p]
    BY DEF LocationsHoldPhis
  <2>1. CASE phase = "block"
    BY <2>1 DEF IInv, RunOK
  <2>2. CASE phase = "branch" /\ Len(cfg[at]) = 2
    <3>1. at \in Blocks
      BY DEF IInv, RunOK
    <3>2. ASSUME at \in DOMAIN incoming[p] PROVE FALSE
      <4>1. phase # "split" /\ Len(cfg[at]) >= 2
        BY <2>2
      <4> QED
        BY <3>1, <3>2, <4>1, NothingUsableIsAssigned DEF IInv
    <3> QED
      BY <2>2, <3>2 DEF IInv, RunOK
  <2> QED
    BY <2>1, <2>2
<1> QED
  BY <1>1, Invariant, PTL
=============================================================================
