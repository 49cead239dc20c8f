--------------------------- MODULE DataflowProofs ---------------------------
(***************************************************************************)
(* What runDataflow returns, for every function, every domain and every    *)
(* monotone transfer function: the least solution of the equations.  The   *)
(* invariant says that the equations hold already at every block that is   *)
(* not queued, and that no set is ever above that of any solution.         *)
(*                                                                         *)
(* And what liveness and reaching definitions return, for every function:  *)
(* the sets that the paths of its CFG define.  Those are a solution, so    *)
(* what is returned is no larger; and a fact that a path brings to a block *)
(* cannot be missing from a solution there, so it is no smaller either.    *)
(***************************************************************************)
EXTENDS Liveness, Induction

Types ==
    /\ problem \in Problems
    /\ before \in [Blocks -> SUBSET Facts]
    /\ after \in [Blocks -> SUBSET Facts]
    /\ worklist \in Seq(Blocks)
    /\ queued \in SUBSET Blocks

QueuedIsListed == queued \subseteq Entries(worklist)

BoundaryIsEmpty == \A b \in Blocks : IsBoundary(b) => before[b] = {}

SolvedOffTheList ==
    \A b \in Blocks \ queued :
        before[b] = Incoming(b) /\ after[b] = problem.transfer[b][before[b]]

BelowEverySolution ==
    \A s \in [Blocks -> SUBSET Facts] :
        IsSolution(s) => \A b \in Blocks : after[b] \subseteq s[b]

IInv ==
    /\ Types
    /\ QueuedIsListed
    /\ BoundaryIsEmpty
    /\ SolvedOffTheList
    /\ BelowEverySolution

-----------------------------------------------------------------------------
\* A problem's parts have the types the assumption gives them.
LEMMA ProblemTypes ==
    ASSUME problem \in Problems
    PROVE  /\ problem.direction \in Directions
           /\ problem.succ \in [Blocks -> SUBSET Blocks]
           /\ problem.transfer \in [Blocks -> [SUBSET Facts -> SUBSET Facts]]
           /\ \A b \in Blocks : \A X \in SUBSET Facts : \A Y \in SUBSET X :
                 problem.transfer[b][Y] \subseteq problem.transfer[b][X]
  BY ProblemAssumption

\* A block feeds exactly the blocks that are met over it.
LEMMA AffectedIsConverse ==
    ASSUME problem \in Problems, NEW b \in Blocks, NEW c \in Blocks
    PROVE  /\ Sources(b) \subseteq Blocks /\ Affected(b) \subseteq Blocks
           /\ b \in Sources(c) <=> c \in Affected(b)
  BY ProblemTypes DEF Sources, Affected, Successors, Predecessors, Directions

\* What a block is given and what it produces are sets of facts.
LEMMA SetsOfFacts ==
    ASSUME Types, NEW b \in Blocks
    PROVE  Incoming(b) \subseteq Facts /\ Produced(b) \subseteq Facts
<1>1. \A n \in Sources(b) : after[n] \subseteq Facts
  BY AffectedIsConverse DEF Types
<1>2. Incoming(b) \subseteq Facts
  BY <1>1 DEF Incoming, Types
<1>3. problem.transfer[b] \in [SUBSET Facts -> SUBSET Facts]
  BY ProblemTypes DEF Types
<1>4. Produced(b) \subseteq Facts
  BY <1>2, <1>3 DEF Produced
<1> QED
  BY <1>2, <1>4

\* A list of a set of blocks in some order is a sequence of blocks.
LEMMA OrdersAreSequences ==
    ASSUME NEW S \in SUBSET Blocks, NEW list \in InSomeOrder(S)
    PROVE  list \in Seq(Blocks) /\ Entries(list) = S
<1> DEFINE interval == 1 .. NBlocks
<1>0. IsFiniteSet(interval)
  BY FS_Interval, ProblemAssumption
<1>1. IsFiniteSet(S)
  BY <1>0, FS_Subset DEF Blocks
<1>2. Cardinality(S) \in Nat
  BY <1>1, FS_CardinalityType
<1>3. list \in Seq(S) /\ Entries(list) = S
  BY <1>2 DEF InSomeOrder
<1> QED
  BY <1>3

\* Taking the first block off the list and appending others loses no block but
\* the first.
LEMMA EntriesOfNext ==
    ASSUME NEW w \in Seq(Blocks), w # <<>>, NEW list \in Seq(Blocks)
    PROVE  /\ Tail(w) \o list \in Seq(Blocks)
           /\ Head(w) \in Blocks
           /\ (Entries(w) \ {Head(w)}) \cup Entries(list) \subseteq Entries(Tail(w) \o list)
<1>1. Tail(w) \in Seq(Blocks) /\ Head(w) \in Blocks /\ Len(Tail(w)) = Len(w) - 1
  OBVIOUS
<1>2. ASSUME NEW b \in Entries(w) \ {Head(w)}
      PROVE  b \in Entries(Tail(w) \o list)
  <2>1. PICK i \in DOMAIN w : w[i] = b
    BY DEF Entries
  <2>2. i # 1 /\ i - 1 \in 1 .. Len(Tail(w)) /\ Tail(w)[i - 1] = b
    BY <1>1, <2>1
  <2>3. i - 1 \in DOMAIN (Tail(w) \o list) /\ (Tail(w) \o list)[i - 1] = b
    BY <1>1, <2>2
  <2> QED
    BY <2>3 DEF Entries
<1>3. ASSUME NEW b \in Entries(list)
      PROVE  b \in Entries(Tail(w) \o list)
  <2>1. PICK i \in DOMAIN list : list[i] = b
    BY DEF Entries
  <2>2. /\ Len(Tail(w)) + i \in DOMAIN (Tail(w) \o list)
        /\ (Tail(w) \o list)[Len(Tail(w)) + i] = b
    BY <1>1, <2>1
  <2> QED
    BY <2>2 DEF Entries
<1> QED
  BY <1>1, <1>2, <1>3

-----------------------------------------------------------------------------
\* The solver starts with every block queued and every set empty (runDataflow).
THEOREM InitInvariant == Init => IInv
<1> SUFFICES ASSUME Init PROVE IInv
  OBVIOUS
<1>1. NBlocks \in Nat
  BY ProblemAssumption
<1>2. worklist \in Seq(Blocks) /\ DOMAIN worklist = Blocks
  <2>1. CASE problem.direction = "Forward"
    BY <1>1, <2>1 DEF Init, Blocks
  <2>2. CASE problem.direction # "Forward"
    BY <1>1, <2>2 DEF Init, Blocks
  <2> QED
    BY <2>1, <2>2
<1>3. ASSUME NEW b \in Blocks PROVE b \in Entries(worklist)
  <2>1. CASE problem.direction = "Forward"
    BY <1>2, <2>1 DEF Init, Entries
  <2>2. CASE problem.direction # "Forward"
    <3>1. NBlocks + 1 - b \in Blocks /\ NBlocks + 1 - (NBlocks + 1 - b) = b
      BY <1>1 DEF Blocks
    <3>2. worklist[NBlocks + 1 - b] = b
      BY <2>2, <3>1 DEF Init
    <3> QED
      BY <1>2, <3>1, <3>2 DEF Entries
  <2> QED
    BY <2>1, <2>2
<1>4. Types
  BY <1>2 DEF Init, Types
<1> QED
  BY <1>3, <1>4 DEF Init, IInv, QueuedIsListed, BoundaryIsEmpty, SolvedOffTheList,
                    BelowEverySolution

\* Taking a block off the list keeps the invariant: a block whose set changes queues
\* those that read it.
THEOREM StepInvariant == IInv /\ [Visit]_vars => IInv'
<1> SUFFICES ASSUME IInv, [Visit]_vars PROVE IInv'
  OBVIOUS
<1> USE DEF IInv
<1>1. CASE UNCHANGED vars
  <2>1. Types' /\ QueuedIsListed' /\ BoundaryIsEmpty'
    BY <1>1 DEF vars, Types, QueuedIsListed, BoundaryIsEmpty, IsBoundary, Successors, Entries
  <2>2. \A b : Incoming(b)' = Incoming(b)
    BY <1>1 DEF vars, IsBoundary, Incoming, Sources, Successors, Predecessors
  <2>3. \A s : IsSolution(s)' <=> IsSolution(s)
    BY <1>1 DEF vars, IsSolution, IsBoundary, Sources, Successors, Predecessors
  <2> QED
    BY <1>1, <2>1, <2>2, <2>3 DEF vars, SolvedOffTheList, BelowEverySolution
<1>2. CASE Visit
  <2> DEFINE block == Head(worklist)
             requeued == IF Changed(block) THEN Affected(block) \ Waiting(block) ELSE {}
  <2>1. /\ problem' = problem
        /\ before' = [before EXCEPT ![block] = Incoming(block)]
        /\ after' = [after EXCEPT ![block] = Produced(block)]
        /\ queued' = (queued \ {block}) \cup requeued
        /\ \E list \in InSomeOrder(requeued) : worklist' = Tail(worklist) \o list
        /\ worklist # <<>>
    BY <1>2 DEF Visit, Waiting
  <2>2. block \in Blocks
    BY <2>1 DEF Types
  <2>3. requeued \subseteq Blocks
    BY <2>2, AffectedIsConverse DEF Types
  <2>4. PICK list \in InSomeOrder(requeued) : worklist' = Tail(worklist) \o list
    BY <2>1
  <2>5. list \in Seq(Blocks) /\ Entries(list) = requeued
    BY <2>3, <2>4, OrdersAreSequences
  <2>6. /\ worklist' \in Seq(Blocks)
        /\ (Entries(worklist) \ {block}) \cup requeued \subseteq Entries(worklist')
    BY <2>1, <2>4, <2>5, EntriesOfNext DEF Types
  <2>7. Incoming(block) \subseteq Facts /\ Produced(block) \subseteq Facts
    BY <2>2, SetsOfFacts
  <2>8. Types'
    BY <2>1, <2>2, <2>3, <2>6, <2>7 DEF Types
  <2>9. QueuedIsListed'
    BY <2>1, <2>6 DEF QueuedIsListed
  <2>10. \A b : IsBoundary(b)' <=> IsBoundary(b)
    BY <2>1 DEF IsBoundary, Successors
  <2>11. \A b : Sources(b)' = Sources(b)
    BY <2>1 DEF Sources, Successors, Predecessors
  <2>12. BoundaryIsEmpty'
    BY <2>1, <2>2, <2>10 DEF BoundaryIsEmpty, Incoming, Types
  <2>13. SolvedOffTheList'
    <3> SUFFICES ASSUME NEW c \in Blocks, c \notin queued'
                 PROVE  /\ before'[c] = Incoming(c)'
                        /\ after'[c] = problem.transfer[c][before'[c]]
      BY <2>1 DEF SolvedOffTheList
    <3>1. \A n \in Sources(c) : after'[n] = after[n]
      <4> SUFFICES ASSUME NEW n \in Sources(c) PROVE after'[n] = after[n]
        OBVIOUS
      <4>1. n \in Blocks
        BY AffectedIsConverse DEF Types
      <4>2. CASE n # block
        BY <2>1, <4>1, <4>2 DEF Types
      <4>3. CASE n = block
        <5>1. c \in Affected(block)
          BY <2>2, <4>3, AffectedIsConverse DEF Types
        <5>2. ~Changed(block)
          BY <2>1, <5>1 DEF Waiting
        <5> QED
          BY <2>1, <2>2, <4>3, <5>2 DEF Changed, Types
      <4> QED
        BY <4>2, <4>3
    <3>2. {after'[n] : n \in Sources(c)} = {after[n] : n \in Sources(c)}
      BY <3>1
    <3>3. CASE c = block
      <4>1. before'[c] = Incoming(c)
        BY <2>1, <3>3 DEF Types
      <4>2. after'[c] = problem.transfer[c][Incoming(c)]
        BY <2>1, <3>3 DEF Types, Produced
      <4>3. Incoming(c)' = IF IsBoundary(c) THEN before'[c] ELSE UNION {after[n] : n \in Sources(c)}
        BY <2>10, <2>11, <3>2 DEF Incoming
      <4> QED
        BY <4>1, <4>2, <4>3 DEF Incoming
    <3>4. CASE c # block
      <4>1. before'[c] = before[c] /\ after'[c] = after[c]
        BY <2>1, <3>4 DEF Types
      <4>2. c \notin queued
        BY <2>1, <3>4
      <4>3. before[c] = Incoming(c) /\ after[c] = problem.transfer[c][before[c]]
        BY <4>2 DEF SolvedOffTheList
      <4>4. Incoming(c)' = IF IsBoundary(c) THEN before'[c] ELSE UNION {after[n] : n \in Sources(c)}
        BY <2>10, <2>11, <3>2 DEF Incoming
      <4> QED
        BY <4>1, <4>3, <4>4 DEF Incoming
    <3> QED
      BY <3>3, <3>4
  <2>14. BelowEverySolution'
    <3> SUFFICES ASSUME NEW s \in [Blocks -> SUBSET Facts], IsSolution(s)', NEW b \in Blocks
                 PROVE  after'[b] \subseteq s[b]
      BY DEF BelowEverySolution
    <3>1. IsSolution(s)
      BY <2>1, <2>10, <2>11 DEF IsSolution
    <3>2. \A n \in Blocks : after[n] \subseteq s[n]
      BY <3>1 DEF BelowEverySolution
    <3>3. CASE b # block
      BY <2>1, <3>2, <3>3 DEF Types
    <3>4. CASE b = block
      <4> DEFINE arriving == IF IsBoundary(b) THEN {} ELSE UNION {s[n] : n \in Sources(b)}
      <4>1. Sources(b) \subseteq Blocks
        BY AffectedIsConverse DEF Types
      <4>2. Incoming(b) \subseteq arriving
        <5>1. CASE IsBoundary(b)
          BY <5>1 DEF Incoming, BoundaryIsEmpty
        <5>2. CASE ~IsBoundary(b)
          <6>1. \A n \in Sources(b) : after[n] \subseteq s[n]
            BY <3>2, <4>1
          <6>2. UNION {after[n] : n \in Sources(b)} \subseteq UNION {s[n] : n \in Sources(b)}
            BY <6>1
          <6> QED
            BY <5>2, <6>2 DEF Incoming
        <5> QED
          BY <5>1, <5>2
      <4>3. \A n \in Sources(b) : s[n] \subseteq Facts
        BY <4>1
      <4>4. arriving \subseteq Facts
        BY <4>3
      <4>5. problem.transfer[b][Incoming(b)] \subseteq problem.transfer[b][arriving]
        BY <4>2, <4>4, ProblemTypes DEF Types
      <4>6. s[b] = problem.transfer[b][arriving]
        BY <3>1 DEF IsSolution
      <4>7. after'[b] = problem.transfer[b][Incoming(b)]
        BY <2>1, <2>2, <3>4 DEF Produced, Types
      <4> QED
        BY <4>5, <4>6, <4>7
    <3> QED
      BY <3>3, <3>4
  <2> QED
    BY <2>8, <2>9, <2>12, <2>13, <2>14
<1> QED
  BY <1>1, <1>2

\* So the invariant holds throughout, for every function and problem.
THEOREM Invariant == Spec => []IInv
  BY InitInvariant, StepInvariant, PTL DEF Spec

-----------------------------------------------------------------------------
\* Every variable keeps its type, whatever the function.
THEOREM TypeCorrect == Spec => []TypeOK
<1>1. IInv => TypeOK
  BY ProblemTypes DEF IInv, Types, TypeOK
<1> QED
  BY <1>1, Invariant, PTL

\* When the worklist runs empty the sets solve the equations at every block.
THEOREM SolvesTheEquations == Spec => []FixedPoint
<1>1. IInv => FixedPoint
  <2> SUFFICES ASSUME IInv, Solved
               PROVE  \A b \in Blocks :
                        /\ IsBoundary(b) => before[b] = {}
                        /\ ~IsBoundary(b) => before[b] = UNION {after[n] : n \in Sources(b)}
                        /\ after[b] = problem.transfer[b][before[b]]
    BY DEF FixedPoint
  <2>1. queued = {}
    BY DEF IInv, QueuedIsListed, Entries, Solved
  <2> QED
    BY <2>1 DEF IInv, SolvedOffTheList, BoundaryIsEmpty, Incoming
<1> QED
  BY <1>1, Invariant, PTL

\* No solution of the equations is below the one the solver returns.
THEOREM ReturnsTheLeast == Spec => []LeastSolution
<1>1. IInv => LeastSolution
  BY DEF IInv, BelowEverySolution, LeastSolution
<1> QED
  BY <1>1, Invariant, PTL

-----------------------------------------------------------------------------
(* Paths *)

\* A set of blocks that no edge leaves, but from a block of stop
Closed(f, X, stop) == X \subseteq Blocks /\ \A c \in X \ stop : f.succ[c] \subseteq X

\* The rounds of ArrivesAt
AreArrivals(h, f, b, stop) ==
    /\ h \in [0 .. NBlocks -> SUBSET Blocks]
    /\ h[0] = {b}
    /\ \A n \in 1 .. NBlocks :
          h[n] = h[n - 1] \cup UNION {f.succ[c] : c \in h[n - 1] \ stop}
    /\ ArrivesAt(f, b, stop) = h[NBlocks]

\* They are what the recursion in its definition computes.
LEMMA ArrivesInRounds ==
    ASSUME NEW f, f.succ \in [Blocks -> SUBSET Blocks], NEW b \in Blocks, NEW stop
    PROVE  \E h : AreArrivals(h, f, b, stop)
<1> DEFINE D == SUBSET Blocks
           grown(X) == X \cup UNION {f.succ[c] : c \in X \ stop}
           F == [n \in 1 .. NBlocks |-> [X \in D |-> grown(X)]]
           g[n \in 0 .. NBlocks] == IF n = 0 THEN {b} ELSE grown(g[n - 1])
<1>0. NBlocks \in Nat
  BY ProblemAssumption
<1>1. \A X \in D : grown(X) \in D
  OBVIOUS
<1>2. ArrivesAt(f, b, stop) = g[NBlocks]
  BY DEF ArrivesAt
<1> HIDE DEF grown
<1>3. F \in [1 .. NBlocks -> [D -> D]]
  BY <1>1
<1>4. {b} \in D
  OBVIOUS
<1>5. PICK h : IsLoop(h, NBlocks, D, {b}, F)
  <2> HIDE DEF F, D
  <2> QED
    BY <1>0, <1>3, <1>4, LoopExists
<1> USE DEF IsLoop
<1>6. \A n \in 1 .. NBlocks : h[n] = grown(h[n - 1])
  <2>1. \A n \in 1 .. NBlocks : h[n - 1] \in D
    BY <1>0, <1>5
  <2> QED
    BY <1>5, <2>1
<1>7. h = [n \in 0 .. NBlocks |-> IF n = 0 THEN {b} ELSE grown(h[n - 1])]
  BY <1>0, <1>5, <1>6
<1>8. g = [n \in 0 .. NBlocks |-> IF n = 0 THEN {b} ELSE grown(g[n - 1])]
  BY <1>7, Zenon
<1> HIDE DEF g
<1>9. \A n \in 0 .. NBlocks : n \in {i \in 0 .. NBlocks : g[i] = h[i]}
  <2> DEFINE S == {i \in 0 .. NBlocks : g[i] = h[i]}
  <2>1. 0 \in S
    BY <1>0, <1>5, <1>8
  <2>2. ASSUME NEW i \in 1 .. NBlocks, i - 1 \in S PROVE i \in S
    <3>0. i \in 0 .. NBlocks /\ i # 0
      BY <1>0
    <3>1. g[i] = grown(g[i - 1]) /\ h[i] = grown(h[i - 1])
      <4> HIDE DEF IsLoop, F
      <4> QED
        BY <1>6, <1>8, <3>0
    <3> QED
      BY <1>0, <2>2, <3>1
  <2> HIDE DEF S
  <2>3. \A n \in 0 .. NBlocks : n \in S
    BY <1>0, <2>1, <2>2, Rounds
  <2> QED
    BY <2>3 DEF S
<1>10. g[NBlocks] = h[NBlocks]
  BY <1>0, <1>9
<1> QED
  BY <1>2, <1>5, <1>6, <1>10 DEF grown, AreArrivals

\* What the rounds reach is a closed set with b in it: a round that does not
\* close it adds a block, and there are only as many blocks as rounds.
LEMMA ArrivesClosed ==
    ASSUME NEW f, f.succ \in [Blocks -> SUBSET Blocks], NEW b \in Blocks, NEW stop
    PROVE  b \in ArrivesAt(f, b, stop) /\ Closed(f, ArrivesAt(f, b, stop), stop)
<1>1. PICK h : AreArrivals(h, f, b, stop)
  BY ArrivesInRounds
<1> USE DEF AreArrivals
<1>2. NBlocks \in Nat /\ IsFiniteSet(Blocks) /\ Cardinality(Blocks) = NBlocks
  BY ProblemAssumption, FS_Interval DEF Blocks
<1>3. \A X \in SUBSET Blocks : IsFiniteSet(X) /\ Cardinality(X) \in Nat /\ Cardinality(X) <= NBlocks
  BY <1>2, FS_Subset, FS_CardinalityType
<1> DEFINE S == {n \in 0 .. NBlocks :
                   b \in h[n] /\ (Closed(f, h[n], stop) \/ Cardinality(h[n]) >= n + 1)}
<1>4. 0 \in S
  <2>1. Cardinality(h[0]) = 1 /\ b \in h[0]
    BY <1>1, FS_Singleton
  <2> QED
    BY <1>2, <2>1
<1>5. ASSUME NEW n \in 1 .. NBlocks, n - 1 \in S PROVE n \in S
  <2> DEFINE old == h[n - 1]
             new == h[n]
  <2>1. /\ new = old \cup UNION {f.succ[c] : c \in old \ stop}
        /\ old \subseteq Blocks /\ new \subseteq Blocks /\ b \in new
    BY <1>1, <1>2, <1>5
  <2>2. CASE Closed(f, old, stop)
    <3>1. new = old
      BY <2>1, <2>2 DEF Closed
    <3> QED
      BY <2>1, <2>2, <3>1
  <2>3. CASE ~Closed(f, old, stop)
    <3>1. old # new
      BY <2>1, <2>3 DEF Closed
    <3>2. Cardinality(old) <= Cardinality(new) /\ Cardinality(old) # Cardinality(new)
      BY <1>3, <2>1, <3>1, FS_Subset
    <3>3. Cardinality(old) >= n
      BY <1>5, <2>3
    <3>4. Cardinality(new) \in Nat /\ Cardinality(old) \in Nat
      BY <1>3, <2>1
    <3>5. Cardinality(new) >= n + 1
      BY <3>2, <3>3, <3>4
    <3>6. n \in 0 .. NBlocks /\ b \in new
      BY <1>2, <2>1
    <3> HIDE DEF AreArrivals, new
    <3> QED
      BY <3>5, <3>6 DEF new
  <2> QED
    BY <2>2, <2>3
<1>6. NBlocks \in S
  <2> HIDE DEF S
  <2>1. \A n \in 0 .. NBlocks : n \in S
    BY <1>2, <1>4, <1>5, Rounds
  <2> QED
    BY <1>2, <2>1
<1>7. Cardinality(h[NBlocks]) <= NBlocks /\ Cardinality(h[NBlocks]) \in Nat
  BY <1>1, <1>2, <1>3
<1>8. Closed(f, h[NBlocks], stop) /\ b \in h[NBlocks]
  BY <1>2, <1>6, <1>7
<1> QED
  BY <1>1, <1>8

\* It is the least such set.
LEMMA ArrivesLeast ==
    ASSUME NEW f, f.succ \in [Blocks -> SUBSET Blocks], NEW b \in Blocks, NEW stop,
           NEW X, b \in X, Closed(f, X, stop)
    PROVE  ArrivesAt(f, b, stop) \subseteq X
<1>1. PICK h : AreArrivals(h, f, b, stop)
  BY ArrivesInRounds
<1> USE DEF AreArrivals
<1>2. NBlocks \in Nat
  BY ProblemAssumption
<1> DEFINE S == {n \in 0 .. NBlocks : h[n] \subseteq X}
<1>3. 0 \in S
  BY <1>1, <1>2
<1>4. \A n \in 1 .. NBlocks : n - 1 \in S => n \in S
  BY <1>1, <1>2 DEF Closed
<1> HIDE DEF S
<1>5. \A n \in 0 .. NBlocks : n \in S
  BY <1>2, <1>3, <1>4, Rounds
<1> QED
  BY <1>1, <1>2, <1>5 DEF S

\* From the front: b itself, and what its successors arrive at unless b stops.
LEMMA ArrivesFromSuccessors ==
    ASSUME NEW f, f.succ \in [Blocks -> SUBSET Blocks], NEW b \in Blocks, NEW stop,
           NEW c
    PROVE  c \in ArrivesAt(f, b, stop) <=>
              c = b \/ (b \notin stop /\ \E s \in f.succ[b] : c \in ArrivesAt(f, s, stop))
<1> DEFINE later == UNION {ArrivesAt(f, s, stop) : s \in f.succ[b]}
           X == {b} \cup (IF b \in stop THEN {} ELSE later)
<1>1. \A s \in f.succ[b] : s \in ArrivesAt(f, s, stop) /\ Closed(f, ArrivesAt(f, s, stop), stop)
  BY ArrivesClosed
<1>2. Closed(f, later, stop) /\ f.succ[b] \subseteq later
  BY <1>1 DEF Closed
<1>3. Closed(f, X, stop)
  BY <1>2 DEF Closed
<1>4. ArrivesAt(f, b, stop) \subseteq X
  <2> HIDE DEF X
  <2>1. b \in X
    BY DEF X
  <2> QED
    BY <1>3, <2>1, ArrivesLeast
<1>5. b \in ArrivesAt(f, b, stop) /\ Closed(f, ArrivesAt(f, b, stop), stop)
  BY ArrivesClosed
<1>6. ASSUME b \notin stop, NEW s \in f.succ[b]
      PROVE  ArrivesAt(f, s, stop) \subseteq ArrivesAt(f, b, stop)
  <2>1. s \in ArrivesAt(f, b, stop) /\ s \in Blocks
    BY <1>5, <1>6 DEF Closed
  <2> QED
    BY <1>5, <2>1, ArrivesLeast
<1> QED
  BY <1>4, <1>5, <1>6

\* From the back: s itself, and what an edge enters from where a path has
\* arrived and not stopped.
LEMMA ArrivesFromPredecessors ==
    ASSUME NEW f, f.succ \in [Blocks -> SUBSET Blocks], NEW s \in Blocks, NEW stop,
           NEW b
    PROVE  b \in ArrivesAt(f, s, stop) <=>
              b = s \/ \E n \in ArrivesAt(f, s, stop) \ stop : b \in f.succ[n]
<1> DEFINE A == ArrivesAt(f, s, stop)
           X == {s} \cup UNION {f.succ[n] : n \in A \ stop}
<1>1. s \in A /\ Closed(f, A, stop)
  BY ArrivesClosed
<1> HIDE DEF A
<1>2. X \subseteq A
  BY <1>1 DEF Closed
<1>3. Closed(f, X, stop)
  BY <1>1, <1>2 DEF Closed
<1>4. A \subseteq X
  BY <1>3, ArrivesLeast DEF A
<1> QED
  BY <1>2, <1>4 DEF A

-----------------------------------------------------------------------------
(* The walks over a block *)

Instructions == [def : Facts \cup {None}, uses : SUBSET Facts]

\* Instruction i of a body reads v before any redefines it, from the n-th on
ReadsFrom(body, n, v) ==
    \E i \in DOMAIN body :
        /\ n <= i
        /\ v \in body[i].uses
        /\ \A j \in DOMAIN body : n <= j /\ j < i => body[j].def # v

PassesThrough(body, n, v) == \A j \in DOMAIN body : n <= j => body[j].def # v

\* One instruction more at the front.
LEMMA ReadsFromStep ==
    ASSUME NEW body \in Seq(Instructions), NEW n \in DOMAIN body, NEW v
    PROVE  /\ ReadsFrom(body, n, v) <=>
                v \in body[n].uses \/ (body[n].def # v /\ ReadsFrom(body, n + 1, v))
           /\ PassesThrough(body, n, v) <=>
                body[n].def # v /\ PassesThrough(body, n + 1, v)
<1>1. DOMAIN body = 1 .. Len(body) /\ Len(body) \in Nat /\ n \in Nat
  OBVIOUS
<1>2. PassesThrough(body, n, v) <=> body[n].def # v /\ PassesThrough(body, n + 1, v)
  BY <1>1 DEF PassesThrough
<1>3. v \in body[n].uses => ReadsFrom(body, n, v)
  BY <1>1 DEF ReadsFrom
<1>4. body[n].def # v /\ ReadsFrom(body, n + 1, v) => ReadsFrom(body, n, v)
  BY <1>1 DEF ReadsFrom
<1>5. ReadsFrom(body, n, v) /\ v \notin body[n].uses =>
         body[n].def # v /\ ReadsFrom(body, n + 1, v)
  <2> SUFFICES ASSUME ReadsFrom(body, n, v), v \notin body[n].uses
               PROVE  body[n].def # v /\ ReadsFrom(body, n + 1, v)
    OBVIOUS
  <2>1. PICK i \in DOMAIN body :
           /\ n <= i /\ v \in body[i].uses
           /\ \A j \in DOMAIN body : n <= j /\ j < i => body[j].def # v
    BY DEF ReadsFrom
  <2>2. i # n /\ n + 1 <= i
    BY <1>1, <2>1
  <2> QED
    BY <1>1, <2>1, <2>2 DEF ReadsFrom
<1> QED
  BY <1>2, <1>3, <1>4, <1>5

\* What is live above a body is what it reads first, and what is live below it
\* and not redefined.
LEMMA LiveAboveIs ==
    ASSUME NEW body \in Seq(Instructions), NEW below \in SUBSET Facts
    PROVE  /\ LiveAbove(body, below) \subseteq Facts
           /\ \A v : v \in LiveAbove(body, below) <=>
                 ReadsFrom(body, 1, v) \/ (v \in below /\ PassesThrough(body, 1, v))
<1> DEFINE L == Len(body)
           D == SUBSET Facts
           step(n, X) == Above(body[L + 1 - n], X)
           F == [n \in 1 .. L |-> [X \in D |-> step(n, X)]]
           g[n \in 0 .. L] == IF n = 0 THEN below ELSE Above(body[L + 1 - n], g[n - 1])
<1>0. L \in Nat /\ DOMAIN body = 1 .. L /\ below \in D
  OBVIOUS
<1>1. \A n \in 1 .. L : L + 1 - n \in DOMAIN body /\ body[L + 1 - n] \in Instructions
  BY <1>0
<1>2. LiveAbove(body, below) = g[L]
  BY DEF LiveAbove
<1>3. \A n \in 1 .. L : \A X \in D : step(n, X) \in D
  BY <1>1 DEF Above, Instructions
<1>4. F \in [1 .. L -> [D -> D]]
  <2> HIDE DEF step, D, L
  <2> QED
    BY <1>3
<1>5. PICK h : IsLoop(h, L, D, below, F)
  <2> HIDE DEF F, D, L
  <2> QED
    BY <1>0, <1>4, LoopExists
<1>6. h \in [0 .. L -> D] /\ h[0] = below /\ \A n \in 1 .. L : h[n] = step(n, h[n - 1])
  <2> HIDE DEF step, D, L
  <2>1. h \in [0 .. L -> D] /\ h[0] = below
    BY <1>5 DEF IsLoop
  <2>2. ASSUME NEW n \in 1 .. L PROVE h[n] = step(n, h[n - 1])
    <3>1. h[n - 1] \in D
      BY <1>0, <2>1
    <3> QED
      BY <1>5, <3>1 DEF IsLoop
  <2> QED
    BY <2>1, <2>2
<1>7. h = [n \in 0 .. L |-> IF n = 0 THEN below ELSE Above(body[L + 1 - n], h[n - 1])]
  <2> HIDE DEF D, L
  <2> QED
    BY <1>0, <1>6
<1>8. g = [n \in 0 .. L |-> IF n = 0 THEN below ELSE Above(body[L + 1 - n], g[n - 1])]
  BY <1>7, Zenon
<1> HIDE DEF g, L, D, F
<1> DEFINE S == {n \in 0 .. L :
                   /\ g[n] = h[n]
                   /\ \A v : v \in h[n] <=>
                        \/ ReadsFrom(body, L + 1 - n, v)
                        \/ v \in below /\ PassesThrough(body, L + 1 - n, v)}
<1>9. 0 \in S
  <2>1. \A v : ~ReadsFrom(body, L + 1 - 0, v) /\ PassesThrough(body, L + 1 - 0, v)
    BY <1>0 DEF ReadsFrom, PassesThrough
  <2>2. g[0] = h[0] /\ h[0] = below
    BY <1>0, <1>6, <1>8
  <2> QED
    BY <1>0, <2>1, <2>2
<1>10. ASSUME NEW n \in 1 .. L, n - 1 \in S PROVE n \in S
  <2> DEFINE k == L + 1 - n
  <2>1. k \in DOMAIN body /\ L + 1 - (n - 1) = k + 1 /\ n \in 0 .. L /\ n # 0
    BY <1>0
  <2>2. g[n] = Above(body[k], g[n - 1]) /\ h[n] = Above(body[k], h[n - 1])
    <3> HIDE DEF S
    <3> QED
      BY <1>6, <1>8, <2>1
  <2> HIDE DEF k
  <2>3. \A v : v \in h[n - 1] <=>
          ReadsFrom(body, k + 1, v) \/ (v \in below /\ PassesThrough(body, k + 1, v))
    BY <1>10, <2>1
  <2>4. ASSUME NEW v
        PROVE  v \in h[n] <=> ReadsFrom(body, k, v) \/ (v \in below /\ PassesThrough(body, k, v))
    BY <2>1, <2>2, <2>3, ReadsFromStep DEF Above
  <2>5. g[n] = h[n]
    BY <1>10, <2>2
  <2> QED
    BY <2>1, <2>4, <2>5 DEF k
<1>11. L \in S
  <2> HIDE DEF S
  <2>1. \A n \in 0 .. L : n \in S
    BY <1>0, <1>9, <1>10, Rounds
  <2> QED
    BY <1>0, <2>1
<1>12. L + 1 - L = 1 /\ h[L] \in D
  BY <1>0, <1>6
<1> QED
  BY <1>2, <1>11, <1>12 DEF D

\* Store d is the last to its slot among the first n of a list; none of the
\* first n is to its slot
LastOf(f, stores, n, d) ==
    \E i \in DOMAIN stores :
        /\ i <= n
        /\ stores[i] = d
        /\ \A j \in DOMAIN stores : i < j /\ j <= n => f.slot[stores[j]] # f.slot[d]

NoneOf(f, stores, n, d) ==
    \A j \in DOMAIN stores : j <= n => f.slot[stores[j]] # f.slot[d]

\* One store more at the end.
LEMMA LastOfStep ==
    ASSUME NEW f, NEW stores \in Seq(Facts), NEW n \in DOMAIN stores, NEW d
    PROVE  /\ LastOf(f, stores, n, d) <=>
                \/ stores[n] = d
                \/ f.slot[stores[n]] # f.slot[d] /\ LastOf(f, stores, n - 1, d)
           /\ NoneOf(f, stores, n, d) <=>
                f.slot[stores[n]] # f.slot[d] /\ NoneOf(f, stores, n - 1, d)
<1>1. DOMAIN stores = 1 .. Len(stores) /\ Len(stores) \in Nat /\ n \in Nat
  OBVIOUS
<1>2. NoneOf(f, stores, n, d) <=>
         f.slot[stores[n]] # f.slot[d] /\ NoneOf(f, stores, n - 1, d)
  BY <1>1 DEF NoneOf
<1>3. stores[n] = d => LastOf(f, stores, n, d)
  BY <1>1 DEF LastOf
<1>4. f.slot[stores[n]] # f.slot[d] /\ LastOf(f, stores, n - 1, d) => LastOf(f, stores, n, d)
  BY <1>1 DEF LastOf
<1>5. LastOf(f, stores, n, d) /\ stores[n] # d =>
         f.slot[stores[n]] # f.slot[d] /\ LastOf(f, stores, n - 1, d)
  <2> SUFFICES ASSUME LastOf(f, stores, n, d), stores[n] # d
               PROVE  f.slot[stores[n]] # f.slot[d] /\ LastOf(f, stores, n - 1, d)
    OBVIOUS
  <2>1. PICK i \in DOMAIN stores :
           /\ i <= n /\ stores[i] = d
           /\ \A j \in DOMAIN stores : i < j /\ j <= n => f.slot[stores[j]] # f.slot[d]
    BY DEF LastOf
  <2>2. i # n /\ i <= n - 1 /\ i < n
    BY <1>1, <2>1
  <2> QED
    BY <1>1, <2>1, <2>2 DEF LastOf
<1> QED
  BY <1>2, <1>3, <1>4, <1>5

\* What reaches the end of a block is the last of its stores to each slot, and
\* what reached its start and none of them overwrites.
LEMMA ReachingOutIs ==
    ASSUME NEW f, NEW b, f.stores[b] \in Seq(Facts), NEW arriving \in SUBSET Facts
    PROVE  /\ ReachingOutOf(f, b, arriving) \subseteq Facts
           /\ \A d : d \in ReachingOutOf(f, b, arriving) <=>
                 LeavesItsBlock(f, b, d) \/ (d \in arriving /\ ~WritesSlot(f, b, f.slot[d]))
<1> DEFINE stores == f.stores[b]
           L == Len(stores)
           D == SUBSET Facts
           step(n, X) == {e \in X : f.slot[e] # f.slot[stores[n]]} \cup {stores[n]}
           F == [n \in 1 .. L |-> [X \in D |-> step(n, X)]]
           g[n \in 0 .. L] ==
              IF n = 0 THEN arriving
                ELSE {e \in g[n - 1] : f.slot[e] # f.slot[stores[n]]} \cup {stores[n]}
<1>0. L \in Nat /\ DOMAIN stores = 1 .. L /\ arriving \in D
  OBVIOUS
<1>1. \A n \in 1 .. L : stores[n] \in Facts
  BY <1>0
<1>2. ReachingOutOf(f, b, arriving) = g[L]
  BY DEF ReachingOutOf
<1>3. \A n \in 1 .. L : \A X \in D : step(n, X) \in D
  BY <1>1
<1>4. F \in [1 .. L -> [D -> D]]
  <2> HIDE DEF step, D, L
  <2> QED
    BY <1>3
<1>5. PICK h : IsLoop(h, L, D, arriving, F)
  <2> HIDE DEF F, D, L
  <2> QED
    BY <1>0, <1>4, LoopExists
<1>6. h \in [0 .. L -> D] /\ h[0] = arriving /\ \A n \in 1 .. L : h[n] = step(n, h[n - 1])
  <2> HIDE DEF step, D, L
  <2>1. h \in [0 .. L -> D] /\ h[0] = arriving
    BY <1>5 DEF IsLoop
  <2>2. ASSUME NEW n \in 1 .. L PROVE h[n] = step(n, h[n - 1])
    <3>1. h[n - 1] \in D
      BY <1>0, <2>1
    <3> QED
      BY <1>5, <3>1 DEF IsLoop
  <2> QED
    BY <2>1, <2>2
<1>7. h = [n \in 0 .. L |->
             IF n = 0 THEN arriving
               ELSE {e \in h[n - 1] : f.slot[e] # f.slot[stores[n]]} \cup {stores[n]}]
  <2> HIDE DEF D, L
  <2> QED
    BY <1>0, <1>6
<1>8. g = [n \in 0 .. L |->
             IF n = 0 THEN arriving
               ELSE {e \in g[n - 1] : f.slot[e] # f.slot[stores[n]]} \cup {stores[n]}]
  BY <1>7, Zenon
<1> HIDE DEF g, L, D, F
<1> DEFINE S == {n \in 0 .. L :
                   /\ g[n] = h[n]
                   /\ \A d : d \in h[n] <=>
                        \/ LastOf(f, stores, n, d)
                        \/ d \in arriving /\ NoneOf(f, stores, n, d)}
<1>9. 0 \in S
  <2>1. \A d : ~LastOf(f, stores, 0, d) /\ NoneOf(f, stores, 0, d)
    BY <1>0 DEF LastOf, NoneOf
  <2>2. g[0] = h[0] /\ h[0] = arriving
    BY <1>0, <1>6, <1>8
  <2> QED
    BY <1>0, <2>1, <2>2
<1>10. ASSUME NEW n \in 1 .. L, n - 1 \in S PROVE n \in S
  <2>1. n \in DOMAIN stores /\ n \in 0 .. L /\ n # 0
    BY <1>0
  <2>2. g[n] = step(n, g[n - 1]) /\ h[n] = step(n, h[n - 1])
    <3> HIDE DEF S
    <3> QED
      BY <1>6, <1>8, <2>1
  <2>3. \A d : d \in h[n - 1] <=>
          LastOf(f, stores, n - 1, d) \/ (d \in arriving /\ NoneOf(f, stores, n - 1, d))
    BY <1>10
  <2>4. ASSUME NEW d
        PROVE  d \in h[n] <=> LastOf(f, stores, n, d) \/ (d \in arriving /\ NoneOf(f, stores, n, d))
    <3>1. /\ LastOf(f, stores, n, d) <=>
                \/ stores[n] = d
                \/ f.slot[stores[n]] # f.slot[d] /\ LastOf(f, stores, n - 1, d)
          /\ NoneOf(f, stores, n, d) <=>
                f.slot[stores[n]] # f.slot[d] /\ NoneOf(f, stores, n - 1, d)
      BY <2>1, LastOfStep
    <3> QED
      BY <2>2, <2>3, <3>1
  <2>5. g[n] = h[n]
    BY <1>10, <2>2
  <2> QED
    BY <2>1, <2>4, <2>5
<1>11. L \in S
  <2> HIDE DEF S
  <2>1. \A n \in 0 .. L : n \in S
    BY <1>0, <1>9, <1>10, Rounds
  <2> QED
    BY <1>0, <2>1
<1>12. h[L] \in D
  BY <1>0, <1>6
<1>13. ASSUME NEW d
       PROVE  /\ LastOf(f, stores, L, d) <=> LeavesItsBlock(f, b, d)
              /\ NoneOf(f, stores, L, d) <=> ~WritesSlot(f, b, f.slot[d])
  <2>1. LastOf(f, stores, L, d) <=> LeavesItsBlock(f, b, d)
    BY <1>0 DEF LastOf, LeavesItsBlock
  <2>2. NoneOf(f, stores, L, d) <=> ~WritesSlot(f, b, f.slot[d])
    BY <1>0 DEF NoneOf, WritesSlot, Range
  <2> QED
    BY <2>1, <2>2
<1> QED
  BY <1>2, <1>11, <1>12, <1>13 DEF D

\* What is live into a block is what it reads on arrival, and what is live out
\* of it and the block does not define.
LEMMA LiveInIs ==
    ASSUME NEW f, IsFunction(f), NEW b \in Blocks, NEW out \in SUBSET Facts
    PROVE  /\ LiveInOf(f, b, out) \subseteq Facts
           /\ \A v : v \in LiveInOf(f, b, out) <=>
                 ReadsOnArrival(f, b, v) \/ (v \in out /\ ~Defines(f, b, v))
<1> DEFINE body == f.body[b]
           onExit == PhiUsesOnExit(f, b)
           byPhi(v) == \E phi \in Range(f.phis[b]) : phi.def = v
<1>1. body \in Seq(Instructions) /\ onExit \in SUBSET Facts
  BY DEF IsFunction, Instructions
<1> HIDE DEF onExit
<1>2. /\ LiveAbove(body, out \cup onExit) \subseteq Facts
      /\ \A v : v \in LiveAbove(body, out \cup onExit) <=>
            ReadsFrom(body, 1, v) \/ (v \in out \cup onExit /\ PassesThrough(body, 1, v))
  BY <1>1, LiveAboveIs
<1>3. \A v : v \in LiveInOf(f, b, out) <=> v \in LiveAbove(body, out \cup onExit) /\ ~byPhi(v)
  BY DEF LiveInOf, onExit
<1>4. DOMAIN body = 1 .. Len(body) /\ Len(body) \in Nat
  BY <1>1
<1>5. ASSUME NEW v
      PROVE  Defines(f, b, v) <=> byPhi(v) \/ ~PassesThrough(body, 1, v)
  BY <1>4 DEF Defines, PassesThrough, Range
<1>6. ASSUME NEW v
      PROVE  ReadsFrom(body, 1, v) <=>
                \E i \in DOMAIN body : /\ v \in body[i].uses
                                       /\ \A j \in DOMAIN body : j < i => body[j].def # v
  BY <1>4 DEF ReadsFrom
<1>7. ASSUME NEW v
      PROVE  ReadsOnArrival(f, b, v) <=>
                (~byPhi(v) /\ ReadsFrom(body, 1, v)) \/ (~Defines(f, b, v) /\ v \in onExit)
  BY <1>6 DEF ReadsOnArrival, onExit
<1> HIDE DEF body, byPhi
<1> QED
  BY <1>2, <1>3, <1>5, <1>7

-----------------------------------------------------------------------------
(* The two theorems *)

\* A problem is one of the two analyses of its function.
LEMMA ProblemIs ==
    ASSUME problem \in Problems
    PROVE  /\ IsFunction(problem.function)
           /\ problem.succ = problem.function.succ
           /\ \A b \in Blocks : \A S \in SUBSET Facts :
                /\ problem.direction = "Backward" =>
                      problem.transfer[b][S] = LiveInOf(problem.function, b, S)
                /\ problem.direction = "Forward" =>
                      problem.transfer[b][S] = ReachingOutOf(problem.function, b, S)
<1> DEFINE f == problem.function
<1>1. IsFunction(f) /\ (problem = LivenessProblem(f) \/ problem = ReachingProblem(f))
  BY AnalysisAssumption
<1> HIDE DEF f
<1>2. CASE problem = LivenessProblem(f)
  BY <1>1, <1>2 DEF LivenessProblem, f
<1>3. CASE problem = ReachingProblem(f)
  BY <1>1, <1>3 DEF ReachingProblem, f
<1> QED
  BY <1>1, <1>2, <1>3

\* Liveness: the solver's sets are the path-defined ones.
THEOREM LivenessIsExact == Spec => []LivenessIsPathLiveness
<1>1. IInv => LivenessIsPathLiveness
  <2> SUFFICES ASSUME IInv, Solved, problem.direction = "Backward"
               PROVE  \A b \in Blocks :
                        /\ LiveIn(b) = LiveOnPath(problem.function, b)
                        /\ LiveOut(b) = PhiUsesOnExit(problem.function, b) \cup
                              UNION {LiveOnPath(problem.function, s) :
                                        s \in problem.function.succ[b]}
    BY DEF LivenessIsPathLiveness
  <2> DEFINE f == problem.function
             stop(v) == {d \in Blocks : Defines(f, d, v)}
             s == [b \in Blocks |-> LiveOnPath(f, b)]
  <2>1. problem \in Problems /\ after \in [Blocks -> SUBSET Facts]
    BY DEF IInv, Types
  <2>2. /\ IsFunction(f) /\ problem.succ = f.succ
        /\ \A b \in Blocks : \A S \in SUBSET Facts :
              problem.transfer[b][S] = LiveInOf(f, b, S)
    BY <2>1, ProblemIs
  <2> HIDE DEF f
  <2>3. f.succ \in [Blocks -> SUBSET Blocks]
    BY <2>2 DEF IsFunction
  <2>4. \A b \in Blocks : Sources(b) = f.succ[b] /\ (IsBoundary(b) <=> f.succ[b] = {})
    BY <2>2 DEF Sources, IsBoundary, Successors
  <2>5. \A b \in Blocks : after[b] = LiveInOf(f, b, UNION {after[n] : n \in f.succ[b]})
                          /\ before[b] = UNION {after[n] : n \in f.succ[b]}
    <3> SUFFICES ASSUME NEW b \in Blocks
                 PROVE  /\ after[b] = LiveInOf(f, b, UNION {after[n] : n \in f.succ[b]})
                        /\ before[b] = UNION {after[n] : n \in f.succ[b]}
      OBVIOUS
    <3>1. queued = {}
      BY DEF IInv, QueuedIsListed, Entries, Solved
    <3>2. before[b] = Incoming(b) /\ after[b] = problem.transfer[b][before[b]]
          /\ (IsBoundary(b) => before[b] = {}) /\ before[b] \in SUBSET Facts
      BY <3>1 DEF IInv, SolvedOffTheList, BoundaryIsEmpty, Types
    <3>3. before[b] = UNION {after[n] : n \in f.succ[b]}
      BY <2>4, <3>2 DEF Incoming
    <3> QED
      BY <2>2, <3>2, <3>3
  <2>6. ASSUME NEW b \in Blocks
        PROVE  LiveOnPath(f, b) =
                  LiveInOf(f, b, UNION {LiveOnPath(f, n) : n \in f.succ[b]})
    <3> DEFINE out == UNION {LiveOnPath(f, n) : n \in f.succ[b]}
    <3>1. out \in SUBSET Facts
      BY DEF LiveOnPath
    <3>2. ASSUME NEW v \in Facts
          PROVE  v \in LiveOnPath(f, b) <=>
                    ReadsOnArrival(f, b, v) \/ (v \in out /\ ~Defines(f, b, v))
      <4>1. v \in LiveOnPath(f, b) <=>
               \E c \in ArrivesAt(f, b, stop(v)) : ReadsOnArrival(f, c, v)
        BY DEF LiveOnPath
      <4>2. v \in out <=>
               \E n \in f.succ[b] : \E c \in ArrivesAt(f, n, stop(v)) : ReadsOnArrival(f, c, v)
        BY DEF LiveOnPath
      <4>3. b \in stop(v) <=> Defines(f, b, v)
        OBVIOUS
      <4> HIDE DEF stop, out
      <4>4. \A c : c \in ArrivesAt(f, b, stop(v)) <=>
               c = b \/ (b \notin stop(v) /\ \E n \in f.succ[b] : c \in ArrivesAt(f, n, stop(v)))
        BY <2>3, ArrivesFromSuccessors
      <4> QED
        BY <4>1, <4>2, <4>3, <4>4
    <3>3. LiveOnPath(f, b) \subseteq Facts
      BY DEF LiveOnPath
    <3> HIDE DEF out
    <3>4. /\ LiveInOf(f, b, out) \subseteq Facts
          /\ \A v : v \in LiveInOf(f, b, out) <=>
                 ReadsOnArrival(f, b, v) \/ (v \in out /\ ~Defines(f, b, v))
      BY <2>2, <3>1, LiveInIs
    <3>5. LiveOnPath(f, b) = LiveInOf(f, b, out)
      BY <3>2, <3>3, <3>4
    <3> QED
      BY <3>5 DEF out
  <2>7. s \in [Blocks -> SUBSET Facts]
    BY DEF LiveOnPath
  <2>8. IsSolution(s)
    <3> SUFFICES ASSUME NEW b \in Blocks
                 PROVE  s[b] = problem.transfer[b][
                          IF IsBoundary(b) THEN {} ELSE UNION {s[n] : n \in Sources(b)}]
      BY DEF IsSolution
    <3> DEFINE arriving == IF IsBoundary(b) THEN {} ELSE UNION {s[n] : n \in Sources(b)}
    <3>1. {s[n] : n \in f.succ[b]} = {LiveOnPath(f, n) : n \in f.succ[b]}
      BY <2>3
    <3>2. arriving = UNION {LiveOnPath(f, n) : n \in f.succ[b]}
      <4>1. CASE IsBoundary(b)
        BY <2>4, <4>1
      <4>2. CASE ~IsBoundary(b)
        BY <2>4, <3>1, <4>2
      <4> QED
        BY <4>1, <4>2
    <3>3. arriving \in SUBSET Facts
      <4>1. \A n : LiveOnPath(f, n) \subseteq Facts
        BY DEF LiveOnPath
      <4> HIDE DEF arriving
      <4> QED
        BY <3>2, <4>1
    <3> HIDE DEF arriving
    <3>4. s[b] = LiveInOf(f, b, arriving)
      BY <2>6, <3>2
    <3>5. s[b] = problem.transfer[b][arriving]
      BY <2>2, <3>3, <3>4
    <3> QED
      BY <3>5 DEF arriving
  <2>9. \A b \in Blocks : after[b] \subseteq LiveOnPath(f, b)
    <3>1. \A b \in Blocks : after[b] \subseteq s[b]
      <4> HIDE DEF s
      <4> QED
        BY <2>7, <2>8 DEF IInv, BelowEverySolution
    <3> QED
      BY <3>1
  <2>10. ASSUME NEW b \in Blocks, NEW v \in LiveOnPath(f, b) PROVE v \in after[b]
    <3> DEFINE X == {d \in Blocks : v \notin after[d]}
    <3> SUFFICES ASSUME b \in X PROVE FALSE
      OBVIOUS
    <3>1. \A d \in Blocks : v \in after[d] <=>
             \/ ReadsOnArrival(f, d, v)
             \/ (\E n \in f.succ[d] : v \in after[n]) /\ ~Defines(f, d, v)
      <4> SUFFICES ASSUME NEW d \in Blocks
                   PROVE  v \in after[d] <=>
                             \/ ReadsOnArrival(f, d, v)
                             \/ (\E n \in f.succ[d] : v \in after[n]) /\ ~Defines(f, d, v)
        OBVIOUS
      <4> DEFINE out == UNION {after[n] : n \in f.succ[d]}
      <4>1. out \in SUBSET Facts
        BY <2>1, <2>3
      <4>2. v \in out <=> \E n \in f.succ[d] : v \in after[n]
        OBVIOUS
      <4>3. after[d] = LiveInOf(f, d, out)
        BY <2>5
      <4> HIDE DEF out
      <4>4. v \in LiveInOf(f, d, out) <=>
                ReadsOnArrival(f, d, v) \/ (v \in out /\ ~Defines(f, d, v))
        BY <2>2, <4>1, LiveInIs
      <4> QED
        BY <4>2, <4>3, <4>4
    <3>2. Closed(f, X, stop(v))
      BY <2>3, <3>1 DEF Closed
    <3> HIDE DEF X
    <3>3. ArrivesAt(f, b, stop(v)) \subseteq X
      <4> HIDE DEF stop
      <4> QED
        BY <2>3, <3>2, ArrivesLeast
    <3>4. PICK c \in ArrivesAt(f, b, stop(v)) : ReadsOnArrival(f, c, v)
      BY DEF LiveOnPath
    <3> QED
      BY <3>1, <3>3, <3>4 DEF X
  <2>11. \A b \in Blocks : after[b] = LiveOnPath(f, b)
    BY <2>9, <2>10
  <2>12. ASSUME NEW b \in Blocks
         PROVE  before[b] = UNION {LiveOnPath(f, n) : n \in f.succ[b]}
    <3>1. {after[n] : n \in f.succ[b]} = {LiveOnPath(f, n) : n \in f.succ[b]}
      BY <2>3, <2>11
    <3> QED
      BY <2>5, <3>1
  <2> QED
    BY <2>11, <2>12 DEF LiveIn, LiveOut, f
<1> QED
  BY <1>1, Invariant, PTL

\* Reaching definitions: the solver's sets are the path-defined ones.
THEOREM ReachingIsExact == Spec => []ReachingIsPathReaching
<1>1. IInv => ReachingIsPathReaching
  <2> DEFINE f == problem.function
             writers(d) == {b \in Blocks : WritesSlot(f, b, f.slot[d])}
             P(b) == {d \in Facts : \E home \in Blocks :
                        /\ LeavesItsBlock(f, home, d)
                        /\ \E s \in f.succ[home] : b \in ArrivesAt(f, s, writers(d))}
             preds(b) == {n \in Blocks : b \in f.succ[n]}
             t == [b \in Blocks |-> ReachingOutOf(f, b, P(b))]
  <2> SUFFICES ASSUME IInv, Solved, problem.direction = "Forward"
               PROVE  \A b \in Blocks : before[b] = P(b)
    BY DEF ReachingIsPathReaching
  <2>1. problem \in Problems /\ after \in [Blocks -> SUBSET Facts]
    BY DEF IInv, Types
  <2>2. /\ IsFunction(f) /\ problem.succ = f.succ
        /\ \A b \in Blocks : \A S \in SUBSET Facts :
              problem.transfer[b][S] = ReachingOutOf(f, b, S)
    BY <2>1, ProblemIs
  <2> HIDE DEF f
  <2>3. /\ f.succ \in [Blocks -> SUBSET Blocks]
        /\ \A b \in Blocks : 1 \notin f.succ[b] /\ f.stores[b] \in Seq(Facts)
    BY <2>2 DEF IsFunction
  <2>4. \A b \in Blocks : Sources(b) = preds(b) /\ (IsBoundary(b) <=> b = 1)
    BY <2>2 DEF Sources, IsBoundary, Predecessors
  <2>5. preds(1) = {}
    BY <2>3
  <2>6. ASSUME NEW b \in Blocks, NEW S \in SUBSET Facts
        PROVE  /\ ReachingOutOf(f, b, S) \subseteq Facts
               /\ \A d : d \in ReachingOutOf(f, b, S) <=>
                     LeavesItsBlock(f, b, d) \/ (d \in S /\ ~WritesSlot(f, b, f.slot[d]))
    BY <2>3, ReachingOutIs
  <2>7. ASSUME NEW b \in Blocks
        PROVE  /\ before[b] = UNION {after[n] : n \in preds(b)}
               /\ after[b] = ReachingOutOf(f, b, before[b])
               /\ before[b] \in SUBSET Facts
    <3>1. queued = {}
      BY DEF IInv, QueuedIsListed, Entries, Solved
    <3>2. before[b] = Incoming(b) /\ after[b] = problem.transfer[b][before[b]]
          /\ (IsBoundary(b) => before[b] = {}) /\ before[b] \in SUBSET Facts
      BY <3>1 DEF IInv, SolvedOffTheList, BoundaryIsEmpty, Types
    <3>3. before[b] = UNION {after[n] : n \in preds(b)}
      BY <2>4, <2>5, <3>2 DEF Incoming
    <3> QED
      BY <2>2, <3>2, <3>3
  <2>8. ASSUME NEW b \in Blocks, NEW d \in Facts
        PROVE  d \in P(b) <=>
                  \E n \in preds(b) : \/ LeavesItsBlock(f, n, d)
                                      \/ d \in P(n) /\ ~WritesSlot(f, n, f.slot[d])
    <3>1. \A n \in Blocks : n \in writers(d) <=> WritesSlot(f, n, f.slot[d])
      OBVIOUS
    <3>2. \A s \in Blocks :
             b \in ArrivesAt(f, s, writers(d)) <=>
                b = s \/ \E n \in ArrivesAt(f, s, writers(d)) \ writers(d) : b \in f.succ[n]
      <4> HIDE DEF writers
      <4> QED
        BY <2>3, ArrivesFromPredecessors
    <3>3. \A s \in Blocks : ArrivesAt(f, s, writers(d)) \subseteq Blocks
      <4> HIDE DEF writers
      <4> QED
        BY <2>3, ArrivesClosed DEF Closed
    <3>4. \A c : d \in P(c) <=>
             \E home \in Blocks :
                 /\ LeavesItsBlock(f, home, d)
                 /\ \E s \in f.succ[home] : c \in ArrivesAt(f, s, writers(d))
      OBVIOUS
    <3> HIDE DEF P, writers
    <3>5. d \in P(b) => (\E n \in preds(b) : \/ LeavesItsBlock(f, n, d)
                                             \/ d \in P(n) /\ ~WritesSlot(f, n, f.slot[d]))
      <4> SUFFICES ASSUME d \in P(b)
                   PROVE  \E n \in preds(b) : \/ LeavesItsBlock(f, n, d)
                                              \/ d \in P(n) /\ ~WritesSlot(f, n, f.slot[d])
        OBVIOUS
      <4>0. PICK home \in Blocks : /\ LeavesItsBlock(f, home, d)
                                   /\ \E s \in f.succ[home] : b \in ArrivesAt(f, s, writers(d))
        BY <3>4
      <4>1. PICK s \in f.succ[home] : b \in ArrivesAt(f, s, writers(d))
        BY <4>0
      <4>2. s \in Blocks
        BY <2>3, <4>1
      <4>3. CASE b = s
        BY <4>0, <4>1, <4>3
      <4>4. CASE b # s
        <5>1. PICK n \in ArrivesAt(f, s, writers(d)) \ writers(d) : b \in f.succ[n]
          BY <3>2, <4>1, <4>2, <4>4
        <5>2. n \in Blocks /\ d \in P(n)
          BY <3>3, <3>4, <4>0, <4>1, <4>2, <5>1
        <5> QED
          BY <3>1, <5>1, <5>2
      <4> QED
        BY <4>3, <4>4
    <3>6. ASSUME NEW n \in preds(b),
                 LeavesItsBlock(f, n, d) \/ (d \in P(n) /\ ~WritesSlot(f, n, f.slot[d]))
          PROVE  d \in P(b)
      <4>1. CASE LeavesItsBlock(f, n, d)
        <5>1. b \in ArrivesAt(f, b, writers(d))
          BY <3>2
        <5> QED
          BY <3>4, <4>1, <5>1
      <4>2. CASE d \in P(n) /\ ~WritesSlot(f, n, f.slot[d])
        <5>0. PICK home \in Blocks : /\ LeavesItsBlock(f, home, d)
                                     /\ \E s \in f.succ[home] : n \in ArrivesAt(f, s, writers(d))
          BY <3>4, <4>2
        <5>1. PICK s \in f.succ[home] : n \in ArrivesAt(f, s, writers(d))
          BY <5>0
        <5>2. s \in Blocks
          BY <2>3, <5>1
        <5>3. n \in ArrivesAt(f, s, writers(d)) \ writers(d)
          BY <3>1, <4>2, <5>1
        <5>4. b \in ArrivesAt(f, s, writers(d))
          BY <3>2, <5>2, <5>3
        <5> QED
          BY <3>4, <5>0, <5>1, <5>4
      <4> QED
        BY <3>6, <4>1, <4>2
    <3> QED
      BY <3>5, <3>6
  <2>9. \A b : P(b) \in SUBSET Facts
    OBVIOUS
  <2> HIDE DEF P
  <2>10. ASSUME NEW b \in Blocks PROVE P(b) = UNION {t[n] : n \in preds(b)}
    <3>1. \A n \in preds(b) : t[n] = ReachingOutOf(f, n, P(n))
      OBVIOUS
    <3>2. \A n \in preds(b) : t[n] \subseteq Facts
      BY <2>6, <2>9, <3>1
    <3>3. ASSUME NEW d \in Facts
          PROVE  d \in P(b) <=> \E n \in preds(b) : d \in t[n]
      <4>1. \A n \in preds(b) : d \in t[n] <=>
               LeavesItsBlock(f, n, d) \/ (d \in P(n) /\ ~WritesSlot(f, n, f.slot[d]))
        BY <2>6, <2>9, <3>1
      <4> QED
        BY <2>8, <4>1
    <3> HIDE DEF t, preds
    <3> QED
      BY <2>9, <3>2, <3>3
  <2>11. t \in [Blocks -> SUBSET Facts]
    BY <2>6, <2>9
  <2>12. IsSolution(t)
    <3> SUFFICES ASSUME NEW b \in Blocks
                 PROVE  t[b] = problem.transfer[b][
                          IF IsBoundary(b) THEN {} ELSE UNION {t[n] : n \in Sources(b)}]
      BY DEF IsSolution
    <3>1. (IF IsBoundary(b) THEN {} ELSE UNION {t[n] : n \in Sources(b)}) = P(b)
      <4> HIDE DEF t
      <4>1. CASE IsBoundary(b)
        BY <2>4, <2>5, <2>10, <4>1
      <4>2. CASE ~IsBoundary(b)
        BY <2>4, <2>10, <4>2
      <4> QED
        BY <4>1, <4>2
    <3>2. t[b] = problem.transfer[b][P(b)]
      BY <2>2, <2>9
    <3> QED
      BY <3>1, <3>2
  <2>13. \A b \in Blocks : after[b] \subseteq t[b]
    <3> HIDE DEF t
    <3> QED
      BY <2>11, <2>12 DEF IInv, BelowEverySolution
  <2>14. ASSUME NEW b \in Blocks PROVE before[b] \subseteq P(b)
    <3>1. \A n \in preds(b) : after[n] \subseteq t[n]
      BY <2>13
    <3> HIDE DEF t, preds
    <3> QED
      BY <2>7, <2>10, <3>1
  <2>15. ASSUME NEW b \in Blocks, NEW d \in P(b) PROVE d \in before[b]
    <3> DEFINE X == {c \in Blocks : d \in before[c]}
    <3>0. PICK home \in Blocks : /\ LeavesItsBlock(f, home, d)
                                 /\ \E s \in f.succ[home] : b \in ArrivesAt(f, s, writers(d))
      BY DEF P
    <3>1. PICK s \in f.succ[home] : b \in ArrivesAt(f, s, writers(d))
      BY <3>0
    <3>2. s \in Blocks
      BY <2>3, <3>1
    <3>3. ASSUME NEW n \in Blocks, NEW c \in f.succ[n],
                 LeavesItsBlock(f, n, d) \/ (d \in before[n] /\ ~WritesSlot(f, n, f.slot[d]))
          PROVE  c \in X
      <4>1. c \in Blocks /\ n \in preds(c)
        BY <2>3
      <4>2. after[n] = ReachingOutOf(f, n, before[n]) /\ before[n] \in SUBSET Facts
        BY <2>7
      <4>3. d \in after[n]
        BY <2>6, <3>3, <4>2
      <4>4. before[c] = UNION {after[m] : m \in preds(c)}
        BY <2>7, <4>1
      <4> HIDE DEF preds
      <4> QED
        BY <4>1, <4>3, <4>4
    <3>4. s \in X
      BY <3>0, <3>1, <3>3
    <3>5. Closed(f, X, writers(d))
      <4>1. ASSUME NEW n \in X \ writers(d) PROVE f.succ[n] \subseteq X
        <5>1. n \in Blocks /\ d \in before[n] /\ ~WritesSlot(f, n, f.slot[d])
          OBVIOUS
        <5> HIDE DEF X
        <5> QED
          BY <3>3, <5>1
      <4> QED
        BY <4>1 DEF Closed
    <3> HIDE DEF X, writers
    <3>6. ArrivesAt(f, s, writers(d)) \subseteq X
      BY <2>3, <3>2, <3>4, <3>5, ArrivesLeast
    <3> QED
      BY <3>1, <3>6 DEF X
  <2> QED
    BY <2>14, <2>15
<1> QED
  BY <1>1, Invariant, PTL
=============================================================================
