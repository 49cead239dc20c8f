---------------------------- MODULE BackendProofs ----------------------------
(***************************************************************************)
(* What the colouring guarantees for every interference graph, every list  *)
(* of moves and every register pool: the types, that interfering units     *)
(* never share a register, that a unit live across a call is never in a    *)
(* caller-saved one, and which nodes can be left without a register: only  *)
(* those spillOne pushed, as long as every register of the pool survives a *)
(* call.  And Briggs' theorem about the code's test: merging two nodes it  *)
(* allows never makes a colourable graph uncolourable.                     *)
(*                                                                         *)
(* Then what the allocator guarantees for every function it is given, one  *)
(* after the other: the graph is the one built from the function, every    *)
(* pair that must be kept apart is an edge of it, and so no instruction    *)
(* overwrites a register that holds a value still needed.  And the frame   *)
(* the code generator lays out keeps the stack aligned.                    *)
(*                                                                         *)
(* Last, what block layout guarantees for every function and all counts:   *)
(* control goes from every branch where it went before.                    *)
(***************************************************************************)
EXTENDS Allocation, MachineCode, MeasuredBuild, Induction

\* The graph stays symmetric and the moves stay within a class.
InputsOK == IsGraph(graph, regClass) /\ IsMoveList(moves, regClass)

\* A representative represents itself, and is of its units' class.
RepsOK == \A u \in Units : rep[rep[u]] = rep[u] /\ regClass[rep[u]] = regClass[u]

\* Every edge of the original graph can still be read off the neighbour sets,
\* from either end, whatever has been merged.
EdgesKept == \A u \in Units : \A v \in graph[u] : rep[v] \in NeighbourRoots(rep[u])

\* A node is coloured in its own class's select loop, not before.
ColouredLate ==
    \A u \in Units : color[u] # None =>
        \/ regClass[u] = class /\ phase \in {"select", "publish", "done"}
        \/ regClass[u] = "Integer" /\ class = "Float"

\* The select stack holds nodes of the class being coloured.
OrderOK == phase \in {"main", "select"} =>
              \A i \in DOMAIN order : regClass[order[i]] = class

\* A node that is off the graph holds no colour yet.
RemovedUncoloured == \A u \in removed : color[u] = None

\* The colours handed out so far differ along every original edge.
ColoursDiffer ==
    \A u \in Units : \A v \in graph[u] :
        color[rep[u]] # None => color[rep[u]] # color[rep[v]]

\* Merging never forgets a call, and no colour given to a crossing unit is one
\* a call destroys.
CallsKept == \A u \in spans : rep[u] \in crossesCall
CallColours == \A u \in crossesCall : color[u] \in CalleeSaved \cup {None}

\* The published register of a unit is the colour of its representative.
Published == \A u \in Units : assigned[u] \in {None, color[rep[u]]}
NotYetPublished == phase # "done" => \A u \in Units : assigned[u] = None

IInv ==
    /\ TypeOK
    /\ InputsOK
    /\ RepsOK
    /\ EdgesKept
    /\ ColouredLate
    /\ OrderOK
    /\ RemovedUncoloured
    /\ ColoursDiffer
    /\ CallsKept
    /\ CallColours
    /\ Published
    /\ NotYetPublished

-----------------------------------------------------------------------------
\* The pool of the class being coloured is a sequence of registers.
LEMMA PoolType ==
    ASSUME TypeOK
    PROVE  /\ Pool \in Seq(Registers)
           /\ \A i \in DOMAIN Pool : Pool[i] \in Registers /\ Pool[i] # None
BY PoolAssumption DEF TypeOK, Pool, RegClasses

\* Nothing has been coloured, merged or pushed yet, whatever is off the graph.
Fresh ==
    /\ target \in [RegClasses -> Seq(Registers)] /\ regClass \in [Units -> RegClasses]
    /\ graph \in [Units -> SUBSET Units] /\ spans \in SUBSET Units
    /\ moves \in Seq(Units \X Units) /\ useWeight \in [Units -> Nat]
    /\ InputsOK
    /\ neighbours = graph /\ crossesCall = spans
    /\ removed \in SUBSET Units
    /\ color = [u \in Units |-> None] /\ assigned = [u \in Units |-> None]
    /\ rep = [u \in Units |-> u]
    /\ spilled = {} /\ settled = {} /\ optimistic = {} /\ order = <<>>
    /\ class \in RegClasses /\ phase \in {"enter", "done"}

\* A fresh state satisfies the inductive invariant.
LEMMA FreshIInv == Fresh => IInv
<1> SUFFICES ASSUME Fresh PROVE IInv
  OBVIOUS
<1>1. TypeOK
  BY DEF Fresh, TypeOK
<1>2. InputsOK
  BY DEF Fresh
<1>3. RepsOK
  BY DEF Fresh, RepsOK
<1>4. EdgesKept
  <2> SUFFICES ASSUME NEW u \in Units, NEW v \in graph[u]
               PROVE  rep[v] \in NeighbourRoots(rep[u])
    BY DEF EdgesKept
  <2>1. v \in Units /\ u # v
    BY <1>1, <1>2 DEF InputsOK, IsGraph, TypeOK
  <2> QED
    BY <2>1 DEF Fresh, NeighbourRoots
<1>5. ColouredLate /\ OrderOK /\ RemovedUncoloured
  BY DEF Fresh, ColouredLate, OrderOK, RemovedUncoloured
<1>6. ColoursDiffer
  BY <1>1 DEF Fresh, ColoursDiffer, TypeOK
<1>7. CallsKept /\ CallColours /\ Published /\ NotYetPublished
  BY <1>1 DEF Fresh, CallsKept, CallColours, Published, NotYetPublished, TypeOK
<1> QED
  BY <1>1, <1>2, <1>3, <1>4, <1>5, <1>6, <1>7 DEF IInv

\* The initial states satisfy the inductive invariant.
LEMMA InitIInv == Init => IInv
<1>1. Init => Fresh
  BY InputAssumption, PoolAssumption DEF Init, Fresh, InputsOK, RegClasses
<1> QED
  BY <1>1, FreshIInv

-----------------------------------------------------------------------------
\* A step that pushes one node of the class onto the select stack and touches
\* nothing else the invariant reads.
LEMMA PushIInv ==
    ASSUME IInv, phase = "main",
           NEW node \in Units, StillInGraph(node), Push(node),
           settled' \in SUBSET DOMAIN moves, optimistic' \in SUBSET Units,
           UNCHANGED <<inputs, neighbours, crossesCall, useWeight, color,
                       spilled, rep, class, phase, result>>
    PROVE  IInv'
<1> USE DEF inputs, result
<1>1. TypeOK'
  <2>1. order' \in Seq(Units) /\ removed' \in SUBSET Units
    BY DEF IInv, TypeOK, Push
  <2> QED
    BY <2>1 DEF IInv, TypeOK
<1>2. InputsOK' /\ RepsOK' /\ EdgesKept'
  BY DEF IInv, InputsOK, RepsOK, EdgesKept, NeighbourRoots
<1>3. ColouredLate' /\ ColoursDiffer' /\ CallsKept' /\ CallColours'
  BY DEF IInv, ColouredLate, ColoursDiffer, CallsKept, CallColours
<1>4. OrderOK'
  BY DEF IInv, OrderOK, TypeOK, Push, StillInGraph
<1>5. RemovedUncoloured'
  BY DEF IInv, RemovedUncoloured, ColouredLate, TypeOK, Push, StillInGraph
<1>6. Published' /\ NotYetPublished'
  BY DEF IInv, Published, NotYetPublished
<1> QED
  BY <1>1, <1>2, <1>3, <1>4, <1>5, <1>6 DEF IInv

\* A mergeable move joins two distinct representatives of the class being
\* coloured that no original edge connects.
LEMMA MergeableEnds ==
    ASSUME IInv, NEW m \in DOMAIN moves, Mergeable(m),
           NEW keep, keep = Destination(m), NEW gone, gone = Source(m)
    PROVE  /\ keep \in Units /\ gone \in Units /\ keep # gone
           /\ rep[keep] = keep /\ rep[gone] = gone
           /\ regClass[keep] = class /\ regClass[gone] = class
           /\ gone \notin NeighbourRoots(keep) /\ keep \notin NeighbourRoots(gone)
<1>1. moves[m] \in Units \X Units
  BY DEF IInv, TypeOK
<1>2. keep \in Units /\ gone \in Units
  BY <1>1 DEF IInv, TypeOK, Destination, Source
<1>3. rep[keep] = keep /\ rep[gone] = gone
  BY <1>1 DEF IInv, RepsOK, Destination, Source
<1>4. regClass[keep] = class
  BY DEF Mergeable, Pending
<1>5. regClass[gone] = regClass[keep]
  <2>1. regClass[moves[m][1]] = regClass[moves[m][2]]
    BY DEF IInv, InputsOK, IsMoveList
  <2> QED
    BY <1>1, <2>1 DEF IInv, RepsOK, Destination, Source
<1> QED
  BY <1>2, <1>3, <1>4, <1>5 DEF Mergeable, Constrained

\* Merging two such representatives keeps every original edge visible.
LEMMA MergeKeepsEdges ==
    ASSUME IInv, NEW keep \in Units, NEW gone \in Units, keep # gone,
           rep[keep] = keep, rep[gone] = gone,
           gone \notin NeighbourRoots(keep), keep \notin NeighbourRoots(gone),
           MergeUnits(keep, gone), UNCHANGED graph
    PROVE  EdgesKept'
<1> SUFFICES ASSUME NEW u \in Units, NEW v \in graph[u]
             PROVE  (rep[v] \in NeighbourRoots(rep[u]))'
  BY DEF EdgesKept
<1> DEFINE U == rep[u]
           V == rep[v]
           roots == {rep[n] : n \in neighbours[gone]}
<1>1. v \in Units /\ u \in graph[v] /\ U \in Units /\ V \in Units
  BY DEF IInv, InputsOK, IsGraph, TypeOK
<1>2. V \in NeighbourRoots(U) /\ U \in NeighbourRoots(V)
  BY <1>1 DEF IInv, EdgesKept
<1>3. rep[U] = U /\ rep[V] = V
  BY <1>1 DEF IInv, RepsOK
<1>4. rep' = [w \in Units |-> IF rep[w] = gone THEN keep ELSE rep[w]]
  BY DEF MergeUnits
<1>5. neighbours' =
        [w \in Units |->
            CASE w = gone -> {}
              [] w = keep -> (neighbours[keep] \cup (roots \ {keep})) \ {gone}
              [] w \in roots \ {keep, gone} -> (neighbours[w] \cup {keep}) \ {gone}
              [] OTHER -> neighbours[w]]
  BY DEF MergeUnits
<1>6. U # V
  BY <1>2 DEF NeighbourRoots
<1>7. SUFFICES /\ rep'[v] # rep'[u]
               /\ \E n \in neighbours'[rep'[u]] : rep'[n] = rep'[v]
  BY DEF NeighbourRoots
<1>8. PICK n \in neighbours[U] : rep[n] = V
  BY <1>2 DEF NeighbourRoots
<1>9. n \in Units /\ roots \subseteq Units
  BY <1>1 DEF IInv, TypeOK
<1>10. ~(U = keep /\ V = gone) /\ ~(U = gone /\ V = keep)
  BY <1>2
<1>11. rep'[v] # rep'[u]
  BY <1>1, <1>4, <1>6, <1>10
<1>12. CASE U = gone
  <2>1. V \in roots /\ V # keep /\ V # gone
    BY <1>2, <1>6, <1>10, <1>12 DEF NeighbourRoots
  <2>2. rep'[u] = keep /\ rep'[v] = V /\ rep'[V] = V
    BY <1>1, <1>3, <1>4, <1>12, <2>1
  <2>3. V \in neighbours'[keep]
    BY <1>5, <2>1
  <2> QED
    BY <1>11, <2>2, <2>3
<1>13. CASE U = keep
  <2>1. V # gone /\ n # gone
    BY <1>8, <1>10, <1>13
  <2>2. rep'[u] = keep /\ rep'[n] = rep'[v]
    BY <1>1, <1>4, <1>8, <1>9, <1>13
  <2>3. n \in neighbours'[keep]
    BY <1>5, <1>8, <1>13, <2>1
  <2> QED
    BY <1>11, <2>2, <2>3
<1>14. CASE U # gone /\ U # keep /\ V = gone
  <2>1. U \in roots
    BY <1>2, <1>14 DEF NeighbourRoots
  <2>2. rep'[u] = U /\ rep'[v] = keep /\ rep'[keep] = keep
    BY <1>1, <1>4, <1>14
  <2>3. keep \in neighbours'[U]
    BY <1>1, <1>5, <1>14, <2>1
  <2> QED
    BY <1>11, <2>2, <2>3
<1>15. CASE U # gone /\ U # keep /\ V # gone
  <2>1. n # gone
    BY <1>8, <1>15
  <2>2. rep'[u] = U /\ rep'[v] = V /\ rep'[n] = V
    BY <1>1, <1>4, <1>8, <1>9, <1>15
  <2>3. n \in neighbours'[U]
    BY <1>1, <1>5, <1>8, <1>15, <2>1
  <2> QED
    BY <1>11, <2>2, <2>3
<1> QED
  BY <1>12, <1>13, <1>14, <1>15

-----------------------------------------------------------------------------
\* A step that writes neither the Unit fields of a node nor the results, and
\* stays within its class or moves on from Integer to Float.
LEMMA BookkeepingIInv ==
    ASSUME IInv,
           UNCHANGED <<inputs, neighbours, crossesCall, useWeight, removed,
                       color, rep, result>>,
           spilled' \in SUBSET Units, settled' \in SUBSET DOMAIN moves,
           optimistic' = optimistic,
           order' \in {order, <<>>}, order' # order => phase = "enter",
           \/ phase \in {"enter", "main"} /\ class' = class
                /\ phase' \in {"main", "select"} /\ order' = <<>>
           \/ phase = "main" /\ class' = class
                /\ phase' \in {"main", "select"} /\ order' = order
           \/ phase \in {"enter", "select"} /\ LeaveClass
                /\ (phase' = "enter" \/ phase' = "publish") /\ order' = order
    PROVE  IInv'
<1> USE DEF inputs, result
<1>1. TypeOK'
  <2>1. class' \in RegClasses
    BY DEF IInv, TypeOK, LeaveClass, RegClasses
  <2>2. order' \in Seq(Units)
    <3>1. <<>> \in Seq(Units) /\ order \in Seq(Units)
      BY DEF IInv, TypeOK
    <3> QED
      BY <3>1
  <2>3. phase' \in {"enter", "main", "select", "publish", "done"}
    OBVIOUS
  <2> QED
    BY <2>1, <2>2, <2>3 DEF IInv, TypeOK
<1>2. InputsOK' /\ RepsOK' /\ EdgesKept'
  BY DEF IInv, InputsOK, RepsOK, EdgesKept, NeighbourRoots
<1>3. ColouredLate'
  BY DEF IInv, ColouredLate, LeaveClass, TypeOK, RegClasses
<1>4. ColoursDiffer' /\ CallsKept' /\ CallColours' /\ RemovedUncoloured'
  BY DEF IInv, ColoursDiffer, CallsKept, CallColours, RemovedUncoloured
<1>5. OrderOK'
  BY DEF IInv, OrderOK
<1>6. Published' /\ NotYetPublished'
  BY DEF IInv, Published, NotYetPublished
<1> QED
  BY <1>1, <1>2, <1>3, <1>4, <1>5, <1>6 DEF IInv

\* Coalescing: the merged node inherits the calls, both ends are uncoloured.
LEMMA CoalesceIInv == IInv /\ Coalesce => IInv'
<1> SUFFICES ASSUME IInv, Coalesce PROVE IInv'
  OBVIOUS
<1> USE DEF inputs, result
<1>0. /\ phase = "main"
      /\ UNCHANGED <<inputs, removed, color, spilled, class, phase, order,
                     optimistic, frozen, result>>
  BY DEF Coalesce
<1>1. PICK m \in DOMAIN moves :
         /\ Mergeable(m)
         /\ MergeUnits(Destination(m), Source(m))
         /\ settled' = settled \cup {m}
                         \cup {i \in DOMAIN moves : i < m /\ ScanSettles(i)}
  BY Zenon DEF Coalesce
<1> DEFINE keep == Destination(m)
           gone == Source(m)
           roots == {rep[n] : n \in neighbours[gone]}
<1>2. /\ keep \in Units /\ gone \in Units /\ keep # gone
      /\ rep[keep] = keep /\ rep[gone] = gone
      /\ regClass[keep] = class /\ regClass[gone] = class
      /\ gone \notin NeighbourRoots(keep) /\ keep \notin NeighbourRoots(gone)
  BY <1>1, MergeableEnds
<1>3. MergeUnits(keep, gone)
  BY <1>1
<1> HIDE DEF keep, gone
<1>4. rep' = [u \in Units |-> IF rep[u] = gone THEN keep ELSE rep[u]]
  BY <1>3 DEF MergeUnits
<1>5. crossesCall' = IF gone \in crossesCall THEN crossesCall \cup {keep} ELSE crossesCall
  BY <1>3 DEF MergeUnits
<1>6. color[keep] = None /\ color[gone] = None
  BY <1>0, <1>2 DEF IInv, ColouredLate, TypeOK, RegClasses
<1>7. TypeOK'
  <2>1. roots \subseteq Units
    BY <1>2 DEF IInv, TypeOK
  <2>2. neighbours' \in [Units -> SUBSET Units]
    <3> DEFINE f(u) ==
          CASE u = gone -> {}
            [] u = keep -> (neighbours[keep] \cup (roots \ {keep})) \ {gone}
            [] u \in roots \ {keep, gone} -> (neighbours[u] \cup {keep}) \ {gone}
            [] OTHER -> neighbours[u]
    <3>1. neighbours' = [u \in Units |-> f(u)]
      BY <1>3 DEF MergeUnits
    <3>2. ASSUME NEW u \in Units PROVE f(u) \in SUBSET Units
      BY <1>2, <2>1 DEF IInv, TypeOK
    <3> HIDE DEF f
    <3> QED
      BY <3>1, <3>2
  <2>3. rep' \in [Units -> Units]
    BY <1>2, <1>4 DEF IInv, TypeOK
  <2>4. useWeight' \in [Units -> Nat]
    <3>1. useWeight' = [useWeight EXCEPT ![keep] = @ + useWeight[gone]]
      BY <1>3 DEF MergeUnits
    <3>2. useWeight \in [Units -> Nat]
      BY DEF IInv, TypeOK
    <3>3. useWeight[keep] + useWeight[gone] \in Nat
      BY <1>2, <3>2
    <3> QED
      BY <1>2, <3>1, <3>2, <3>3
  <2>5. crossesCall' \in SUBSET Units
    BY <1>2, <1>5 DEF IInv, TypeOK
  <2>6. settled' \in SUBSET DOMAIN moves'
    BY <1>0, <1>1 DEF IInv, TypeOK
  <2> QED
    BY <1>0, <2>2, <2>3, <2>4, <2>5, <2>6 DEF IInv, TypeOK
<1>8. InputsOK'
  BY <1>0 DEF IInv, InputsOK
<1>9. RepsOK'
  BY <1>0, <1>2, <1>4 DEF IInv, RepsOK, TypeOK
<1>10. EdgesKept'
  BY <1>0, <1>2, <1>3, MergeKeepsEdges
<1>11. ColouredLate' /\ OrderOK' /\ RemovedUncoloured'
  BY <1>0 DEF IInv, ColouredLate, OrderOK, RemovedUncoloured
<1>12. ColoursDiffer'
  <2> SUFFICES ASSUME NEW u \in Units, NEW v \in graph[u], color[rep'[u]] # None
               PROVE  color[rep'[u]] # color[rep'[v]]
    BY <1>0 DEF ColoursDiffer
  <2>1. v \in Units
    BY DEF IInv, TypeOK
  <2>2. rep[u] # gone /\ rep'[u] = rep[u]
    BY <1>4, <1>6
  <2>3. color[rep[u]] # color[rep[v]]
    BY <2>2 DEF IInv, ColoursDiffer
  <2> QED
    BY <1>4, <1>6, <2>1, <2>2, <2>3
<1>13. CallsKept'
  BY <1>0, <1>4, <1>5 DEF IInv, CallsKept, TypeOK
<1>14. CallColours'
  BY <1>0, <1>5, <1>6 DEF IInv, CallColours
<1>15. Published' /\ NotYetPublished'
  BY <1>0 DEF IInv, Published, NotYetPublished, TypeOK
<1> QED
  BY <1>7, <1>8, <1>9, <1>10, <1>11, <1>12, <1>13, <1>14, <1>15 DEF IInv

-----------------------------------------------------------------------------
\* What popping the select stack yields.
LEMMA PopType ==
    ASSUME IInv, Pop, NEW node, node = order[Len(order)]
    PROVE  /\ node \in Units /\ regClass[node] = class
           /\ order' \in Seq(Units) /\ removed' = removed \ {node}
           /\ \A i \in DOMAIN order' : regClass[order'[i]] = class
<1>1. order \in Seq(Units) /\ order # <<>> /\ Len(order) \in Nat \ {0}
  BY DEF IInv, TypeOK, Pop
<1>2. \A i \in DOMAIN order : regClass[order[i]] = class
  BY DEF IInv, OrderOK, Pop
<1>3. order' = SubSeq(order, 1, Len(order) - 1)
  BY DEF Pop
<1>4. order' \in Seq(Units) /\ \A i \in DOMAIN order' : i \in DOMAIN order /\ order'[i] = order[i]
  BY <1>1, <1>3
<1> QED
  BY <1>1, <1>2, <1>4 DEF Pop

\* Select gives the node a register no edge of the original graph forbids.
LEMMA SelectColorIInv == IInv /\ SelectColor => IInv'
<1> SUFFICES ASSUME IInv, SelectColor PROVE IInv'
  OBVIOUS
<1> USE DEF inputs, result
<1>0. /\ phase = "select" /\ Pop
      /\ UNCHANGED <<inputs, neighbours, crossesCall, useWeight, spilled, rep,
                     settled, class, phase, optimistic, coalesced, frozen, result>>
  BY DEF SelectColor, Pop
<1> DEFINE node == order[Len(order)]
<1>1. PICK reg \in Registers :
         reg # None /\ Usable(node, reg) /\ color' = [color EXCEPT ![node] = reg]
  BY PoolType DEF SelectColor, IInv
<1>2. /\ node \in Units /\ regClass[node] = class
      /\ order' \in Seq(Units) /\ removed' = removed \ {node}
      /\ \A i \in DOMAIN order' : regClass[order'[i]] = class
  BY <1>0, PopType
<1> HIDE DEF node
<1>3. TypeOK'
  BY <1>0, <1>1, <1>2 DEF IInv, TypeOK
<1>4. InputsOK' /\ RepsOK' /\ EdgesKept'
  BY <1>0 DEF IInv, InputsOK, RepsOK, EdgesKept, NeighbourRoots
<1>5. ColouredLate'
  BY <1>0, <1>1, <1>2 DEF IInv, ColouredLate, TypeOK
<1>6. OrderOK'
  BY <1>0, <1>2 DEF OrderOK
<1>7. RemovedUncoloured'
  BY <1>0, <1>1, <1>2 DEF IInv, RemovedUncoloured, TypeOK
<1>8. ASSUME NEW v \in Units, rep[v] \in NeighbourRoots(node)
      PROVE  rep[v] # node /\ color[rep[v]] # reg
  <2>1. rep[v] # node
    BY <1>8 DEF NeighbourRoots
  <2>2. CASE rep[v] \in removed
    BY <1>1, <2>1, <2>2 DEF IInv, RemovedUncoloured
  <2>3. CASE rep[v] \notin removed
    BY <1>1, <1>8, <2>1, <2>3 DEF Usable, Taken, ActiveNeighbours
  <2> QED
    BY <2>1, <2>2, <2>3
<1>9. ColoursDiffer'
  <2> SUFFICES ASSUME NEW u \in Units, NEW v \in graph[u], color'[rep[u]] # None
               PROVE  color'[rep[u]] # color'[rep[v]]
    BY <1>0 DEF ColoursDiffer
  <2>1. v \in Units /\ u \in graph[v] /\ rep[u] \in Units /\ rep[v] \in Units
    BY DEF IInv, InputsOK, IsGraph, TypeOK
  <2>2. rep[v] \in NeighbourRoots(rep[u]) /\ rep[u] \in NeighbourRoots(rep[v])
    BY <2>1 DEF IInv, EdgesKept
  <2>3. CASE rep[u] = node
    BY <1>1, <1>8, <2>1, <2>2, <2>3 DEF IInv, TypeOK
  <2>4. CASE rep[v] = node
    BY <1>1, <1>8, <2>1, <2>2, <2>4 DEF IInv, TypeOK
  <2>5. CASE rep[u] # node /\ rep[v] # node
    <3>1. color'[rep[u]] = color[rep[u]] /\ color'[rep[v]] = color[rep[v]]
      BY <1>1, <2>1, <2>5 DEF IInv, TypeOK
    <3> QED
      BY <3>1 DEF IInv, ColoursDiffer
  <2> QED
    BY <2>3, <2>4, <2>5
<1>10. CallsKept'
  BY <1>0 DEF IInv, CallsKept
<1>11. CallColours'
  BY <1>0, <1>1, <1>2 DEF IInv, CallColours, Usable, TypeOK
<1>12. Published' /\ NotYetPublished'
  BY <1>0 DEF IInv, Published, NotYetPublished
<1> QED
  BY <1>3, <1>4, <1>5, <1>6, <1>7, <1>9, <1>10, <1>11, <1>12 DEF IInv

\* A node that finds no register stays without one.
LEMMA SelectSpillIInv == IInv /\ SelectSpill => IInv'
<1> SUFFICES ASSUME IInv, SelectSpill PROVE IInv'
  OBVIOUS
<1> USE DEF inputs, result
<1> DEFINE node == order[Len(order)]
<1>0. /\ phase = "select" /\ Pop /\ spilled' = spilled \cup {node}
      /\ UNCHANGED <<inputs, neighbours, crossesCall, useWeight, color, rep,
                     settled, class, phase, optimistic, coalesced, frozen, result>>
  BY DEF SelectSpill, Pop
<1>2. /\ node \in Units
      /\ order' \in Seq(Units) /\ removed' = removed \ {node}
      /\ \A i \in DOMAIN order' : regClass[order'[i]] = class
  BY <1>0, PopType
<1>3. TypeOK'
  BY <1>0, <1>2 DEF IInv, TypeOK
<1>4. InputsOK' /\ RepsOK' /\ EdgesKept'
  BY <1>0 DEF IInv, InputsOK, RepsOK, EdgesKept, NeighbourRoots
<1>5. ColouredLate' /\ ColoursDiffer' /\ CallsKept' /\ CallColours'
  BY <1>0 DEF IInv, ColouredLate, ColoursDiffer, CallsKept, CallColours
<1>6. OrderOK' /\ RemovedUncoloured'
  BY <1>0, <1>2 DEF IInv, OrderOK, RemovedUncoloured
<1>7. Published' /\ NotYetPublished'
  BY <1>0 DEF IInv, Published, NotYetPublished
<1> QED
  BY <1>3, <1>4, <1>5, <1>6, <1>7 DEF IInv

\* Publishing gives a unit the colour of its representative.
LEMMA PublishIInv == IInv /\ Publish => IInv'
<1> SUFFICES ASSUME IInv, Publish PROVE IInv'
  OBVIOUS
<1> USE DEF inputs
<1>0. /\ phase = "publish" /\ phase' = "done"
      /\ assigned' = [u \in Units |-> IF InMemory(rep[u]) THEN None ELSE color[rep[u]]]
      /\ UNCHANGED <<inputs, neighbours, crossesCall, useWeight, removed, color,
                     spilled, rep, settled, class, order, optimistic, coalesced,
                     frozen>>
  BY DEF Publish
<1>1. TypeOK'
  BY <1>0 DEF IInv, TypeOK
<1>2. InputsOK' /\ RepsOK' /\ EdgesKept' /\ RemovedUncoloured'
  BY <1>0 DEF IInv, InputsOK, RepsOK, EdgesKept, NeighbourRoots, RemovedUncoloured
<1>3. ColouredLate' /\ ColoursDiffer' /\ CallsKept' /\ CallColours' /\ OrderOK'
  BY <1>0 DEF IInv, ColouredLate, ColoursDiffer, CallsKept, CallColours, OrderOK
<1>4. Published' /\ NotYetPublished'
  BY <1>0 DEF Published, NotYetPublished
<1> QED
  BY <1>1, <1>2, <1>3, <1>4 DEF IInv

-----------------------------------------------------------------------------
\* Every step of the colouring keeps the invariant.
LEMMA NextIInv == IInv /\ [Next]_vars => IInv'
<1> SUFFICES ASSUME IInv, [Next]_vars PROVE IInv'
  OBVIOUS
<1>0. Scanned \in SUBSET DOMAIN moves
  BY DEF IInv, TypeOK, Scanned
<1>1. CASE EnterClass
  BY <1>1, BookkeepingIInv DEF EnterClass, IInv, TypeOK
<1>2. CASE NoRegisters
  <2>1. spilled' \in SUBSET Units /\ (phase' = "enter" \/ phase' = "publish")
    BY <1>2 DEF NoRegisters, LeaveClass, IInv, TypeOK
  <2> QED
    BY <1>2, <2>1, BookkeepingIInv DEF NoRegisters, IInv, TypeOK
<1>3. CASE Simplify
  <2>1. PICK u \in Units : StillInGraph(u) /\ Push(u)
    BY <1>3 DEF Simplify, Simplifiable
  <2> QED
    BY <1>3, <2>1, PushIInv DEF Simplify, IInv, TypeOK
<1>4. CASE Coalesce
  BY <1>4, CoalesceIInv
<1>5. CASE Freeze
  <2>1. settled' \in SUBSET DOMAIN moves
    BY <1>0, <1>5 DEF Freeze
  <2> QED
    BY <1>5, <2>1, BookkeepingIInv DEF Freeze, IInv, TypeOK
<1>6. CASE Spill
  <2>1. PICK u \in Remaining : Push(u) /\ optimistic' = optimistic \cup {u}
    BY <1>6 DEF Spill
  <2>2. u \in Units /\ StillInGraph(u) /\ optimistic' \in SUBSET Units
    BY <2>1 DEF Remaining, IInv, TypeOK
  <2> QED
    BY <1>0, <1>6, <2>1, <2>2, PushIInv DEF Spill
<1>7. CASE EndMain
  BY <1>0, <1>7, BookkeepingIInv DEF EndMain, IInv, TypeOK
<1>8. CASE SelectColor
  BY <1>8, SelectColorIInv
<1>9. CASE SelectSpill
  BY <1>9, SelectSpillIInv
<1>10. CASE EndSelect
  <2>1. phase' = "enter" \/ phase' = "publish"
    BY <1>10 DEF EndSelect, LeaveClass
  <2> QED
    BY <1>10, <2>1, BookkeepingIInv DEF EndSelect, IInv, TypeOK
<1>11. CASE Publish
  BY <1>11, PublishIInv
<1>12. CASE UNCHANGED vars
  <2> USE <1>12 DEF vars, inputs, result
  <2>1. TypeOK' /\ InputsOK'
    BY DEF IInv, TypeOK, InputsOK
  <2>2. RepsOK' /\ EdgesKept'
    BY DEF IInv, RepsOK, EdgesKept, NeighbourRoots
  <2>3. ColouredLate' /\ OrderOK' /\ RemovedUncoloured'
    BY DEF IInv, ColouredLate, OrderOK, RemovedUncoloured
  <2>4. ColoursDiffer' /\ CallsKept' /\ CallColours'
    BY DEF IInv, ColoursDiffer, CallsKept, CallColours
  <2>5. Published' /\ NotYetPublished'
    BY DEF IInv, Published, NotYetPublished
  <2> QED
    BY <2>1, <2>2, <2>3, <2>4, <2>5 DEF IInv
<1> QED
  BY <1>1, <1>2, <1>3, <1>4, <1>5, <1>6, <1>7, <1>8, <1>9, <1>10, <1>11, <1>12
  DEF Next, MainLoop, SelectLoop

\* The inductive invariant holds throughout.
THEOREM Invariant == Spec => []IInv
BY InitIInv, NextIInv, PTL DEF Spec

\* Type correctness, for every graph, move list and register pool.
THEOREM TypeCorrect == Spec => []TypeOK
<1>1. IInv => TypeOK
  BY DEF IInv
<1> QED
  BY <1>1, Invariant, PTL

\* The colours of representatives differ along every edge, so do the registers.
LEMMA IInvProper == IInv => ProperColouring
<1> SUFFICES ASSUME IInv, NEW u \in Units, NEW v \in graph[u]
             PROVE  /\ rep[u] # rep[v]
                    /\ assigned[u] # None => assigned[u] # assigned[v]
  BY DEF ProperColouring
<1>1. v \in Units
  BY DEF IInv, TypeOK
<1>2. rep[u] # rep[v]
  BY DEF IInv, EdgesKept, NeighbourRoots
<1>3. color[rep[u]] # None => color[rep[u]] # color[rep[v]]
  BY DEF IInv, ColoursDiffer
<1>4. assigned[u] \in {None, color[rep[u]]} /\ assigned[v] \in {None, color[rep[v]]}
  BY <1>1 DEF IInv, Published
<1> QED
  BY <1>2, <1>3, <1>4

\* Interfering units never share a register, coalesced or not.
THEOREM ColouringIsProper == Spec => []ProperColouring
BY IInvProper, Invariant, PTL

\* A crossing unit has the colour of a representative that knows of the call.
LEMMA IInvCallSafe == IInv => CallSafe
<1> SUFFICES ASSUME IInv, NEW u \in spans
             PROVE  assigned[u] \in CalleeSaved \cup {None}
  BY DEF CallSafe
<1>1. u \in Units /\ rep[u] \in crossesCall
  BY DEF IInv, TypeOK, CallsKept
<1> QED
  BY <1>1 DEF IInv, CallColours, Published

\* No register a call destroys is given to a unit live across one.
THEOREM CallsAreSafe == Spec => []CallSafe
BY IInvCallSafe, Invariant, PTL

-----------------------------------------------------------------------------
(* Which nodes spill: the invariant *)

\* The pools are the target's, which list no register twice.
PoolOK == target \in Targets

\* A node's neighbours are of its own class.
NeighbourClass == \A u \in Units : \A n \in neighbours[u] : regClass[n] = regClass[u]

\* Neighbour sets go stale, but what they resolve to stays symmetric.
Symmetric ==
    \A u, v \in Units : ~Merged(u) /\ v \in NeighbourRoots(u) => u \in NeighbourRoots(v)

\* The nodes off the graph are those on the select stack, each once, none of
\* them merged away.
StackOK ==
    /\ removed = {order[i] : i \in DOMAIN order}
    /\ \A i, j \in DOMAIN order : order[i] = order[j] => i = j
    /\ \A i \in DOMAIN order : rep[order[i]] = order[i]
    /\ phase \notin {"main", "select"} => order = <<>>

\* A simplified node has fewer than K neighbours that are below it on the stack
\* or were never pushed before it: all it will meet when it is popped.
LowDegree ==
    \A i \in DOMAIN order : order[i] \notin optimistic =>
        Cardinality(NeighbourRoots(order[i]) \ {order[j] : j \in 1 .. i - 1}) < K

\* The floating-point nodes wait for their own round.
FloatUntouched == class = "Integer" => \A u \in spilled : regClass[u] = "Integer"

SInv ==
    /\ IInv
    /\ PoolOK
    /\ NeighbourClass
    /\ Symmetric
    /\ StackOK
    /\ LowDegree
    /\ FloatUntouched
    /\ OnlyOptimisticNodesSpill

-----------------------------------------------------------------------------
(* What merging does to the neighbours a node has *)

\* A set of units is finite, and so is what is read off it.
LEMMA UnitsFinite ==
    \A S \in SUBSET Units : IsFiniteSet(S) /\ Cardinality(S) \in Nat
<1>1. IsFiniteSet(Units)
  BY UnitsAssumption, FS_Interval DEF Units
<1> QED
  BY <1>1, FS_Subset, FS_CardinalityType

\* The image of a finite set is finite and no larger.
LEMMA ImageSize ==
    ASSUME NEW S, IsFiniteSet(S), NEW f
    PROVE  /\ IsFiniteSet({f[x] : x \in S}) /\ Cardinality({f[x] : x \in S}) \in Nat
           /\ Cardinality({f[x] : x \in S}) <= Cardinality(S)
<1> DEFINE g == [x \in S |-> f[x]]
           T == {f[x] : x \in S}
<1>1. g \in Surjection(S, T)
  BY DEF Surjection
<1> QED
  BY <1>1, FS_Surjection, FS_CardinalityType

\* What a node's neighbours resolve to are units that represent themselves.
LEMMA NeighbourRootsType ==
    ASSUME IInv, NEW u \in Units
    PROVE  /\ NeighbourRoots(u) \subseteq Units \ {u}
           /\ \A r \in NeighbourRoots(u) : rep[r] = r
BY DEF IInv, TypeOK, RepsOK, NeighbourRoots

Renamed(r, keep, gone) == IF r = gone THEN keep ELSE r

\* After a merge the survivor has the neighbours of both, and every other node
\* sees the survivor where it saw the absorbed node.
LEMMA MergedNeighbours ==
    ASSUME IInv, Symmetric,
           NEW keep \in Units, NEW gone \in Units, keep # gone,
           rep[keep] = keep, rep[gone] = gone,
           gone \notin NeighbourRoots(keep), keep \notin NeighbourRoots(gone),
           MergeUnits(keep, gone)
    PROVE  /\ NeighbourRoots(keep)' = NeighbourRoots(keep) \cup NeighbourRoots(gone)
           /\ \A u \in Units \ {keep, gone} : rep[u] = u =>
                NeighbourRoots(u)' = {Renamed(r, keep, gone) : r \in NeighbourRoots(u)}
<1> DEFINE roots == {rep[n] : n \in neighbours[gone]}
<1>1. rep' = [w \in Units |-> IF rep[w] = gone THEN keep ELSE rep[w]]
  BY DEF MergeUnits
<1>2. neighbours' =
        [w \in Units |->
            CASE w = gone -> {}
              [] w = keep -> (neighbours[keep] \cup (roots \ {keep})) \ {gone}
              [] w \in roots \ {keep, gone} -> (neighbours[w] \cup {keep}) \ {gone}
              [] OTHER -> neighbours[w]]
  BY DEF MergeUnits
<1>3. /\ rep \in [Units -> Units] /\ neighbours \in [Units -> SUBSET Units]
      /\ \A w \in Units : rep[rep[w]] = rep[w]
      /\ roots \subseteq Units
  BY DEF IInv, TypeOK, RepsOK
<1>4. NeighbourRoots(keep)' = NeighbourRoots(keep) \cup NeighbourRoots(gone)
  <2>1. neighbours'[keep] = (neighbours[keep] \cup (roots \ {keep})) \ {gone}
    BY <1>2
  <2>2. ASSUME NEW r, r \in NeighbourRoots(keep)'
        PROVE  r \in NeighbourRoots(keep) \cup NeighbourRoots(gone)
    <3>1. PICK n \in neighbours'[keep] : rep'[n] = r /\ r # keep
      BY <2>2 DEF NeighbourRoots
    <3>2. CASE n \in neighbours[keep]
      BY <1>1, <1>3, <3>1, <3>2 DEF NeighbourRoots
    <3>3. CASE n \in roots /\ n # gone
      BY <1>1, <1>3, <3>1, <3>3 DEF NeighbourRoots
    <3> QED
      BY <2>1, <3>1, <3>2, <3>3
  <2>3. ASSUME NEW r \in NeighbourRoots(keep)
        PROVE  r \in NeighbourRoots(keep)'
    <3>1. PICK n \in neighbours[keep] : rep[n] = r /\ r # keep /\ r # gone
      BY DEF NeighbourRoots
    <3>2. n \in neighbours'[keep] /\ rep'[n] = r
      BY <1>1, <1>3, <2>1, <3>1
    <3> QED
      BY <3>1, <3>2 DEF NeighbourRoots
  <2>4. ASSUME NEW r \in NeighbourRoots(gone)
        PROVE  r \in NeighbourRoots(keep)'
    <3>1. r \in roots /\ r # keep /\ r # gone /\ rep[r] = r /\ r \in Units
      BY <1>3 DEF NeighbourRoots
    <3>2. r \in neighbours'[keep] /\ rep'[r] = r
      BY <1>1, <2>1, <3>1
    <3> QED
      BY <3>1, <3>2 DEF NeighbourRoots
  <2> QED
    BY <2>2, <2>3, <2>4
<1>5. ASSUME NEW u \in Units \ {keep, gone}, rep[u] = u
      PROVE  NeighbourRoots(u)' = {Renamed(r, keep, gone) : r \in NeighbourRoots(u)}
  <2>1. u \in roots <=> gone \in NeighbourRoots(u)
    <3>1. u \in roots <=> u \in NeighbourRoots(gone)
      BY <1>5 DEF NeighbourRoots
    <3>2. ~Merged(u) /\ ~Merged(gone)
      BY <1>5 DEF Merged
    <3> QED
      BY <3>1, <3>2 DEF Symmetric
  <2>2. neighbours'[u] = IF u \in roots THEN (neighbours[u] \cup {keep}) \ {gone}
                                         ELSE neighbours[u]
    BY <1>2, <1>5
  <2>3. ASSUME NEW r, r \in NeighbourRoots(u)'
        PROVE  r \in {Renamed(s, keep, gone) : s \in NeighbourRoots(u)}
    <3>1. PICK n \in neighbours'[u] : rep'[n] = r /\ r # u
      BY <2>3 DEF NeighbourRoots
    <3>2. CASE n \in neighbours[u]
      <4>1. rep[n] \in NeighbourRoots(u) /\ r = Renamed(rep[n], keep, gone)
        BY <1>1, <1>3, <1>5, <3>1, <3>2 DEF NeighbourRoots, Renamed
      <4> QED
        BY <4>1
    <3>3. CASE n = keep /\ u \in roots
      <4>1. gone \in NeighbourRoots(u) /\ r = Renamed(gone, keep, gone)
        BY <1>1, <2>1, <3>1, <3>3 DEF Renamed
      <4> QED
        BY <4>1
    <3> QED
      BY <2>2, <3>1, <3>2, <3>3
  <2>4. ASSUME NEW s \in NeighbourRoots(u)
        PROVE  Renamed(s, keep, gone) \in NeighbourRoots(u)'
    <3>1. PICK n \in neighbours[u] : rep[n] = s /\ s # u
      BY DEF NeighbourRoots
    <3>2. n \in Units
      BY <1>3, <3>1
    <3>3. CASE n \in neighbours'[u]
      <4>1. rep'[n] = Renamed(s, keep, gone)
        BY <1>1, <3>1, <3>2 DEF Renamed
      <4> QED
        BY <1>5, <3>1, <3>3, <4>1 DEF NeighbourRoots, Renamed
    <3>4. CASE n \notin neighbours'[u]
      <4>1. n = gone /\ u \in roots /\ s = gone
        BY <2>2, <3>1, <3>4
      <4>2. keep \in neighbours'[u] /\ rep'[keep] = keep
        BY <1>1, <2>2, <4>1
      <4> QED
        BY <1>5, <4>1, <4>2 DEF NeighbourRoots, Renamed
    <3> QED
      BY <3>3, <3>4
  <2> QED
    BY <2>3, <2>4
<1> QED
  BY <1>4, <1>5

\* Symmetry survives a merge.
LEMMA MergeSymmetric ==
    ASSUME IInv, Symmetric,
           NEW keep \in Units, NEW gone \in Units, keep # gone,
           rep[keep] = keep, rep[gone] = gone,
           gone \notin NeighbourRoots(keep), keep \notin NeighbourRoots(gone),
           MergeUnits(keep, gone)
    PROVE  Symmetric'
<1> SUFFICES ASSUME NEW u \in Units, NEW v \in Units, rep'[u] = u, v \in NeighbourRoots(u)'
             PROVE  u \in NeighbourRoots(v)'
  BY DEF Symmetric, Merged
<1>1. rep' = [w \in Units |-> IF rep[w] = gone THEN keep ELSE rep[w]]
  BY DEF MergeUnits
<1>2. u # gone /\ rep[u] = u
  BY <1>1
<1>3. \A a, b \in Units : rep[a] = a /\ b \in NeighbourRoots(a) =>
          a \in NeighbourRoots(b) /\ rep[b] = b
  BY NeighbourRootsType DEF Symmetric, Merged
<1>4. NeighbourRoots(keep) \cup NeighbourRoots(gone) \subseteq Units \ {keep, gone}
  BY NeighbourRootsType
<1>5. NeighbourRoots(keep)' = NeighbourRoots(keep) \cup NeighbourRoots(gone)
  BY MergedNeighbours
<1>6. \A w \in Units \ {keep, gone} : rep[w] = w =>
          NeighbourRoots(w)' = {Renamed(r, keep, gone) : r \in NeighbourRoots(w)}
  BY MergedNeighbours
<1>7. CASE u = keep
  <2>1. v \notin {keep, gone} /\ rep[v] = v
    BY <1>3, <1>4, <1>5, <1>7
  <2>2. keep \in NeighbourRoots(v) \/ gone \in NeighbourRoots(v)
    BY <1>3, <1>5, <1>7
  <2>3. keep \in {Renamed(r, keep, gone) : r \in NeighbourRoots(v)}
    BY <2>2 DEF Renamed
  <2> QED
    BY <1>6, <1>7, <2>1, <2>3
<1>8. CASE u # keep
  <2>1. PICK r \in NeighbourRoots(u) : v = Renamed(r, keep, gone)
    BY <1>2, <1>6, <1>8
  <2>2. r \in Units /\ u \in NeighbourRoots(r) /\ rep[r] = r
    BY <1>2, <1>3, <2>1, NeighbourRootsType
  <2>3. CASE r \in {keep, gone}
    BY <1>5, <2>1, <2>2, <2>3 DEF Renamed
  <2>4. CASE r \notin {keep, gone}
    <3>1. v = r /\ u = Renamed(u, keep, gone)
      BY <1>2, <2>1, <2>4 DEF Renamed
    <3> QED
      BY <1>6, <2>2, <2>4, <3>1
  <2> QED
    BY <2>3, <2>4
<1> QED
  BY <1>7, <1>8

-----------------------------------------------------------------------------
(* Every step keeps the invariant *)

\* Nothing is coloured, merged or pushed at first.
LEMMA InitSInv == Init => SInv
<1> SUFFICES ASSUME Init PROVE SInv
  OBVIOUS
<1>1. IInv
  BY InitIInv
<1>2. PoolOK
  BY DEF Init, PoolOK
<1>3. NeighbourClass
  BY <1>1 DEF Init, NeighbourClass, IsGraph, IInv, TypeOK
<1>4. Symmetric
  BY <1>1 DEF Init, Symmetric, NeighbourRoots, Merged, IsGraph, IInv, TypeOK
<1>5. StackOK /\ LowDegree
  BY DEF Init, StackOK, LowDegree
<1>6. FloatUntouched /\ OnlyOptimisticNodesSpill
  BY DEF Init, FloatUntouched, OnlyOptimisticNodesSpill
<1> QED
  BY <1>1, <1>2, <1>3, <1>4, <1>5, <1>6 DEF SInv

\* A push records a node that was still in the graph: one of low degree, or one
\* that counts as optimistic from then on.
LEMMA PushSInv ==
    ASSUME SInv, IInv', phase = "main",
           NEW node \in Units, StillInGraph(node), Push(node),
           \/ Degree(node) < K /\ optimistic' = optimistic
           \/ optimistic' = optimistic \cup {node},
           UNCHANGED <<inputs, neighbours, spilled, rep, class, phase>>
    PROVE  SInv'
<1> USE DEF inputs
<1>1. PoolOK' /\ NeighbourClass' /\ Symmetric' /\ FloatUntouched'
  BY DEF SInv, PoolOK, NeighbourClass, Symmetric, FloatUntouched, NeighbourRoots, Merged
<1>2. OnlyOptimisticNodesSpill'
  BY DEF SInv, OnlyOptimisticNodesSpill, EveryRegisterSurvivesCalls, K, Pool
<1> DEFINE n == Len(order)
<1>3. /\ order \in Seq(Units) /\ n \in Nat /\ DOMAIN order = 1 .. n
      /\ DOMAIN order' = 1 .. n + 1
      /\ \A i \in 1 .. n : order'[i] = order[i]
      /\ order'[n + 1] = node
  BY DEF SInv, IInv, TypeOK, Push
<1>4. node \notin {order[i] : i \in DOMAIN order} /\ rep[node] = node
  BY DEF SInv, StackOK, StillInGraph, Merged
<1>5. removed = {order[i] : i \in 1 .. n} /\ removed' = removed \cup {node}
  BY <1>3 DEF SInv, StackOK, Push
<1> HIDE DEF n
<1>6. StackOK'
  <2>1. removed' = {order'[i] : i \in DOMAIN order'}
    BY <1>3, <1>5
  <2>2. \A i, j \in DOMAIN order' : order'[i] = order'[j] => i = j
    BY <1>3, <1>4 DEF SInv, StackOK
  <2>3. \A i \in DOMAIN order' : rep'[order'[i]] = order'[i]
    BY <1>3, <1>4 DEF SInv, StackOK
  <2> QED
    BY <2>1, <2>2, <2>3 DEF StackOK
<1>7. LowDegree'
  <2> SUFFICES ASSUME NEW i \in 1 .. n + 1, order'[i] \notin optimistic'
               PROVE  Cardinality(NeighbourRoots(order'[i])
                                    \ {order'[j] : j \in 1 .. i - 1}) < K
    BY <1>3 DEF LowDegree, NeighbourRoots, K, Pool
  <2>1. {order'[j] : j \in 1 .. i - 1} = {order[j] : j \in 1 .. i - 1}
    BY <1>3
  <2>2. CASE i \in 1 .. n
    BY <1>3, <2>1, <2>2 DEF SInv, LowDegree
  <2>3. CASE i = n + 1
    <3>1. {order[j] : j \in 1 .. i - 1} = removed
      BY <1>3, <1>5, <2>3
    <3>2. Degree(node) < K
      BY <1>3, <2>3
    <3> QED
      BY <1>3, <2>1, <2>3, <3>1, <3>2 DEF Degree, ActiveNeighbours
  <2> QED
    BY <1>3, <2>2, <2>3
<1> QED
  BY <1>1, <1>2, <1>6, <1>7 DEF SInv

\* Coalescing never gives a node on the stack a neighbour more: where it saw the
\* absorbed node it now sees the survivor.
LEMMA CoalesceSInv == SInv /\ IInv' /\ Coalesce => SInv'
<1> SUFFICES ASSUME SInv, IInv', Coalesce PROVE SInv'
  OBVIOUS
<1> USE DEF inputs, result
<1>0. /\ IInv /\ phase = "main"
      /\ UNCHANGED <<inputs, removed, color, spilled, class, phase, order,
                     optimistic, frozen, result>>
  BY DEF Coalesce, SInv
<1>1. PICK m \in DOMAIN moves :
         Mergeable(m) /\ MergeUnits(Destination(m), Source(m))
  BY Zenon DEF Coalesce
<1> DEFINE keep == Destination(m)
           gone == Source(m)
<1>2. /\ keep \in Units /\ gone \in Units /\ keep # gone
      /\ rep[keep] = keep /\ rep[gone] = gone
      /\ regClass[keep] = class /\ regClass[gone] = class
      /\ gone \notin NeighbourRoots(keep) /\ keep \notin NeighbourRoots(gone)
  BY <1>0, <1>1, MergeableEnds
<1>3. MergeUnits(keep, gone) /\ keep \notin removed /\ gone \notin removed
  BY <1>1 DEF Mergeable, OffGraph
<1> HIDE DEF keep, gone
<1>4. rep' = [u \in Units |-> IF rep[u] = gone THEN keep ELSE rep[u]]
  BY <1>3 DEF MergeUnits
<1>5. Symmetric'
  BY <1>0, <1>2, <1>3, MergeSymmetric DEF SInv
<1>6. NeighbourClass'
  <2> DEFINE roots == {rep[n] : n \in neighbours[gone]}
  <2>1. neighbours' =
        [w \in Units |->
            CASE w = gone -> {}
              [] w = keep -> (neighbours[keep] \cup (roots \ {keep})) \ {gone}
              [] w \in roots \ {keep, gone} -> (neighbours[w] \cup {keep}) \ {gone}
              [] OTHER -> neighbours[w]]
    BY <1>3 DEF MergeUnits
  <2>2. \A r \in roots : r \in Units /\ regClass[r] = class
    BY <1>0, <1>2 DEF SInv, NeighbourClass, IInv, TypeOK, RepsOK
  <2> HIDE DEF roots
  <2> SUFFICES ASSUME NEW u \in Units, NEW n \in neighbours'[u]
               PROVE  regClass[n] = regClass[u]
    BY <1>0 DEF NeighbourClass
  <2>3. \A w \in Units : \A x \in neighbours[w] : regClass[x] = regClass[w]
    BY DEF SInv, NeighbourClass
  <2>4. CASE u = keep
    BY <1>2, <2>1, <2>2, <2>3, <2>4
  <2>5. CASE u # keep
    BY <1>2, <2>1, <2>2, <2>3, <2>5
  <2> QED
    BY <2>4, <2>5
<1>7. StackOK'
  <2>1. \A i \in DOMAIN order : order[i] \in Units /\ rep'[order[i]] = order[i]
    BY <1>0, <1>3, <1>4 DEF SInv, StackOK, IInv, TypeOK
  <2> QED
    BY <1>0, <2>1 DEF SInv, StackOK
<1>8. LowDegree'
  <2> SUFFICES ASSUME NEW i \in DOMAIN order, order[i] \notin optimistic
               PROVE  Cardinality(NeighbourRoots(order[i])'
                                    \ {order[j] : j \in 1 .. i - 1}) < K
    BY <1>0 DEF LowDegree, K, Pool
  <2> DEFINE u == order[i]
             below == {order[j] : j \in 1 .. i - 1}
             old == NeighbourRoots(u) \ below
             new == NeighbourRoots(u)' \ below
  <2>1. /\ u \in Units /\ rep[u] = u /\ u \notin {keep, gone}
        /\ below \subseteq removed
    <3>1. order \in Seq(Units) /\ DOMAIN order = 1 .. Len(order) /\ Len(order) \in Nat
      BY <1>0 DEF IInv, TypeOK
    <3>2. removed = {order[j] : j \in 1 .. Len(order)} /\ rep[u] = u
      BY <3>1 DEF SInv, StackOK
    <3> QED
      BY <1>3, <3>1, <3>2
  <2>2. NeighbourRoots(u)' = {Renamed(r, keep, gone) : r \in NeighbourRoots(u)}
    BY <1>0, <1>2, <1>3, <2>1, MergedNeighbours DEF SInv
  <2>3. IsFiniteSet(old) /\ Cardinality(old) \in Nat
    BY <1>0, <2>1, UnitsFinite, NeighbourRootsType
  <2> DEFINE image == {Renamed(r, keep, gone) : r \in old}
  <2>4. IsFiniteSet(image) /\ Cardinality(image) <= Cardinality(old)
    <3> DEFINE f == [r \in old |-> Renamed(r, keep, gone)]
    <3> HIDE DEF old
    <3>1. image = {f[r] : r \in old}
      OBVIOUS
    <3> HIDE DEF f, image
    <3> QED
      BY <2>3, <3>1, ImageSize
  <2>5. new \subseteq image
    BY <1>3, <2>1, <2>2 DEF Renamed
  <2>6. Cardinality(new) <= Cardinality(image) /\ Cardinality(new) \in Nat
        /\ Cardinality(image) \in Nat
    BY <2>4, <2>5, FS_Subset, FS_CardinalityType
  <2>7. Cardinality(old) < K
    BY DEF SInv, LowDegree
  <2>8. K \in Nat
    BY <1>0, PoolType DEF K, IInv
  <2> QED
    BY <2>3, <2>4, <2>6, <2>7, <2>8
<1>9. PoolOK' /\ FloatUntouched' /\ OnlyOptimisticNodesSpill'
  BY <1>0 DEF SInv, PoolOK, FloatUntouched, OnlyOptimisticNodesSpill,
     EveryRegisterSurvivesCalls, K, Pool
<1> QED
  BY <1>5, <1>6, <1>7, <1>8, <1>9 DEF SInv

\* Select runs out of colours for a node only if that node was optimistic: any
\* other has fewer than K neighbours on the graph by now.
LEMMA PopSInv ==
    ASSUME SInv, IInv', Pop, NEW node, node = order[Len(order)],
           \/ spilled' = spilled
           \/ /\ \A i \in DOMAIN Pool : ~Usable(node, Pool[i])
              /\ spilled' = spilled \cup {node},
           UNCHANGED <<inputs, neighbours, crossesCall, rep, class, phase, optimistic>>
    PROVE  SInv'
<1> USE DEF inputs
<1> DEFINE n == Len(order)
           below == {order[j] : j \in 1 .. n - 1}
<1>1. /\ order \in Seq(Units) /\ n \in Nat \ {0} /\ DOMAIN order = 1 .. n
      /\ order' \in Seq(Units) /\ DOMAIN order' = 1 .. n - 1
      /\ \A i \in 1 .. n - 1 : order'[i] = order[i]
      /\ node \in Units /\ regClass[node] = class /\ removed' = removed \ {node}
  <2>1. order \in Seq(Units) /\ n \in Nat \ {0}
    BY DEF SInv, IInv, TypeOK, Pop
  <2>2. order' = SubSeq(order, 1, n - 1)
    BY DEF Pop
  <2> QED
    BY <2>1, <2>2, PopType DEF SInv
<1>2. /\ removed = {order[i] : i \in 1 .. n}
      /\ \A i, j \in 1 .. n : order[i] = order[j] => i = j
      /\ \A i \in 1 .. n : rep[order[i]] = order[i]
  BY <1>1 DEF SInv, StackOK
<1>3. order[n] = node
  OBVIOUS
<1> HIDE DEF n
<1>4. removed \ {node} = below /\ removed = below \cup {node}
  BY <1>1, <1>2, <1>3
<1>5. StackOK'
  <2>1. removed' = {order'[i] : i \in DOMAIN order'}
    BY <1>1, <1>4
  <2>2. \A i, j \in DOMAIN order' : order'[i] = order'[j] => i = j
    BY <1>1, <1>2
  <2>3. \A i \in DOMAIN order' : rep'[order'[i]] = order'[i]
    BY <1>1, <1>2
  <2> QED
    BY <2>1, <2>2, <2>3 DEF StackOK, Pop
<1>6. PoolOK' /\ NeighbourClass' /\ Symmetric'
  BY DEF SInv, PoolOK, NeighbourClass, Symmetric, NeighbourRoots, Merged
<1>7. LowDegree'
  <2> SUFFICES ASSUME NEW i \in 1 .. n - 1, order[i] \notin optimistic
               PROVE  Cardinality(NeighbourRoots(order[i])
                                    \ {order'[j] : j \in 1 .. i - 1}) < K
    BY <1>1 DEF LowDegree, NeighbourRoots, K, Pool
  <2>1. {order'[j] : j \in 1 .. i - 1} = {order[j] : j \in 1 .. i - 1}
    BY <1>1
  <2> QED
    BY <1>1, <2>1 DEF SInv, LowDegree
<1>8. FloatUntouched'
  BY <1>1 DEF SInv, FloatUntouched
<1>9. OnlyOptimisticNodesSpill'
  <2>1. CASE spilled' = spilled
    BY <2>1 DEF SInv, OnlyOptimisticNodesSpill, EveryRegisterSurvivesCalls, K, Pool
  <2>2. CASE /\ \A i \in DOMAIN Pool : ~Usable(node, Pool[i])
             /\ spilled' = spilled \cup {node}
    <3> SUFFICES ASSUME EveryRegisterSurvivesCalls, node \notin optimistic
                 PROVE  FALSE
      BY <2>2 DEF SInv, OnlyOptimisticNodesSpill, EveryRegisterSurvivesCalls, K, Pool
    <3> DEFINE active == ActiveNeighbours(node)
    <3>1. active = NeighbourRoots(node) \ below
      BY <1>1, <1>4, NeighbourRootsType DEF ActiveNeighbours, SInv
    <3>2. Cardinality(active) < K /\ IsFiniteSet(active) /\ Cardinality(active) \in Nat
      <4>1. Cardinality(NeighbourRoots(order[n]) \ {order[j] : j \in 1 .. n - 1}) < K
        <5>1. n \in DOMAIN order /\ order[n] \notin optimistic
          BY <1>1, <1>3
        <5>2. LowDegree
          BY DEF SInv
        <5> QED
          BY <5>1, <5>2 DEF LowDegree
      <4>2. active \subseteq Units
        BY <1>1, <3>1, NeighbourRootsType DEF SInv
      <4> QED
        BY <1>3, <3>1, <4>1, <4>2, UnitsFinite
    <3> HIDE DEF active
    <3> DEFINE colours == {color[v] : v \in active}
    <3>3. /\ IsFiniteSet(colours) /\ Cardinality(colours) \in Nat
          /\ Cardinality(colours) <= Cardinality(active)
      BY <3>2, ImageSize
    <3>4. \A i \in DOMAIN Pool : Pool[i] \in colours
      BY <2>2 DEF Usable, Taken, EveryRegisterSurvivesCalls, active
    <3>5. \A i, j \in DOMAIN Pool : Pool[i] = Pool[j] => i = j
      BY PoolAssumption DEF SInv, PoolOK, Pool, IInv, TypeOK
    <3>6. K \in Nat /\ DOMAIN Pool = 1 .. K
      BY PoolType DEF K, SInv, IInv
    <3> HIDE DEF colours
    <3> DEFINE f == [i \in 1 .. K |-> Pool[i]]
    <3>7. f \in Injection(1 .. K, colours)
      BY <3>4, <3>5, <3>6 DEF Injection, IsInjective
    <3>8. Cardinality(1 .. K) <= Cardinality(colours) /\ Cardinality(1 .. K) = K
      BY <3>3, <3>6, <3>7, FS_Injection, FS_Interval
    <3> QED
      BY <3>2, <3>3, <3>6, <3>8
  <2> QED
    BY <2>1, <2>2
<1> QED
  BY <1>5, <1>6, <1>7, <1>8, <1>9 DEF SInv

\* A step that leaves the graph, the stack and the spilled nodes alone, and the
\* class with them.
LEMMA SameClassSInv ==
    ASSUME SInv, IInv',
           UNCHANGED <<inputs, neighbours, removed, spilled, rep, class, order,
                       optimistic>>,
           order = <<>> \/ phase' \in {"main", "select"}
    PROVE  SInv'
<1> USE DEF inputs
<1>1. PoolOK' /\ NeighbourClass' /\ Symmetric' /\ FloatUntouched'
  BY DEF SInv, PoolOK, NeighbourClass, Symmetric, FloatUntouched, NeighbourRoots, Merged
<1>2. StackOK' /\ LowDegree'
  BY DEF SInv, StackOK, LowDegree, NeighbourRoots, K, Pool
<1>3. OnlyOptimisticNodesSpill'
  BY DEF SInv, OnlyOptimisticNodesSpill, EveryRegisterSurvivesCalls, K, Pool
<1> QED
  BY <1>1, <1>2, <1>3 DEF SInv

\* Going on to the next class, with nothing on the stack: what was spilled is
\* of the class that is over, or could not be given any register.
LEMMA LeaveClassSInv ==
    ASSUME SInv, IInv', LeaveClass, order = <<>>,
           UNCHANGED <<inputs, neighbours, removed, rep, order, optimistic>>,
           \/ spilled' = spilled
           \/ K = 0 /\ spilled' \subseteq spilled \cup {u \in Units : regClass[u] = class}
    PROVE  SInv'
<1> USE DEF inputs
<1>1. PoolOK' /\ NeighbourClass' /\ Symmetric'
  BY DEF SInv, PoolOK, NeighbourClass, Symmetric, NeighbourRoots, Merged
<1>2. StackOK' /\ LowDegree'
  BY DEF SInv, StackOK, LowDegree, LeaveClass
<1>3. class \in RegClasses /\ spilled' \subseteq Units /\ spilled \subseteq Units
  BY DEF SInv, IInv, TypeOK
<1>4. CASE class = "Integer"
  <2>1. class' = "Float" /\ \A u \in spilled' : regClass[u] = "Integer"
    BY <1>3, <1>4 DEF LeaveClass, SInv, FloatUntouched
  <2>2. FloatUntouched' /\ OnlyOptimisticNodesSpill'
    BY <2>1 DEF FloatUntouched, OnlyOptimisticNodesSpill
  <2> QED
    BY <1>1, <1>2, <2>2 DEF SInv
<1>5. CASE class = "Float"
  <2>1. class' = class /\ FloatUntouched'
    BY <1>5 DEF LeaveClass, FloatUntouched
  <2>2. OnlyOptimisticNodesSpill'
    BY <2>1 DEF SInv, OnlyOptimisticNodesSpill, EveryRegisterSurvivesCalls, K, Pool
  <2> QED
    BY <1>1, <1>2, <2>1, <2>2 DEF SInv
<1> QED
  BY <1>3, <1>4, <1>5 DEF RegClasses

\* Every step keeps the second invariant too.
LEMMA NextSInv == SInv /\ [Next]_vars => SInv'
<1> SUFFICES ASSUME SInv, [Next]_vars PROVE SInv'
  OBVIOUS
<1>0. IInv /\ IInv' /\ (phase = "enter" => order = <<>>) /\ (phase = "publish" => order = <<>>)
  BY NextIInv DEF SInv, StackOK
<1>1. CASE EnterClass
  BY <1>0, <1>1, SameClassSInv DEF EnterClass
<1>2. CASE NoRegisters
  BY <1>0, <1>2, LeaveClassSInv DEF NoRegisters
<1>3. CASE Simplify
  <2>1. PICK u \in Units : StillInGraph(u) /\ Degree(u) < K /\ Push(u)
    BY <1>3 DEF Simplify, Simplifiable
  <2> QED
    BY <1>0, <1>3, <2>1, PushSInv DEF Simplify
<1>4. CASE Coalesce
  BY <1>0, <1>4, CoalesceSInv
<1>5. CASE Freeze
  BY <1>0, <1>5, SameClassSInv DEF Freeze
<1>6. CASE Spill
  <2>1. PICK u \in Remaining : Push(u) /\ optimistic' = optimistic \cup {u}
    BY <1>6 DEF Spill
  <2>2. u \in Units /\ StillInGraph(u)
    BY <2>1 DEF Remaining
  <2> QED
    BY <1>0, <1>6, <2>1, <2>2, PushSInv DEF Spill
<1>7. CASE EndMain
  BY <1>0, <1>7, SameClassSInv DEF EndMain
<1>8. CASE SelectColor
  BY <1>0, <1>8, PopSInv DEF SelectColor
<1>9. CASE SelectSpill
  BY <1>0, <1>9, PopSInv DEF SelectSpill
<1>10. CASE EndSelect
  BY <1>0, <1>10, LeaveClassSInv DEF EndSelect
<1>11. CASE Publish
  BY <1>0, <1>11, SameClassSInv DEF Publish
<1>12. CASE UNCHANGED vars
  <2>1. order = <<>> \/ phase' \in {"main", "select"}
    BY <1>12 DEF vars, SInv, StackOK
  <2> QED
    BY <1>0, <1>12, <2>1, SameClassSInv DEF vars
<1> QED
  BY <1>1, <1>2, <1>3, <1>4, <1>5, <1>6, <1>7, <1>8, <1>9, <1>10, <1>11, <1>12
  DEF Next, MainLoop, SelectLoop

\* The strengthened invariant holds throughout.
THEOREM SpillInvariant == Spec => []SInv
BY InitSInv, NextSInv, PTL DEF Spec

\* Where every register survives a call, a node the main loop simplified always
\* finds a register at select: only what spillOne pushed can end up in memory.
THEOREM OnlyOptimisticSpill == Spec => []OnlyOptimisticNodesSpill
<1>1. SInv => OnlyOptimisticNodesSpill
  BY DEF SInv
<1> QED
  BY <1>1, SpillInvariant, PTL

-----------------------------------------------------------------------------
(* Colourings of a finite graph: A[u] is what u must differ from *)

Colours(A, D, k, c) ==
    /\ c \in [D -> 1 .. k]
    /\ \A u \in D : \A v \in A[u] \cap D : c[u] # c[v]

\* A node with fewer than k coloured neighbours can be coloured too.
LEMMA ExtendColouring ==
    ASSUME NEW R, IsFiniteSet(R), NEW A \in [R -> SUBSET R],
           \A u, v \in R : v \in A[u] => u \in A[v] /\ u # v,
           NEW k \in Nat, NEW D \in SUBSET R, NEW x \in R \ D,
           Cardinality(A[x] \cap D) < k, \E c : Colours(A, D, k, c)
    PROVE  \E c : Colours(A, D \cup {x}, k, c)
<1>1. PICK c : Colours(A, D, k, c)
  OBVIOUS
<1> DEFINE met == A[x] \cap D
           taken == {c[v] : v \in met}
<1>2. IsFiniteSet(met) /\ Cardinality(met) \in Nat
  BY FS_Subset, FS_CardinalityType
<1>3. /\ IsFiniteSet(taken) /\ Cardinality(taken) \in Nat
      /\ Cardinality(taken) <= Cardinality(met)
  <2> HIDE DEF met
  <2> QED
    BY <1>2, ImageSize
<1>4. Cardinality(taken) < k
  BY <1>2, <1>3
<1>5. PICK i \in 1 .. k : i \notin taken
  <2> SUFFICES ASSUME 1 .. k \subseteq taken PROVE FALSE
    OBVIOUS
  <2> HIDE DEF taken
  <2>1. Cardinality(1 .. k) = IF 1 > k THEN 0 ELSE k - 1 + 1
    BY FS_Interval
  <2>2. Cardinality(1 .. k) <= Cardinality(taken)
    BY <1>3, FS_Subset
  <2> QED
    BY <1>3, <1>4, <2>1, <2>2
<1> DEFINE d == [u \in D \cup {x} |-> IF u = x THEN i ELSE c[u]]
<1>6. d \in [D \cup {x} -> 1 .. k]
  BY <1>1 DEF Colours
<1>7. ASSUME NEW u \in D \cup {x}, NEW v \in A[u] \cap (D \cup {x})
      PROVE  d[u] # d[v]
  <2>1. u \in R /\ v \in R /\ u \in A[v] /\ u # v
    OBVIOUS
  <2>2. CASE u = x
    BY <1>5, <2>1, <2>2
  <2>3. CASE v = x
    BY <1>5, <2>1, <2>3
  <2>4. CASE u # x /\ v # x
    BY <1>1, <2>4 DEF Colours
  <2> QED
    BY <2>2, <2>3, <2>4
<1> QED
  BY <1>6, <1>7 DEF Colours

\* Nodes of low degree never stand in the way: a colouring of the others extends
\* to them.  A largest coloured set that contains D is all of R.
LEMMA GreedyColouring ==
    ASSUME NEW R, IsFiniteSet(R), NEW A \in [R -> SUBSET R],
           \A u, v \in R : v \in A[u] => u \in A[v] /\ u # v,
           NEW k \in Nat, NEW D \in SUBSET R, \E c : Colours(A, D, k, c),
           \A x \in R \ D : Cardinality(A[x]) < k
    PROVE  \E c : Colours(A, R, k, c)
<1> DEFINE Good(E) == D \subseteq E /\ \E c : Colours(A, E, k, c)
           rests == {S \in SUBSET R : Good(R \ S)}
<1>1. R \ D \in rests
  <2>1. R \ (R \ D) = D
    OBVIOUS
  <2> QED
    BY <2>1
<1>2. rests \subseteq FiniteSubsetsOf(R)
  BY FS_FiniteSubsetsOfFinite
<1>3. PICK S \in rests : \A T \in rests : ~(<<T, S>> \in StrictSubsetOrdering(R))
  <2> HIDE DEF rests
  <2> QED
    BY <1>1, <1>2, FS_StrictSubsetOrderingWellFounded, WFMin
<1>4. S = {}
  <2> SUFFICES ASSUME NEW x \in S PROVE FALSE
    OBVIOUS
  <2>1. x \in R \ (R \ S) /\ x \in R \ D /\ S \subseteq R /\ Good(R \ S)
    OBVIOUS
  <2>2. /\ IsFiniteSet(A[x]) /\ Cardinality(A[x]) \in Nat
        /\ Cardinality(A[x] \cap (R \ S)) <= Cardinality(A[x])
        /\ Cardinality(A[x] \cap (R \ S)) \in Nat
    <3>1. A[x] \in SUBSET R /\ A[x] \cap (R \ S) \in SUBSET A[x]
      BY <2>1
    <3>2. IsFiniteSet(A[x]) /\ IsFiniteSet(A[x] \cap (R \ S))
      BY <3>1, FS_Subset
    <3> QED
      BY <3>1, <3>2, FS_Subset, FS_CardinalityType
  <2>3. Cardinality(A[x] \cap (R \ S)) < k
    BY <2>1, <2>2
  <2>4. \E c : Colours(A, (R \ S) \cup {x}, k, c)
    BY <2>1, <2>3, ExtendColouring
  <2>5. (R \ S) \cup {x} = R \ (S \ {x})
    BY <2>1
  <2>6. Good(R \ (S \ {x})) /\ S \ {x} \in SUBSET R
    <3>1. D \subseteq R \ (S \ {x}) /\ S \ {x} \in SUBSET R
      BY <2>1
    <3>2. \E c : Colours(A, R \ (S \ {x}), k, c)
      BY <2>4, <2>5
    <3> QED
      BY <3>1, <3>2
  <2>7. S \ {x} \in rests
    BY <2>6
  <2>8. <<S \ {x}, S>> \in StrictSubsetOrdering(R)
    BY <2>1 DEF StrictSubsetOrdering
  <2> QED
    BY <1>3, <2>7, <2>8
<1>5. R \ S = R
  BY <1>4
<1> QED
  BY <1>5

-----------------------------------------------------------------------------
(* Briggs' test is conservative *)

\* What is left to colour is a graph of its own.
RemainingIsAGraph ==
    \A u \in Remaining :
        /\ ActiveNeighbours(u) \subseteq Remaining \ {u}
        /\ \A v \in ActiveNeighbours(u) : u \in ActiveNeighbours(v)

\* The invariant says so.
LEMMA SInvRemaining == SInv => RemainingIsAGraph
<1> SUFFICES ASSUME SInv, NEW u \in Remaining, NEW v \in ActiveNeighbours(u)
             PROVE  v \in Remaining \ {u} /\ u \in ActiveNeighbours(v)
  BY DEF RemainingIsAGraph
<1>1. u \in Units /\ rep[u] = u /\ u \notin removed /\ regClass[u] = class
  BY DEF Remaining, StillInGraph, Merged
<1>2. v \in NeighbourRoots(u) /\ v \notin removed
  BY DEF ActiveNeighbours
<1>3. v \in Units /\ v # u /\ rep[v] = v
  BY <1>1, <1>2, NeighbourRootsType DEF SInv
<1>4. PICK n \in neighbours[u] : rep[n] = v
  BY <1>2 DEF NeighbourRoots
<1>5. n \in Units /\ regClass[n] = class
  BY <1>1 DEF SInv, NeighbourClass, IInv, TypeOK
<1>6. regClass[v] = class
  BY <1>4, <1>5 DEF SInv, IInv, RepsOK
<1>7. u \in NeighbourRoots(v)
  BY <1>1, <1>2, <1>3 DEF SInv, Symmetric, Merged
<1> QED
  BY <1>1, <1>2, <1>3, <1>6, <1>7 DEF Remaining, StillInGraph, Merged, ActiveNeighbours

\* Briggs' theorem for the code's test.  Take the old colouring away from the
\* absorbed node, from the survivor and from the survivor's neighbours of low
\* degree.  The survivor then meets fewer than K coloured nodes, all of them
\* significant, and takes a colour none of them has; the others follow, each of
\* which has fewer than K neighbours, no more than before the merge.
LEMMA CoalesceColourable ==
    ASSUME SInv, SInv', Coalesce, EveryRegisterSurvivesCalls, Colourable
    PROVE  Colourable'
<1> USE DEF inputs, result
<1>0. /\ IInv /\ phase = "main"
      /\ UNCHANGED <<inputs, removed, color, spilled, class, phase, order,
                     optimistic, frozen, result>>
  BY DEF Coalesce, SInv
<1>1. PICK m \in DOMAIN moves :
         Mergeable(m) /\ MergeUnits(Destination(m), Source(m))
  BY Zenon DEF Coalesce
<1>2. PICK keep \in Units, gone \in Units :
        /\ keep = Destination(m) /\ gone = Source(m) /\ keep # gone
        /\ rep[keep] = keep /\ rep[gone] = gone
        /\ regClass[keep] = class /\ regClass[gone] = class
        /\ gone \notin NeighbourRoots(keep) /\ keep \notin NeighbourRoots(gone)
  BY <1>0, <1>1, MergeableEnds
<1>3. /\ MergeUnits(keep, gone) /\ keep \notin removed /\ gone \notin removed
      /\ BriggsAllows(keep, gone)
  BY <1>1, <1>2 DEF Mergeable, OffGraph
<1>4. rep' = [u \in Units |-> IF rep[u] = gone THEN keep ELSE rep[u]]
  BY <1>3 DEF MergeUnits
<1> DEFINE R == Remaining'
           A == [u \in R |-> ActiveNeighbours(u)']
<1>5. R = Remaining \ {gone} /\ keep \in R /\ gone \in Remaining
  <2>1. \A u \in Units : rep'[u] = u <=> rep[u] = u /\ u # gone
    BY <1>2, <1>4 DEF IInv, TypeOK
  <2> QED
    BY <1>0, <1>2, <1>3, <2>1 DEF Remaining, StillInGraph, Merged
<1>6. IsFiniteSet(R) /\ R \subseteq Units
  BY UnitsFinite, <1>5 DEF Remaining
<1>7. A \in [R -> SUBSET R] /\ \A u, v \in R : v \in A[u] => u \in A[v] /\ u # v
  <2>1. RemainingIsAGraph'
    BY SInvRemaining, PTL
  <2> QED
    BY <2>1 DEF RemainingIsAGraph
<1>8. A[keep] = (NeighbourRoots(keep) \cup NeighbourRoots(gone)) \ ({keep, gone} \cup removed)
  <2>1. NeighbourRoots(keep)' = NeighbourRoots(keep) \cup NeighbourRoots(gone)
    BY <1>0, <1>2, <1>3, MergedNeighbours DEF SInv
  <2>2. NeighbourRoots(keep) \cup NeighbourRoots(gone) \subseteq Units \ {keep, gone}
    BY <1>0, <1>2, NeighbourRootsType
  <2> QED
    BY <1>0, <1>5, <2>1, <2>2 DEF ActiveNeighbours
<1>9. ASSUME NEW u \in R \ {keep}
      PROVE  A[u] = {Renamed(r, keep, gone) : r \in ActiveNeighbours(u)}
  <2>1. u \in Units /\ rep[u] = u /\ u \notin {keep, gone}
    BY <1>5, <1>6 DEF Remaining, StillInGraph, Merged
  <2>2. NeighbourRoots(u)' = {Renamed(r, keep, gone) : r \in NeighbourRoots(u)}
    BY <1>0, <1>2, <1>3, <2>1, MergedNeighbours DEF SInv
  <2> QED
    BY <1>0, <1>3, <2>2 DEF ActiveNeighbours, Renamed
<1>10. ASSUME NEW u \in R \ {keep}
       PROVE  Cardinality(A[u]) <= Degree(u) /\ Cardinality(A[u]) \in Nat /\ Degree(u) \in Nat
  <2> DEFINE f == [r \in ActiveNeighbours(u) |-> Renamed(r, keep, gone)]
  <2>1. A[u] = {f[r] : r \in ActiveNeighbours(u)}
    BY <1>9
  <2>2. IsFiniteSet(ActiveNeighbours(u)) /\ Cardinality(ActiveNeighbours(u)) \in Nat
    BY <1>0, <1>6, UnitsFinite, NeighbourRootsType DEF ActiveNeighbours
  <2> HIDE DEF f, A, R
  <2> QED
    BY <2>1, <2>2, ImageSize DEF Degree
<1>11. K \in Nat /\ DOMAIN Pool = 1 .. K
  BY <1>0, PoolType DEF K, IInv
<1>12. PICK c \in [Remaining -> 1 .. K] :
          \A u \in Remaining : \A v \in ActiveNeighbours(u) : c[u] # c[v]
  BY DEF Colourable
<1> HIDE DEF R, A
<1> DEFINE low == {n \in A[keep] : Degree(n) < K}
           high == {n \in A[keep] : Degree(n) >= K}
           others == R \ ({keep} \cup low)
<1>13. A[keep] \subseteq R \ {keep}
  BY <1>5, <1>7
<1>14. \E d : Colours(A, others, K, d)
  <2> DEFINE d == [u \in others |-> c[u]]
  <2>1. d \in [others -> 1 .. K]
    BY <1>5
  <2>2. ASSUME NEW u \in others, NEW v \in A[u] \cap others PROVE d[u] # d[v]
    <3>1. u \in R \ {keep} /\ v \in R \ {keep} /\ u \in Remaining
      BY <1>5
    <3>2. PICK r \in ActiveNeighbours(u) : v = Renamed(r, keep, gone)
      BY <1>9, <3>1
    <3>3. v \in ActiveNeighbours(u)
      BY <3>1, <3>2 DEF Renamed
    <3> QED
      BY <1>12, <3>1, <3>3
  <2> QED
    BY <2>1, <2>2 DEF Colours
<1>15. Cardinality(A[keep] \cap others) < K
  <2>1. \A n \in A[keep] : Degree(n) \in Nat
    BY <1>10, <1>13
  <2>2. A[keep] \cap others = high
    BY <1>11, <1>13, <2>1
  <2>3. Cardinality(high) < K
    BY <1>3, <1>8 DEF BriggsAllows
  <2> QED
    BY <2>2, <2>3
<1>16. \E d : Colours(A, others \cup {keep}, K, d)
  <2>1. others \in SUBSET R /\ keep \in R \ others
    BY <1>5
  <2> HIDE DEF others
  <2> QED
    BY <1>6, <1>7, <1>11, <1>14, <1>15, <2>1, ExtendColouring
<1>17. \E d : Colours(A, R, K, d)
  <2>1. others \cup {keep} \in SUBSET R /\ R \ (others \cup {keep}) \subseteq low
    BY <1>5
  <2>2. \A x \in R \ (others \cup {keep}) : Cardinality(A[x]) < K
    BY <1>10, <1>11, <1>13, <2>1
  <2> HIDE DEF others, low
  <2> QED
    BY <1>6, <1>7, <1>11, <1>16, <2>1, <2>2, GreedyColouring
<1>18. PICK d : Colours(A, R, K, d)
  BY <1>17
<1>19. d \in [R -> 1 .. K] /\ \A u \in R : \A v \in A[u] : d[u] # d[v]
  BY <1>7, <1>18 DEF Colours
<1>20. \A u \in R : Pool[d[u]] \in CalleeSaved
  BY <1>11, <1>19 DEF EveryRegisterSurvivesCalls
<1> QED
  BY <1>0, <1>19, <1>20 DEF Colourable, K, Pool, R, A

\* A coalescing step never turns a colourable graph into one that is not.
THEOREM CoalescingConservative == Spec => CoalescingIsConservative
<1>1. SInv /\ SInv' /\ [Next]_vars =>
        [Coalesce /\ EveryRegisterSurvivesCalls /\ Colourable => Colourable']_vars
  BY CoalesceColourable
<1> QED
  BY <1>1, SpillInvariant, PTL DEF Spec, CoalescingIsConservative

-----------------------------------------------------------------------------
(* The allocator on functions one after the other *)

\* The inputs of the colouring are what the function says.
Built ==
    /\ DOMAIN units \subseteq Units
    /\ \A p \in Points(func) : live[p[1]][p[2]] \subseteq DOMAIN units
    /\ live[Entry(func)][0] \subseteq DOMAIN units
    /\ graph = InterferenceGraph(Meets(func, units, live), regClass, Units)
    /\ spans = CrossesCall(func, units, live)

\* NoLater the first function there is nothing to keep apart.
Unused == func = NoFunction /\ units = <<>>

AInv == IInv /\ (Unused \/ Built)

-----------------------------------------------------------------------------
\* A graph made by interfere is symmetric and joins no two classes.
LEMMA GraphOfMeetings ==
    ASSUME NEW meets, NEW cls
    PROVE  LET g == InterferenceGraph(meets, cls, Units)
           IN g \in [Units -> SUBSET Units] /\ IsGraph(g, cls)
<1> DEFINE g == InterferenceGraph(meets, cls, Units)
<1>1. g = [u \in Units |->
             {v \in Units \ {u} : cls[u] = cls[v] /\ {<<u, v>>, <<v, u>>} \cap meets # {}}]
  BY DEF InterferenceGraph
<1>2. g \in [Units -> SUBSET Units]
  BY <1>1
<1>3. ASSUME NEW u \in Units, NEW v \in Units, v \in g[u]
      PROVE  u # v /\ u \in g[v] /\ cls[u] = cls[v]
  <2> HIDE DEF g
  <2>1. v # u /\ cls[u] = cls[v] /\ {<<u, v>>, <<v, u>>} \cap meets # {}
    BY <1>1, <1>3
  <2>2. {<<v, u>>, <<u, v>>} \cap meets # {}
    BY <2>1
  <2> QED
    BY <1>1, <2>1, <2>2
<1> QED
  BY <1>2, <1>3 DEF IsGraph

\* What an instruction or an argument defines is a unit.
LEMMA DefinedAreUnits ==
    ASSUME NEW f, NEW us, NEW v, NEW i
    PROVE  UnitAt(f, us, v) \subseteq DOMAIN us /\ DefinedBy(f, us, i) \subseteq DOMAIN us
BY DEF UnitAt, DefinedBy

\* Calls are instructions.
LEMMA CallsArePoints == ASSUME NEW f PROVE CallPoints(f) \subseteq Points(f)
BY DEF CallPoints

\* A function that has just been built is a fresh input of the colouring.
LEMMA BuildFresh ==
    ASSUME AInv, NEW f, NEW count, Build(f, count)
    PROVE  Fresh' /\ Built'
<1>1. /\ func' = f
      /\ regClass' = [u \in Units |-> IF u \in DOMAIN units' THEN ClassOf(f, units'[u]) ELSE "Integer"]
      /\ graph' = InterferenceGraph(Meets(f, units', live'), regClass', Units)
      /\ spans' = CrossesCall(f, units', live')
      /\ neighbours' = graph' /\ crossesCall' = spans'
      /\ removed' = Units \ DOMAIN units'
      /\ color' = [u \in Units |-> None] /\ spilled' = {}
      /\ rep' = [u \in Units |-> u] /\ settled' = {}
      /\ class' = "Integer" /\ phase' = "enter" /\ order' = <<>> /\ optimistic' = {}
      /\ assigned' = [u \in Units |-> None]
      /\ target' = target
      /\ FitsTheBound
  BY DEF Build
<1>2. /\ DOMAIN units' \subseteq Units
      /\ \A p \in Points(f) : live'[p[1]][p[2]] \subseteq DOMAIN units'
      /\ live'[Entry(f)][0] \subseteq DOMAIN units'
      /\ useWeight' \in [Units -> Nat]
      /\ moves' \in Seq(Units \X Units) /\ IsMoveList(moves', regClass')
  BY <1>1 DEF FitsTheBound
<1>3. Built'
  BY <1>1, <1>2 DEF Built
<1>4. regClass' \in [Units -> RegClasses]
  BY <1>1 DEF ClassOf, RegClasses
<1>5. graph' \in [Units -> SUBSET Units] /\ IsGraph(graph', regClass')
  BY <1>1, GraphOfMeetings
<1>6. spans' \subseteq Units
  <2>1. ASSUME NEW p \in CallPoints(f) PROVE AcrossCall(f, units', live', p) \subseteq Units
    BY <1>2, CallsArePoints DEF AcrossCall
  <2> QED
    BY <1>1, <2>1 DEF CrossesCall
<1>7. target' \in [RegClasses -> Seq(Registers)]
  BY <1>1 DEF AInv, IInv, TypeOK
<1> QED
  BY <1>1, <1>2, <1>3, <1>4, <1>5, <1>6, <1>7 DEF Fresh, InputsOK, RegClasses

\* The colouring writes none of its inputs.
LEMMA ColourKeepsInputs == Next => UNCHANGED inputs
BY DEF Next, EnterClass, NoRegisters, MainLoop, Simplify, Coalesce, Freeze, Spill, EndMain,
   SelectLoop, SelectColor, SelectSpill, EndSelect, Publish

-----------------------------------------------------------------------------
\* Nothing is built before the first function.
LEMMA AllocationInitAInv == AllocationInit => AInv
<1> SUFFICES ASSUME AllocationInit PROVE AInv
  OBVIOUS
<1>1. InputsOK
  BY DEF AllocationInit, Idle0, InputsOK, IsGraph, IsMoveList
<1>2. Fresh
  BY <1>1, PoolAssumption DEF AllocationInit, Idle0, Fresh, RegClasses
<1>3. Unused
  BY DEF AllocationInit, Unused
<1> QED
  BY <1>2, <1>3, FreshIInv DEF AInv

\* Handing over a function builds its inputs; the colouring leaves them alone.
LEMMA AllocationNextAInv == AInv /\ [AllocationNext]_avars => AInv'
<1> SUFFICES ASSUME AInv, [AllocationNext]_avars PROVE AInv'
  OBVIOUS
<1>1. CASE \E f, count : Build(f, count)
  <2>1. Fresh' /\ Built'
    BY <1>1, BuildFresh
  <2>2. Fresh' => IInv'
    BY FreshIInv, PTL
  <2> QED
    BY <2>1, <2>2 DEF AInv
<1>2. CASE Colour
  <2>1. IInv'
    BY <1>2, NextIInv DEF AInv, Colour
  <2>2. UNCHANGED <<graph, spans, regClass, func, units, live>>
    BY <1>2, ColourKeepsInputs DEF Colour, inputs
  <2> QED
    BY <2>1, <2>2 DEF AInv, Unused, Built
<1>3. CASE UNCHANGED avars
  <2>1. UNCHANGED vars /\ UNCHANGED <<graph, spans, regClass, func, units, live>>
    BY <1>3 DEF avars, vars, inputs
  <2>2. IInv'
    BY <2>1, NextIInv DEF AInv
  <2> QED
    BY <2>1, <2>2 DEF AInv, Unused, Built
<1> QED
  BY <1>1, <1>2, <1>3 DEF AllocationNext

\* Whichever functions are allocated, in whatever order.
LEMMA AllocationInvariant == AllocationSpec => []AInv
BY AllocationInitAInv, AllocationNextAInv, PTL DEF AllocationSpec

\* Two units that meet are joined in the graph.
LEMMA MeetingsAreEdges ==
    ASSUME Built, NEW d \in Units, NEW u \in Units, u # d, regClass[d] = regClass[u],
           <<d, u>> \in Meets(func, units, live)
    PROVE  u \in graph[d]
BY DEF Built, InterferenceGraph

\* The registers a function is given keep its values: nothing an instruction or an
\* arriving argument writes is the register of something live, and what lives across
\* a call is not where the call may write.
THEOREM LiveValuesKeepTheirRegisters == AllocationSpec => []NothingLiveIsClobbered
<1>1. AInv => NothingLiveIsClobbered
  <2> SUFFICES ASSUME AInv, phase = "done" PROVE NothingLiveIsClobbered
    BY DEF NothingLiveIsClobbered
  <2>1. CASE Unused
    <3>1. Points(func) = {} /\ DOMAIN func.params = {}
      BY <2>1 DEF Unused, NoFunction, Points, Blocks
    <3> QED
      BY <3>1, CallsArePoints DEF NothingLiveIsClobbered
  <2>2. CASE Built
    <3>1. /\ DOMAIN units \subseteq Units
          /\ \A p \in Points(func) : live[p[1]][p[2]] \subseteq DOMAIN units
          /\ live[Entry(func)][0] \subseteq DOMAIN units
      BY <2>2 DEF Built
    <3>2. ASSUME NEW d \in Units, NEW u \in Units, u # d, regClass[d] = regClass[u],
                 <<d, u>> \in Meets(func, units, live), assigned[d] # None
          PROVE  assigned[d] # assigned[u]
      BY <2>2, <3>2, MeetingsAreEdges, IInvProper DEF AInv, ProperColouring
    <3>3. ASSUME NEW p \in Points(func),
                 NEW d \in DefinedBy(func, units, func.code[p[1]][p[2]]),
                 NEW u \in live[p[1]][p[2]] \ {d},
                 assigned[d] # None, regClass[d] = regClass[u]
          PROVE  assigned[d] # assigned[u]
      <4>1. <<d, u>> \in Meets(func, units, live)
        BY DEF Meets, MeetsAt
      <4>2. d \in Units /\ u \in Units
        BY <3>1, DefinedAreUnits
      <4> QED
        BY <3>2, <3>3, <4>1, <4>2
    <3>4. ASSUME NEW n \in DOMAIN func.params,
                 NEW d \in UnitAt(func, units, Arg(n)), NEW u \in live[Entry(func)][0] \ {d},
                 assigned[d] # None, regClass[d] = regClass[u]
          PROVE  assigned[d] # assigned[u]
      <4>1. <<d, u>> \in Meets(func, units, live)
        BY DEF Meets, ArgumentsMeet
      <4>2. d \in Units /\ u \in Units
        BY <3>1, DefinedAreUnits
      <4> QED
        BY <3>2, <3>4, <4>1, <4>2
    <3>5. ASSUME NEW p \in CallPoints(func), NEW u \in AcrossCall(func, units, live, p)
          PROVE  assigned[u] \in CalleeSaved \cup {None}
      <4>1. u \in spans
        BY <2>2 DEF Built, CrossesCall
      <4> QED
        BY <4>1, IInvCallSafe DEF AInv, CallSafe
    <3> QED
      BY <3>3, <3>4, <3>5 DEF NothingLiveIsClobbered
  <2> QED
    BY <2>1, <2>2 DEF AInv
<1> QED
  BY <1>1, AllocationInvariant, PTL

-----------------------------------------------------------------------------
(* What the frame arithmetic guarantees for every number of slots, outgoing
   arguments and pushed registers *)

\* Rounding up gives the first multiple that is large enough.
LEMMA AlignUpIsAMultiple ==
    ASSUME NEW n \in Nat
    PROVE  /\ AlignUp(n, Alignment) \in Nat
           /\ AlignUp(n, Alignment) % Alignment = 0
           /\ n <= AlignUp(n, Alignment) /\ AlignUp(n, Alignment) < n + Alignment
<1> DEFINE q == (n + 15) \div 16
<1>1. q \in Nat /\ 16 * q <= n + 15 /\ n + 15 < 16 * q + 16
  OBVIOUS
<1>2. AlignUp(n, Alignment) = 16 * q
  <2>1. AlignUp(n, Alignment) = ((n + 16 - 1) \div 16) * 16
    BY DEF AlignUp, Alignment
  <2>2. n + 16 - 1 = n + 15
    OBVIOUS
  <2> QED
    BY <1>1, <2>1, <2>2
<1> HIDE DEF q
<1> QED
  BY <1>1, <1>2 DEF Alignment

\* The return address and rbp leave the stack aligned; with the pushed registers and
\* the frame below them it is aligned again at every call, whether their number is odd
\* or even, and everything a function keeps there has room.
THEOREM FrameKeepsTheStackAligned ==
    ASSUME NEW local \in Nat, NEW outgoing \in Nat, NEW pushes \in Nat
    PROVE  /\ (8 * pushes + FrameSize(local, outgoing, pushes)) % Alignment = 0
           /\ local + outgoing <= FrameSize(local, outgoing, pushes)
<1> DEFINE frame == AlignUp(local + outgoing, Alignment)
<1>1. frame \in Nat /\ frame % 16 = 0 /\ local + outgoing <= frame
  BY AlignUpIsAMultiple DEF Alignment
<1>2. FrameSize(local, outgoing, pushes) = frame + (IF pushes % 2 = 1 THEN 8 ELSE 0)
  BY DEF FrameSize
<1> HIDE DEF frame
<1>3. CASE pushes % 2 = 1
  BY <1>1, <1>2, <1>3 DEF Alignment
<1>4. CASE pushes % 2 = 0
  BY <1>1, <1>2, <1>4 DEF Alignment
<1> QED
  BY <1>3, <1>4

-----------------------------------------------------------------------------
(* Block layout *)

Conditional == {"je", "jne", "jl", "jg", "jle", "jge"}

\* The jumps of a block go where its branch does
JumpsFit(f, b, jumps) ==
    LET to == Successors(f, b)
    IN /\ Len(to) = 0 => jumps = <<>>
       /\ Len(to) = 1 => jumps = <<Jump("jmp", to[1])>>
       /\ Len(to) = 2 => \E cond \in Conditional :
            /\ jumps = <<Jump(cond, to[1]), Jump("jmp", to[2])>>
            /\ \A sign \in Orders :
                 Chosen(f, b, sign) = IF sign \in JumpsOn[cond] THEN to[1] ELSE to[2]

\* Machine code before jumps are removed: every block once, each with its jumps
IsMachine(f, machine, size) ==
    /\ size \in Nat \ {0} /\ DOMAIN machine = 1 .. size
    /\ machine \in Seq({machine[n] : n \in 1 .. size}) /\ Len(machine) = size
    /\ \A n \in 1 .. size :
         /\ machine[n].label \in Blocks(f) /\ machine[n].count \in Nat
         /\ JumpsFit(f, machine[n].label, machine[n].jumps)
    /\ machine[1].label = Entry(f)
    /\ \A b \in Blocks(f) : \E n \in 1 .. size : machine[n].label = b

\* The targets of a block are blocks.
LEMMA SuccessorsAreBlocks ==
    ASSUME NEW f, IsFunction(f), NEW b \in Blocks(f)
    PROVE  Successors(f, b) \in Seq(Blocks(f))
<1>1. CASE HasTerminator(f, b)
  <2>1. f.code[b] \in Seq(DOMAIN f.inst) /\ f.code[b] # <<>>
    BY <1>1 DEF HasTerminator, IsFunction
  <2>2. Last(f.code[b]) \in DOMAIN f.inst
    BY <2>1 DEF Last
  <2> QED
    BY <1>1, <2>2 DEF Successors, Terminator, IsFunction
<1>2. CASE ~HasTerminator(f, b)
  BY <1>2 DEF Successors
<1> QED
  BY <1>1, <1>2

\* A jump is taken on some outcomes, and on the others once it is inverted.
LEMMA InvertedIsOpposite ==
    ASSUME NEW cond \in Conditional
    PROVE  /\ Inverted[cond] \in Conditional
           /\ \A sign \in Orders : sign \in JumpsOn[Inverted[cond]] <=> sign \notin JumpsOn[cond]
BY DEF Conditional, Inverted, JumpsOn, Orders

\* What a branch is lowered to goes where the branch does.
LEMMA JumpsOfFit ==
    ASSUME NEW f, IsFunction(f), Branching(f), NEW b \in Blocks(f)
    PROVE  JumpsFit(f, b, JumpsOf(f, b))
<1> DEFINE to == Successors(f, b)
           jumps == JumpsOf(f, b)
           attr == f.inst[Terminator(f, b).args[1][2]].attr
           first == IF Fused(f, b) THEN JumpFor[attr] ELSE "jne"
<1>1. to \in Seq(Blocks(f)) /\ Len(to) \in {0, 1, 2}
  <2>1. to \in Seq(Blocks(f)) /\ Len(to) <= 2
    BY SuccessorsAreBlocks DEF Branching
  <2> HIDE DEF to
  <2>2. Len(to) \in Nat
    BY <2>1
  <2>3. \A k \in Nat : k <= 2 => k \in {0, 1, 2}
    OBVIOUS
  <2> QED
    BY <2>1, <2>2, <2>3, Zenon
<1>2. /\ Len(to) = 0 => jumps = <<>>
      /\ Len(to) = 1 => jumps = <<Jump("jmp", to[1])>>
      /\ Len(to) = 2 => jumps = <<Jump(first, to[1]), Jump("jmp", to[2])>>
  <2>1. jumps = CASE Len(to) = 0 -> <<>>
                  [] Len(to) = 1 -> <<Jump("jmp", to[1])>>
                  [] Len(to) > 1 -> <<Jump(first, to[1]), Jump("jmp", to[2])>>
    BY Zenon DEF JumpsOf
  <2> HIDE DEF jumps, to, first
  <2> QED
    BY <1>1, <2>1
<1> HIDE DEF jumps
<1>3. CASE Len(to) = 0
  <2>1. jumps = <<>>
    BY <1>2, <1>3
  <2> QED
    BY <1>3, <2>1 DEF JumpsFit, jumps
<1>4. CASE Len(to) = 1
  <2>1. jumps = <<Jump("jmp", to[1])>>
    BY <1>2, <1>4
  <2> QED
    BY <1>4, <2>1 DEF JumpsFit, jumps
<1>5. CASE Len(to) = 2
  <2>1. jumps = <<Jump(first, to[1]), Jump("jmp", to[2])>>
    BY <1>2, <1>5
  <2>2. first \in Conditional /\ \A sign \in Orders :
          Chosen(f, b, sign) = IF sign \in JumpsOn[first] THEN to[1] ELSE to[2]
    <3>1. CASE Fused(f, b)
      <4>1. attr \in {"eq", "ne", "lt", "gt", "le", "ge"}
        BY <1>5, <3>1 DEF Branching, JumpFor
      <4>2. first = JumpFor[attr]
        BY <3>1
      <4> DEFINE holds == [eq |-> {"equal"}, ne |-> {"less", "greater"}, lt |-> {"less"},
                           gt |-> {"greater"}, le |-> {"less", "equal"}, ge |-> {"greater", "equal"}]
      <4>3. \A sign : Chosen(f, b, sign) = IF Len(to) = 1 \/ sign \in holds[attr] THEN to[1] ELSE to[2]
        BY <3>1 DEF Chosen
      <4> HIDE DEF to, attr
      <4>4. JumpFor[attr] \in Conditional /\ \A sign \in Orders : sign \in JumpsOn[JumpFor[attr]] <=> sign \in holds[attr]
        BY <4>1 DEF JumpFor, JumpsOn, Orders, Conditional
      <4> QED
        BY <1>5, <4>2, <4>3, <4>4
    <3>2. CASE ~Fused(f, b)
      <4>1. first = "jne"
        BY <3>2
      <4>2. \A sign : Chosen(f, b, sign) = IF Len(to) = 1 \/ sign \in {"less", "greater"} THEN to[1] ELSE to[2]
        BY <3>2 DEF Chosen
      <4> HIDE DEF to, first
      <4>3. "jne" \in Conditional /\ JumpsOn["jne"] = {"less", "greater"}
        BY DEF Conditional, JumpsOn
      <4> QED
        BY <1>5, <4>1, <4>2, <4>3
    <3> QED
      BY <3>1, <3>2
  <2> HIDE DEF first
  <2> QED
    BY <1>5, <2>1, <2>2 DEF JumpsFit, jumps
<1> HIDE DEF to
<1> QED
  BY <1>1, <1>3, <1>4, <1>5 DEF jumps

\* What code generation leaves.
LEMMA LoweredIsMachine ==
    ASSUME NEW f, IsFunction(f), Branching(f), NEW counts \in [Blocks(f) -> Nat]
    PROVE  IsMachine(f, Lowered(f, counts), Len(f.order))
<1>1. /\ Len(f.order) \in Nat \ {0} /\ DOMAIN f.order = 1 .. Len(f.order)
      /\ \A n \in 1 .. Len(f.order) : f.order[n] \in Blocks(f)
      /\ f.order[1] = Entry(f)
  BY DEF IsFunction, Entry
<1>2. \A b \in Blocks(f) : \E n \in 1 .. Len(f.order) : f.order[n] = b
  BY <1>1 DEF IsFunction, ToSet
<1>3. \A n \in 1 .. Len(f.order) : JumpsFit(f, f.order[n], JumpsOf(f, f.order[n]))
  BY <1>1, JumpsOfFit
<1> QED
  BY <1>1, <1>2, <1>3 DEF Lowered, IsMachine

\* The first of the most frequent of some places is one of them.
LEMMA HottestIsThere ==
    ASSUME NEW machine, NEW positions, NEW places \in SUBSET Nat, IsFiniteSet(places), places # {},
           \A n \in places : machine[positions[n]].count \in Nat
    PROVE  \E n \in places : Hottest(machine, positions, places) = positions[n]
<1> DEFINE count(n) == machine[positions[n]].count
           NoLater(n, m) == count(n) > count(m) \/ (count(n) = count(m) /\ n <= m)
           Ahead(n) == {m \in places : m # n /\ NoLater(m, n)}
           F == {Ahead(n) : n \in places}
           R == StrictSubsetOrdering(places)
<1>1. \A n \in places : count(n) \in Nat /\ n \in Nat
  OBVIOUS
<1>2. Hottest(machine, positions, places) = positions[CHOOSE n \in places : \A m \in places : NoLater(n, m)]
  BY Zenon DEF Hottest
<1> HIDE DEF count
<1>3. \E n \in places : \A m \in places : NoLater(n, m)
  <2>1. F \subseteq FiniteSubsetsOf(places) /\ F # {}
    <3>1. \A T \in SUBSET places : IsFiniteSet(T)
      BY FS_Subset
    <3>2. \A n \in places : Ahead(n) \in SUBSET places
      OBVIOUS
    <3> HIDE DEF Ahead
    <3> QED
      BY <3>1, <3>2 DEF FiniteSubsetsOf
  <2>2. IsWellFoundedOn(R, FiniteSubsetsOf(places))
    BY FS_StrictSubsetOrderingWellFounded
  <2>3. PICK x \in F : \A y \in F : <<y, x>> \notin R
    <3> HIDE DEF F, R
    <3> QED
      BY <2>1, <2>2, WFMin
  <2>4. PICK n \in places : x = Ahead(n)
    BY <2>3
  <2>5. ASSUME NEW m \in places, ~NoLater(n, m) PROVE FALSE
    <3>1. m \in Ahead(n) /\ m \notin Ahead(m)
      BY <1>1, <2>5
    <3>2. ASSUME NEW k \in Ahead(m) PROVE k \in Ahead(n)
      <4>1. k \in places /\ NoLater(k, m)
        OBVIOUS
      <4>2. NoLater(k, n) /\ k # n
        BY <1>1, <2>5, <4>1
      <4> QED
        BY <4>1, <4>2
    <3>3. <<Ahead(m), Ahead(n)>> \in R
      <4>1. Ahead(m) \in SUBSET places /\ Ahead(n) \in SUBSET places
        OBVIOUS
      <4> HIDE DEF Ahead
      <4> QED
        BY <3>1, <3>2, <4>1 DEF StrictSubsetOrdering
    <3> QED
      BY <2>3, <2>4, <3>3
  <2> QED
    BY <2>5
<1> HIDE DEF NoLater
<1> QED
  BY <1>2, <1>3

\* The first numbers are finitely many.
LEMMA UpToIsFinite ==
    ASSUME NEW n \in Nat
    PROVE  IsFiniteSet(1 .. n) /\ Cardinality(1 .. n) = n
<1> DEFINE B == 1 .. n
<1>1. IsFiniteSet(B) /\ Cardinality(B) = n
  BY FS_Interval
<1> QED
  BY <1>1

\* The positions that are placed by a list
Placed(placed) == {placed[i] : i \in 1 .. Len(placed)}

\* A list that is shorter than the code leaves something out.
LEMMA SomethingIsLeft ==
    ASSUME NEW size \in Nat, NEW placed \in Seq(1 .. size), Len(placed) < size
    PROVE  (1 .. size) \ Placed(placed) # {}
<1> DEFINE S == 1 .. Len(placed)
           T == Placed(placed)
           B == 1 .. size
<1>1. IsFiniteSet(S) /\ Cardinality(S) = Len(placed)
  <2>1. Len(placed) \in Nat
    OBVIOUS
  <2> QED
    BY <2>1, UpToIsFinite, Zenon
<1>2. IsFiniteSet(B) /\ Cardinality(B) = size
  BY UpToIsFinite, Zenon
<1>3. placed \in Surjection(S, T)
  BY DEF Surjection, Placed
<1> HIDE DEF S, T
<1>4. Cardinality(T) <= Cardinality(S)
  BY <1>1, <1>3, FS_Surjection
<1>5. T # B
  BY <1>1, <1>2, <1>4
<1> QED
  BY <1>5 DEF T, Placed

\* A jump goes to a block, and there are at most two.
LEMMA JumpTargets ==
    ASSUME NEW f, IsFunction(f), Branching(f), NEW b \in Blocks(f), NEW jumps, JumpsFit(f, b, jumps)
    PROVE  /\ DOMAIN jumps \in SUBSET (1 .. 2)
           /\ \A j \in DOMAIN jumps : jumps[j].to \in Blocks(f)
<1> DEFINE to == Successors(f, b)
<1>1. to \in Seq(Blocks(f)) /\ Len(to) <= 2
  BY SuccessorsAreBlocks DEF Branching
<1>2. /\ Len(to) = 0 => jumps = <<>>
      /\ Len(to) = 1 => jumps = <<Jump("jmp", to[1])>>
      /\ Len(to) = 2 => \E cond \in Conditional : jumps = <<Jump(cond, to[1]), Jump("jmp", to[2])>>
  BY DEF JumpsFit
<1> HIDE DEF to
<1>3. Len(to) \in {0, 1, 2}
  <2>1. Len(to) \in Nat
    BY <1>1
  <2>2. \A k \in Nat : k <= 2 => k \in {0, 1, 2}
    OBVIOUS
  <2> QED
    BY <1>1, <2>1, <2>2, Zenon
<1> QED
  BY <1>1, <1>2, <1>3 DEF Jump

\* What is placed next is in the code and not placed yet.
LEMMA NextPlacedIs ==
    ASSUME NEW f, IsFunction(f), Branching(f), NEW machine, NEW size, IsMachine(f, machine, size),
           NEW placed \in Seq(1 .. size), placed # <<>>, Len(placed) < size
    PROVE  NextPlaced(machine, placed) \in (1 .. size) \ Placed(placed)
<1> DEFINE position(b) == CHOOSE n \in DOMAIN machine : machine[n].label = b
           jumps == machine[Last(placed)].jumps
           targets == [j \in DOMAIN jumps |-> position(jumps[j].to)]
           all == [n \in DOMAIN machine |-> n]
           unplaced(positions) == {n \in DOMAIN positions : ~Contains(placed, positions[n])}
           next == NextPlaced(machine, placed)
<1>1. size \in Nat /\ DOMAIN machine = 1 .. size /\ \A n \in 1 .. size : machine[n].count \in Nat
  BY DEF IsMachine
<1>2. \A n : Contains(placed, n) <=> n \in Placed(placed)
  BY DEF Contains, Placed
<1>3. next = IF unplaced(targets) # {} THEN Hottest(machine, targets, unplaced(targets))
             ELSE Hottest(machine, all, unplaced(all))
  BY Zenon DEF NextPlaced
<1>4. Last(placed) \in 1 .. size
  <2>1. Len(placed) \in 1 .. Len(placed) /\ DOMAIN placed = 1 .. Len(placed)
    OBVIOUS
  <2> DEFINE D == 1 .. size
  <2>2. placed \in Seq(D)
    OBVIOUS
  <2> HIDE DEF D
  <2>3. placed[Len(placed)] \in D
    BY <2>1, <2>2
  <2> QED
    BY <2>3 DEF Last, D
<1>5. DOMAIN jumps \in SUBSET (1 .. 2) /\ \A j \in DOMAIN jumps : jumps[j].to \in Blocks(f)
  BY <1>4, JumpTargets DEF IsMachine
<1>6. \A b \in Blocks(f) : position(b) \in 1 .. size
  BY DEF IsMachine
<1> HIDE DEF position, jumps
<1>7. DOMAIN targets = DOMAIN jumps /\ \A j \in DOMAIN targets : targets[j] \in 1 .. size
  BY <1>5, <1>6
<1>8. DOMAIN all = 1 .. size /\ \A j \in 1 .. size : all[j] = j
  BY <1>1
<1> HIDE DEF targets, all, next
<1>9. CASE unplaced(targets) # {}
  <2> DEFINE places == unplaced(targets)
  <2>1. places \in SUBSET (1 .. 2)
    BY <1>5, <1>7
  <2>2. IsFiniteSet(places) /\ places \in SUBSET Nat
    <3>1. IsFiniteSet(1 .. 2)
      BY 2 \in Nat, UpToIsFinite, Zenon
    <3>2. \A n \in 1 .. 2 : n \in Nat
      OBVIOUS
    <3> HIDE DEF places
    <3>3. IsFiniteSet(places)
      BY <2>1, <3>1, FS_Subset, Zenon
    <3> QED
      BY <2>1, <3>2, <3>3
  <2>3. \A n \in places : targets[n] \in (1 .. size) \ Placed(placed)
    BY <1>2, <1>7
  <2>4. next = Hottest(machine, targets, places) /\ places # {}
    BY <1>3, <1>9
  <2> HIDE DEF places
  <2>5. \A n \in places : machine[targets[n]].count \in Nat
    BY <1>1, <2>3
  <2>6. \E n \in places : Hottest(machine, targets, places) = targets[n]
    BY <2>2, <2>4, <2>5, HottestIsThere
  <2> QED
    BY <2>3, <2>4, <2>6 DEF next
<1>10. CASE unplaced(targets) = {}
  <2> DEFINE places == unplaced(all)
  <2>1. places = (1 .. size) \ Placed(placed)
    BY <1>2, <1>8
  <2>2. next = Hottest(machine, all, places)
    BY <1>3, <1>10
  <2> HIDE DEF places
  <2>3. IsFiniteSet(places) /\ places # {} /\ places \in SUBSET Nat
    <3>1. IsFiniteSet(1 .. size)
      BY <1>1, UpToIsFinite, Zenon
    <3>2. places # {}
      BY <1>1, <2>1, SomethingIsLeft
    <3>3. places \in SUBSET (1 .. size) /\ places \in SUBSET Nat
      BY <2>1
    <3>4. IsFiniteSet(places)
      BY <3>1, <3>3, FS_Subset, Zenon
    <3> QED
      BY <3>2, <3>3, <3>4
  <2>4. \A n \in places : machine[all[n]].count \in Nat /\ all[n] = n
    BY <1>1, <1>8, <2>1
  <2>5. \E n \in places : Hottest(machine, all, places) = all[n]
    BY <2>3, <2>4, HottestIsThere
  <2> QED
    BY <2>1, <2>2, <2>4, <2>5 DEF next
<1> QED
  BY <1>9, <1>10

\* The walk of the placement: after each round one more position
IsPlacement(machine, size, h) ==
    h = [n \in 0 .. size - 1 |-> IF n = 0 THEN <<1>> ELSE Append(h[n - 1], NextPlaced(machine, h[n - 1]))]

\* Every list a placement goes through names one more position and none twice.
LEMMA PlacementsGrow ==
    ASSUME NEW f, IsFunction(f), Branching(f), NEW machine, NEW size, IsMachine(f, machine, size),
           NEW h, IsPlacement(machine, size, h)
    PROVE  \A n \in 0 .. size - 1 : /\ h[n] \in Seq(1 .. size) /\ Len(h[n]) = n + 1 /\ h[n][1] = 1
                                 /\ \A i, j \in 1 .. n + 1 : h[n][i] = h[n][j] => i = j
<1> DEFINE D == 1 .. size
           Grown(s, n) == /\ s \in Seq(D) /\ Len(s) = n + 1 /\ s[1] = 1
                          /\ \A i, j \in 1 .. n + 1 : s[i] = s[j] => i = j
           S == {n \in 0 .. size - 1 : Grown(h[n], n)}
<1>1. size \in Nat \ {0} /\ size - 1 \in Nat /\ 1 \in D
  BY DEF IsMachine
<1>0. h[0] = <<1>> /\ \A n \in 1 .. size - 1 : h[n] = Append(h[n - 1], NextPlaced(machine, h[n - 1]))
  <2> DEFINE G(n) == IF n = 0 THEN <<1>> ELSE Append(h[n - 1], NextPlaced(machine, h[n - 1]))
  <2>1. h = [n \in 0 .. size - 1 |-> G(n)]
    BY Zenon DEF IsPlacement
  <2>2. G(0) = <<1>> /\ \A n \in 1 .. size - 1 : G(n) = Append(h[n - 1], NextPlaced(machine, h[n - 1]))
    BY <1>1
  <2>3. 0 \in 0 .. size - 1 /\ \A n \in 1 .. size - 1 : n \in 0 .. size - 1
    BY <1>1
  <2> HIDE DEF G
  <2>4. \A n \in 0 .. size - 1 : h[n] = G(n)
    BY <2>1, Zenon
  <2> QED
    BY <2>2, <2>3, <2>4, Zenon
<1>2. 0 \in S
  <2>1. <<1>> \in Seq(D) /\ Len(<<1>>) = 1 /\ <<1>>[1] = 1
    BY <1>1
  <2>2. Grown(<<1>>, 0)
    BY <2>1
  <2>3. 0 \in 0 .. size - 1
    BY <1>1
  <2> HIDE DEF Grown
  <2>4. Grown(h[0], 0)
    BY <1>0, <2>2, Zenon
  <2> QED
    BY <2>3, <2>4, Zenon
<1>3. ASSUME NEW n \in 1 .. size - 1, n - 1 \in S PROVE n \in S
  <2> DEFINE old == h[n - 1]
             next == NextPlaced(machine, old)
  <2>1. Grown(old, n - 1) /\ n \in Nat
    <3> HIDE DEF Grown
    <3> QED
      BY <1>1, <1>3
  <2>2. old \in Seq(D) /\ Len(old) = n /\ old # <<>> /\ Len(old) < size
    BY <1>1, <2>1
  <2>3. next \in D \ Placed(old)
    BY <2>2, NextPlacedIs
  <2>4. h[n] = Append(old, next)
    BY <1>0
  <2>5. Grown(Append(old, next), n)
    <3> HIDE DEF next, D, old
    <3>1. /\ Append(old, next) \in Seq(D) /\ Len(Append(old, next)) = n + 1
          /\ \A i \in 1 .. n : Append(old, next)[i] = old[i]
          /\ Append(old, next)[n + 1] = next
      BY <2>1, <2>2, <2>3
    <3>2. \A i \in 1 .. n : old[i] # next
      BY <2>2, <2>3 DEF Placed
    <3>3. \A i \in 1 .. n + 1 : i \in 1 .. n \/ i = n + 1
      BY <2>1
    <3> QED
      BY <2>1, <3>1, <3>2, <3>3
  <2>6. n \in 0 .. size - 1
    BY <1>1
  <2> HIDE DEF Grown, next, old
  <2> QED
    BY <2>4, <2>5, <2>6
<1>4. \A n \in 0 .. size - 1 : n \in S
  <2> HIDE DEF S
  <2> QED
    BY <1>1, <1>2, <1>3, Rounds
<1> QED
  BY <1>4

\* There is a placement.
LEMMA PlacementExists ==
    ASSUME NEW f, IsFunction(f), Branching(f), NEW machine, NEW size, IsMachine(f, machine, size)
    PROVE  \E h : IsPlacement(machine, size, h)
<1> DEFINE D == 1 .. size
           next(s) == NextPlaced(machine, s)
           Shorter(s) == s # <<>> /\ Len(s) < size
           body == [s \in Seq(D) |-> IF Shorter(s) THEN Append(s, next(s)) ELSE s]
           F == [n \in 1 .. size - 1 |-> body]
<1>1. size \in Nat \ {0} /\ size - 1 \in Nat /\ <<1>> \in Seq(D)
  BY DEF IsMachine
<1>2. \A s \in Seq(D) : Shorter(s) => next(s) \in D \ Placed(s)
  BY NextPlacedIs
<1>3. body \in [Seq(D) -> Seq(D)]
  <2> HIDE DEF next, D
  <2> QED
    BY <1>2
<1>4. F \in [1 .. size - 1 -> [Seq(D) -> Seq(D)]]
  <2> HIDE DEF body, D
  <2> QED
    BY <1>3
<1>5. PICK h : IsLoop(h, size - 1, Seq(D), <<1>>, F)
  <2> HIDE DEF F, D
  <2> QED
    BY <1>1, <1>4, LoopExists
<1>6. h \in [0 .. size - 1 -> Seq(D)] /\ h[0] = <<1>>
  BY <1>5 DEF IsLoop
<1>7. ASSUME NEW n \in 1 .. size - 1
      PROVE  h[n - 1] \in Seq(D) /\ h[n] = body[h[n - 1]]
  <2>1. n - 1 \in 0 .. size - 1
    BY <1>1
  <2>2. F[n] = body
    <3> HIDE DEF body
    <3> QED
      OBVIOUS
  <2>3. h[n] = F[n][h[n - 1]]
    BY <1>5 DEF IsLoop
  <2>4. h[n - 1] \in Seq(D)
    <3> HIDE DEF D
    <3> QED
      BY <1>6, <2>1, Zenon
  <2>5. h[n] = body[h[n - 1]]
    <3> HIDE DEF F, body
    <3> QED
      BY <2>2, <2>3
  <2> QED
    BY <2>4, <2>5, Zenon
<1>8. \A n \in 0 .. size - 1 : Len(h[n]) = n + 1
  <2> DEFINE S == {n \in 0 .. size - 1 : Len(h[n]) = n + 1}
  <2>1. 0 \in S
    BY <1>1, <1>6
  <2>2. ASSUME NEW n \in 1 .. size - 1, n - 1 \in S PROVE n \in S
    <3> DEFINE old == h[n - 1]
    <3>1. old \in Seq(D) /\ Len(old) = n /\ Shorter(old) /\ h[n] = body[old]
      BY <1>1, <1>7, <2>2
    <3> HIDE DEF old, next, D, Shorter
    <3>2. h[n] = Append(old, next(old)) /\ next(old) \in D
      BY <1>2, <3>1
    <3>3. Len(h[n]) = n + 1
      BY <3>1, <3>2
    <3> QED
      BY <3>3
  <2>3. \A n \in 0 .. size - 1 : n \in S
    <3> HIDE DEF S
    <3> QED
      BY <1>1, <2>1, <2>2, Rounds
  <2> QED
    BY <2>3
<1>9. ASSUME NEW n \in 1 .. size - 1 PROVE h[n] = Append(h[n - 1], NextPlaced(machine, h[n - 1]))
  <2>1. h[n - 1] \in Seq(D) /\ h[n] = body[h[n - 1]] /\ Len(h[n - 1]) = n
    <3>1. n - 1 \in 0 .. size - 1 /\ n - 1 + 1 = n
      BY <1>1
    <3>2. Len(h[n - 1]) = n
      BY <1>8, <3>1
    <3> HIDE DEF D, body
    <3> QED
      BY <1>7, <3>2
  <2>2. Shorter(h[n - 1])
    BY <1>1, <2>1
  <2> HIDE DEF Shorter, D
  <2> QED
    BY <2>1, <2>2
<1> HIDE DEF D
<1>10. h = [n \in 0 .. size - 1 |-> h[n]]
  BY <1>6
<1>11. \A n \in 0 .. size - 1 : n = 0 \/ n \in 1 .. size - 1
  BY <1>1
<1> QED
  BY <1>6, <1>9, <1>10, <1>11 DEF IsPlacement

\* The order is what a placement ends with.
LEMMA OrderIsPlacement ==
    ASSUME NEW f, IsFunction(f), Branching(f), NEW machine, NEW size, IsMachine(f, machine, size)
    PROVE  \E h : IsPlacement(machine, size, h) /\ PlacedByFrequency(machine) = h[size - 1]
<1> DEFINE rest == Tail(machine)
           g[n \in 0 .. Len(rest)] ==
             IF n = 0 THEN <<1>>
             ELSE CHOOSE r \in {Append(placed, NextPlaced(machine, placed)) : placed \in {g[n - 1]}} : TRUE
<1>1. PlacedByFrequency(machine) = g[Len(rest)]
  BY Zenon DEF PlacedByFrequency, PrefixByPrefix
<1>2. \A h, n : (CHOOSE r \in {Append(placed, NextPlaced(machine, placed)) : placed \in {h[n - 1]}} : TRUE)
                  = Append(h[n - 1], NextPlaced(machine, h[n - 1]))
  OBVIOUS
<1>3. PICK h : IsPlacement(machine, size, h)
  BY PlacementExists
<1>4. Len(rest) = size - 1 /\ size \in Nat \ {0}
  BY DEF IsMachine
<1> HIDE DEF rest
<1>5. h = [n \in 0 .. Len(rest) |->
             IF n = 0 THEN <<1>>
             ELSE CHOOSE r \in {Append(placed, NextPlaced(machine, placed)) : placed \in {h[n - 1]}} : TRUE]
  <2> HIDE DEF g
  <2> QED
    BY <1>2, <1>3, <1>4 DEF IsPlacement
<1>6. g = [n \in 0 .. Len(rest) |->
             IF n = 0 THEN <<1>>
             ELSE CHOOSE r \in {Append(placed, NextPlaced(machine, placed)) : placed \in {g[n - 1]}} : TRUE]
  BY <1>5, Zenon
<1>7. IsPlacement(machine, size, g)
  <2> HIDE DEF g
  <2> QED
    BY <1>2, <1>4, <1>6 DEF IsPlacement
<1> HIDE DEF g
<1> QED
  BY <1>1, <1>4, <1>7

\* The order is a permutation of the blocks, and the entry stays where it is.
LEMMA OrderIsPermutation ==
    ASSUME NEW f, IsFunction(f), Branching(f), NEW machine, NEW size, IsMachine(f, machine, size),
           NEW placing, placing = PlacedByFrequency(machine)
    PROVE  /\ placing \in [1 .. size -> 1 .. size] /\ placing[1] = 1
           /\ \A n \in 1 .. size : \E i \in 1 .. size : placing[i] = n
<1> DEFINE D == 1 .. size
<1>1. size \in Nat \ {0} /\ size - 1 \in 0 .. size - 1 /\ size - 1 + 1 = size
  BY DEF IsMachine
<1>2. PICK h : IsPlacement(machine, size, h) /\ placing = h[size - 1]
  BY OrderIsPlacement
<1>3. placing \in Seq(D) /\ Len(placing) = size /\ placing[1] = 1 /\ \A i, j \in D : placing[i] = placing[j] => i = j
  BY <1>1, <1>2, PlacementsGrow
<1>4. IsFiniteSet(D)
  BY <1>1, UpToIsFinite, Zenon
<1>5. placing \in [D -> D]
  <2>1. DOMAIN placing = D /\ placing = [n \in D |-> placing[n]]
    BY <1>1, <1>3
  <2> HIDE DEF D
  <2>2. \A n \in D : placing[n] \in D
    BY <1>3, <2>1
  <2> QED
    BY <2>1, <2>2
<1> HIDE DEF D
<1>6. placing \in Injection(D, D)
  BY <1>3, <1>5 DEF Injection, IsInjective
<1>7. placing \in Surjection(D, D)
  BY <1>4, <1>6, FS_Injection
<1>8. \A n \in D : \E i \in D : placing[i] = n
  BY <1>7 DEF Surjection
<1> QED
  BY <1>3, <1>5, <1>8 DEF D

\* Machine code in that order is the same machine code.
LEMMA ReorderedIsMachine ==
    ASSUME NEW f, IsFunction(f), Branching(f), NEW machine, NEW size, IsMachine(f, machine, size)
    PROVE  IsMachine(f, OrderByFrequency(machine), size)
<1> DEFINE placing == PlacedByFrequency(machine)
           ordered == OrderByFrequency(machine)
<1>1. /\ placing \in [1 .. size -> 1 .. size] /\ placing[1] = 1
      /\ \A n \in 1 .. size : \E i \in 1 .. size : placing[i] = n
  BY OrderIsPermutation
<1>2. size \in Nat \ {0} /\ DOMAIN machine = 1 .. size /\ 1 \in 1 .. size
  BY DEF IsMachine
<1>3. ordered = [n \in 1 .. size |-> machine[placing[n]]]
  BY <1>2 DEF OrderByFrequency
<1> HIDE DEF placing, ordered
<1>4. DOMAIN ordered = 1 .. size /\ \A n \in 1 .. size : placing[n] \in 1 .. size /\ ordered[n] = machine[placing[n]]
  BY <1>1, <1>3
<1>5. ordered \in Seq({ordered[n] : n \in 1 .. size}) /\ Len(ordered) = size
  BY <1>2, <1>3, <1>4
<1>6. \A b \in Blocks(f) : \E n \in 1 .. size : ordered[n].label = b
  <2> SUFFICES ASSUME NEW b \in Blocks(f) PROVE \E n \in 1 .. size : ordered[n].label = b
    OBVIOUS
  <2>1. PICK k \in 1 .. size : machine[k].label = b
    BY DEF IsMachine
  <2>2. PICK i \in 1 .. size : placing[i] = k
    BY <1>1
  <2> QED
    BY <1>4, <2>1, <2>2
<1>7. ordered[1].label = Entry(f)
  <2>1. ordered[1] = machine[1]
    BY <1>1, <1>2, <1>4
  <2> QED
    BY <2>1 DEF IsMachine
<1>8. \A n \in 1 .. size :
         /\ ordered[n].label \in Blocks(f) /\ ordered[n].count \in Nat
         /\ JumpsFit(f, ordered[n].label, ordered[n].jumps)
  BY <1>4, SMTT(30) DEF IsMachine
<1> QED
  BY <1>2, <1>4, <1>5, <1>6, <1>7, <1>8 DEF IsMachine, ordered

-----------------------------------------------------------------------------
(* Jumps to the block that follows *)

\* Where jumps go, when control falls through to next
Went(jumps, next, sign) ==
    LET taken == {j \in DOMAIN jumps : sign \in JumpsOn[jumps[j].mnemonic]}
    IN IF taken # {} THEN jumps[Min(taken)].to ELSE next

\* Of one and other, which is always taken, the first that is taken decides
FirstTaken(next, sign, one, other) ==
    /\ Went(<<>>, next, sign) = next
    /\ sign \in JumpsOn[one.mnemonic] =>
         Went(<<one>>, next, sign) = one.to /\ Went(<<one, other>>, next, sign) = one.to
    /\ sign \notin JumpsOn[one.mnemonic] =>
         Went(<<one>>, next, sign) = next /\ Went(<<one, other>>, next, sign) = other.to

\* No jump is taken, or the only one, or the first of two that is.
LEMMA Jumping ==
    ASSUME NEW next, NEW sign, NEW one, NEW other, sign \in JumpsOn[other.mnemonic]
    PROVE  FirstTaken(next, sign, one, other)
<1> DEFINE Going(jumps) == {j \in DOMAIN jumps : sign \in JumpsOn[jumps[j].mnemonic]}
<1>0. \A jumps : Went(jumps, next, sign) = IF Going(jumps) # {} THEN jumps[Min(Going(jumps))].to ELSE next
  BY Zenon DEF Went
<1>1. Min({1}) = 1 /\ Min({2}) = 2 /\ Min({1, 2}) = 1
  BY DEF Min
<1>2. Going(<<>>) = {}
  OBVIOUS
<1>3. Going(<<one>>) = IF sign \in JumpsOn[one.mnemonic] THEN {1} ELSE {}
  OBVIOUS
<1>4. Going(<<one, other>>) = IF sign \in JumpsOn[one.mnemonic] THEN {1, 2} ELSE {2}
  OBVIOUS
<1>5. <<one>>[1] = one /\ <<one, other>>[1] = one /\ <<one, other>>[2] = other
  OBVIOUS
<1> HIDE DEF Going
<1>6. CASE sign \in JumpsOn[one.mnemonic]
  BY <1>0, <1>1, <1>2, <1>3, <1>4, <1>5, <1>6 DEF FirstTaken
<1>7. CASE sign \notin JumpsOn[one.mnemonic]
  BY <1>0, <1>1, <1>2, <1>3, <1>4, <1>5, <1>7 DEF FirstTaken
<1> QED
  BY <1>6, <1>7

\* What is left of one jump or two without the last.
LEMMA FrontOfJumps ==
    ASSUME NEW one, NEW other
    PROVE  Front(<<one>>) = <<>> /\ Front(<<one, other>>) = <<one>>
<1>1. Len(<<one>>) = 1 /\ Len(<<one, other>>) = 2
  OBVIOUS
<1>2. SubSeq(<<one>>, 1, 0) = <<>>
  OBVIOUS
<1>3. SubSeq(<<one, other>>, 1, 1) = <<one>>
  <2>1. <<one, other>> \in Seq({one, other}) /\ <<one, other>>[1] = one
    OBVIOUS
  <2>2. SubSeq(<<one, other>>, 1, 1) = [i \in 1 .. 1 |-> <<one, other>>[i]]
    BY <2>1
  <2>3. [i \in 1 .. 1 |-> <<one, other>>[i]] = [i \in 1 .. 1 |-> one]
    BY <2>1
  <2>4. <<one>> = [i \in 1 .. 1 |-> one]
    OBVIOUS
  <2> QED
    BY <2>2, <2>3, <2>4, Zenon
<1>4. Front(<<one>>) = SubSeq(<<one>>, 1, 0) /\ Front(<<one, other>>) = SubSeq(<<one, other>>, 1, 1)
  BY <1>1 DEF Front
<1> QED
  BY <1>2, <1>3, <1>4, Zenon

\* Eliding does not change where a branch goes: a jump to what follows is as good as
\* none, and so is the inverse of the one before it.
LEMMA ElidedGoesThere ==
    ASSUME NEW f, IsFunction(f), NEW b, NEW jumps, JumpsFit(f, b, jumps), NEW next,
           NEW sign \in Orders, Len(Successors(f, b)) \in {1, 2}
    PROVE  /\ Went(jumps, next, sign) = Chosen(f, b, sign)
           /\ Went(Elided(jumps, next), next, sign) = Chosen(f, b, sign)
<1> DEFINE to == Successors(f, b)
           go == Jump("jmp", to[2])
<1>0. go.to = to[2] /\ go.mnemonic = "jmp" /\ sign \in JumpsOn[go.mnemonic]
  BY DEF Jump, JumpsOn
<1>1. CASE Len(to) = 1
  <2> DEFINE only == Jump("jmp", to[1])
  <2>1. jumps = <<only>> /\ only.to = to[1] /\ sign \in JumpsOn[only.mnemonic]
    BY <1>1 DEF JumpsFit, Jump, JumpsOn
  <2>2. Chosen(f, b, sign) = to[1]
    BY <1>1 DEF Chosen
  <2> HIDE DEF only, to, go
  <2>3. Elided(jumps, next) = IF only.to = next THEN <<>> ELSE <<only>>
    <3>1. Len(<<only>>) = 1 /\ <<only>>[1] = only /\ <<only>> # <<>>
      OBVIOUS
    <3>2. Front(<<only>>) = <<>>
      BY FrontOfJumps, Zenon
    <3> QED
      BY <2>1, <3>1, <3>2 DEF Elided, Last
  <2>4. Went(<<>>, next, sign) = next /\ Went(<<only>>, next, sign) = only.to
    <3>1. FirstTaken(next, sign, only, only)
      BY <2>1, Jumping
    <3> QED
      BY <2>1, <3>1 DEF FirstTaken
  <2> QED
    BY <2>1, <2>2, <2>3, <2>4
<1>2. CASE Len(to) = 2
  <2>1. PICK cond \in Conditional :
          /\ jumps = <<Jump(cond, to[1]), go>>
          /\ Chosen(f, b, sign) = IF sign \in JumpsOn[cond] THEN to[1] ELSE to[2]
    BY <1>2 DEF JumpsFit
  <2> DEFINE first == Jump(cond, to[1])
             inverse == Jump(Inverted[cond], to[2])
  <2>2. /\ first.to = to[1] /\ first.mnemonic = cond
        /\ inverse.to = to[2] /\ inverse.mnemonic = Inverted[cond]
    BY DEF Jump
  <2>3. sign \in JumpsOn[Inverted[cond]] <=> sign \notin JumpsOn[cond]
    BY InvertedIsOpposite
  <2>4. Elided(<<first, go>>, next) =
          IF go.to = next THEN <<first>>
          ELSE IF first.to = next THEN <<Jump(Inverted[first.mnemonic], go.to)>> ELSE <<first, go>>
    <3> HIDE DEF first, go
    <3>1. Len(<<first, go>>) = 2 /\ <<first, go>>[2] = go /\ <<first, go>>[1] = first /\ <<first, go>> # <<>>
      OBVIOUS
    <3>2. Front(<<first, go>>) = <<first>>
      BY FrontOfJumps, Zenon
    <3> QED
      BY <3>1, <3>2 DEF Elided, Last
  <2>5. /\ sign \in JumpsOn[first.mnemonic] =>
             Went(<<first>>, next, sign) = first.to /\ Went(<<first, go>>, next, sign) = first.to
        /\ sign \notin JumpsOn[first.mnemonic] =>
             Went(<<first>>, next, sign) = next /\ Went(<<first, go>>, next, sign) = go.to
        /\ sign \in JumpsOn[inverse.mnemonic] => Went(<<inverse>>, next, sign) = inverse.to
        /\ sign \notin JumpsOn[inverse.mnemonic] => Went(<<inverse>>, next, sign) = next
    <3> HIDE DEF first, go, inverse
    <3>1. sign \in JumpsOn[go.mnemonic]
      BY <1>0
    <3>2. FirstTaken(next, sign, first, go) /\ FirstTaken(next, sign, inverse, go)
      BY <3>1, Jumping
    <3> QED
      BY <3>2 DEF FirstTaken
  <2>6. inverse = Jump(Inverted[first.mnemonic], go.to)
    BY <1>0, <2>2
  <2>7. jumps = <<first, go>>
    BY <2>1
  <2> HIDE DEF first, go, inverse, to
  <2> QED
    BY <1>0, <2>1, <2>2, <2>3, <2>4, <2>5, <2>6, <2>7
<1> QED
  BY <1>1, <1>2

\* Machine code whose jumps to the next block are gone keeps the flow of the function.
LEMMA ElidedKeepsFlow ==
    ASSUME NEW f, IsFunction(f), Branching(f), NEW machine, NEW size, IsMachine(f, machine, size),
           size = Len(f.order)
    PROVE  KeepsFlow(f, ElideFallThroughJumps(machine))
<1> DEFINE elided == ElideFallThroughJumps(machine)
<1>1. /\ size \in Nat \ {0} /\ DOMAIN machine = 1 .. size /\ Len(machine) = size /\ 1 \in 1 .. size
      /\ DOMAIN f.order = 1 .. size
  BY DEF IsMachine, IsFunction
<1>2. /\ DOMAIN elided = 1 .. size
      /\ \A n \in 1 .. size :
           /\ elided[n].label = machine[n].label
           /\ elided[n].jumps = IF n = size THEN machine[n].jumps
                                ELSE Elided(machine[n].jumps, machine[n + 1].label)
  BY <1>1 DEF ElideFallThroughJumps
<1> HIDE DEF elided
<1>3. elided[1].label = Entry(f)
  BY <1>1, <1>2 DEF IsMachine
<1>4. {elided[n].label : n \in DOMAIN elided} = Blocks(f)
  <2>1. \A n \in 1 .. size : elided[n].label \in Blocks(f)
    BY <1>2 DEF IsMachine
  <2>2. \A b \in Blocks(f) : \E n \in 1 .. size : elided[n].label = b
    BY <1>2 DEF IsMachine
  <2>3. DOMAIN elided = 1 .. size
    BY <1>2
  <2> QED
    BY <2>1, <2>2, <2>3, Zenon
<1>5. ASSUME NEW n \in 1 .. size, Successors(f, elided[n].label) # <<>>, NEW sign \in Orders
      PROVE  GoesTo(elided, n, sign) = Chosen(f, elided[n].label, sign)
  <2> DEFINE b == elided[n].label
             jumps == machine[n].jumps
             next == elided[n + 1].label
  <2>1. b \in Blocks(f) /\ JumpsFit(f, b, jumps) /\ b = machine[n].label
    BY <1>2 DEF IsMachine
  <2>2. Len(Successors(f, b)) \in {1, 2}
    <3> DEFINE to == Successors(f, b)
    <3>1. to \in Seq(Blocks(f)) /\ Len(to) <= 2 /\ to # <<>>
      BY <1>5, <2>1, SuccessorsAreBlocks DEF Branching
    <3> HIDE DEF to
    <3>2. Len(to) \in Nat /\ Len(to) # 0
      BY <3>1
    <3>3. \A k \in Nat : k <= 2 /\ k # 0 => k \in {1, 2}
      OBVIOUS
    <3> QED
      BY <3>1, <3>2, <3>3, Zenon DEF to
  <2>3. GoesTo(elided, n, sign) = Went(elided[n].jumps, next, sign)
    BY Zenon DEF GoesTo, Went
  <2>4. elided[n].jumps = jumps \/ elided[n].jumps = Elided(jumps, next)
    <3>1. CASE n = size
      BY <1>2, <3>1
    <3>2. CASE n # size
      <4>1. n + 1 \in 1 .. size
        BY <1>1, <3>2
      <4>2. next = machine[n + 1].label
        BY <1>2, <4>1
      <4> QED
        BY <1>2, <3>2, <4>2
    <3> QED
      BY <3>1, <3>2
  <2> HIDE DEF b, jumps, next
  <2>5. /\ Went(jumps, next, sign) = Chosen(f, b, sign)
        /\ Went(Elided(jumps, next), next, sign) = Chosen(f, b, sign)
    BY <2>1, <2>2, ElidedGoesThere
  <2> QED
    BY <2>3, <2>4, <2>5 DEF b
<1> QED
  BY <1>1, <1>2, <1>3, <1>4, <1>5 DEF KeepsFlow, elided

\* layoutBlocks may reorder the blocks by any counts and drop or invert jumps: the
\* function's blocks are all there once, the entry first, and control goes from every
\* branch where the branch sends it.
THEOREM LayoutKeepsTheFlow ==
    ASSUME NEW f, NEW counts, CanBeLaidOut(f, counts), NEW useProfile \in BOOLEAN
    PROVE  KeepsFlow(f, LayoutBlocks(f, counts, useProfile))
<1> DEFINE lowered == Lowered(f, counts)
           size == Len(f.order)
           laid == IF useProfile /\ Len(lowered) > 2 THEN OrderByFrequency(lowered) ELSE lowered
<1>0. IsFunction(f) /\ Branching(f) /\ counts \in [Blocks(f) -> Nat]
  BY DEF CanBeLaidOut
<1>1. IsMachine(f, lowered, size)
  BY <1>0, LoweredIsMachine
<1>2. IsMachine(f, OrderByFrequency(lowered), size)
  BY <1>0, <1>1, ReorderedIsMachine
<1>3. LayoutBlocks(f, counts, useProfile) = ElideFallThroughJumps(laid)
  BY Zenon DEF LayoutBlocks
<1>4. IsMachine(f, laid, size)
  <2> HIDE DEF lowered, size
  <2> QED
    BY <1>1, <1>2
<1> HIDE DEF laid
<1> QED
  BY <1>0, <1>3, <1>4, ElidedKeepsFlow

-----------------------------------------------------------------------------
(* Sums *)

\* Weights that can be added up
Weighed(S, weight) == IsFiniteSet(S) /\ \A x \in S : weight[x] \in Nat

\* The sums of the parts of S, as SumOver adds them up: the chosen element first
IsSum(S, weight, g) ==
    /\ g \in [SUBSET S -> Nat]
    /\ \A T \in SUBSET S : g[T] = IF T = {} THEN 0
                                  ELSE weight[CHOOSE x \in T : TRUE] + g[T \ {CHOOSE x \in T : TRUE}]

\* They exist,
LEMMA SumExists ==
    ASSUME NEW S, NEW weight, Weighed(S, weight)
    PROVE  \E g : IsSum(S, weight, g) /\ g[S] = SumOver(S, weight)
<1> DEFINE subsets == SUBSET S
           mu == [T \in subsets |-> Cardinality(T)]
           pick(T) == CHOOSE x \in T : TRUE
           E == [T \in subsets |-> [u \in [subsets -> Nat] |->
                  IF T = {} THEN 0 ELSE weight[pick(T)] + u[T \ {pick(T)}]]]
           iter[T \in subsets] == IF T = {} THEN 0 ELSE weight[pick(T)] + iter[T \ {pick(T)}]
<1>1. ASSUME NEW T \in subsets, T # {}
      PROVE  /\ pick(T) \in T /\ T \ {pick(T)} \in subsets /\ weight[pick(T)] \in Nat
             /\ Cardinality(T \ {pick(T)}) < Cardinality(T)
  <2>1. pick(T) \in T
    BY <1>1
  <2>2. IsFiniteSet(T) /\ weight[pick(T)] \in Nat
    BY <2>1, FS_Subset DEF Weighed
  <2> HIDE DEF pick
  <2>3. Cardinality(T \ {pick(T)}) = Cardinality(T) - 1 /\ Cardinality(T) \in Nat
    BY <2>1, <2>2, FS_RemoveElement, FS_CardinalityType
  <2> QED
    BY <2>1, <2>2, <2>3
<1> HIDE DEF pick
<1>2. IsRecursionBy(mu, E, subsets, Nat)
  <2>1. Nat # {} /\ \A T \in subsets : mu[T] \in Nat
    BY FS_Subset, FS_CardinalityType DEF Weighed
  <2>2. E \in [subsets -> [[subsets -> Nat] -> Nat]]
    <3>1. ASSUME NEW T \in subsets, NEW u \in [subsets -> Nat]
          PROVE  (IF T = {} THEN 0 ELSE weight[pick(T)] + u[T \ {pick(T)}]) \in Nat
      <4>1. T # {} => weight[pick(T)] \in Nat /\ u[T \ {pick(T)}] \in Nat
        BY <1>1
      <4> QED
        BY <4>1
    <3> QED
      BY <3>1
  <2>3. ASSUME NEW T \in subsets, NEW u \in [subsets -> Nat], NEW w \in [subsets -> Nat],
               \A R \in subsets : mu[R] < mu[T] => u[R] = w[R]
        PROVE  E[T][u] = E[T][w]
    <3>1. T # {} => u[T \ {pick(T)}] = w[T \ {pick(T)}]
      BY <1>1, <2>3
    <3> QED
      BY <3>1
  <2> HIDE DEF subsets, mu, E
  <2> QED
    BY <2>1, <2>2, <2>3 DEF IsRecursionBy
<1>3. PICK g \in [subsets -> Nat] : \A T \in subsets : g[T] = E[T][g]
  <2> HIDE DEF subsets, mu, E
  <2> QED
    BY <1>2, RecursionByExists
<1>4. g = [T \in subsets |-> IF T = {} THEN 0 ELSE weight[pick(T)] + g[T \ {pick(T)}]]
  BY <1>3
<1>5. iter = [T \in subsets |-> IF T = {} THEN 0 ELSE weight[pick(T)] + iter[T \ {pick(T)}]]
  BY <1>4, Zenon
<1>6. SumOver(S, weight) = iter[S]
  BY Zenon DEF SumOver, FoldSet, MapThenFoldSet, pick
<1> HIDE DEF iter
<1>7. iter \in [subsets -> Nat]
  <2> DEFINE R == {T \in subsets : iter[T] \in Nat}
  <2>1. \A T \in subsets : mu[T] \in Nat
    BY <1>2 DEF IsRecursionBy
  <2>2. ASSUME NEW T \in subsets, \A Q \in subsets : mu[Q] < mu[T] => Q \in R PROVE T \in R
    <3>1. CASE T = {}
      <4>1. iter[T] = 0
        BY <1>5, <3>1
      <4> QED
        BY <4>1
    <3>2. CASE T # {}
      <4>1. iter[T] = weight[pick(T)] + iter[T \ {pick(T)}]
        BY <1>5, <3>2
      <4>2. T \ {pick(T)} \in R /\ weight[pick(T)] \in Nat
        BY <1>1, <2>2, <3>2
      <4> QED
        BY <4>1, <4>2
    <3> QED
      BY <3>1, <3>2
  <2> HIDE DEF mu
  <2>3. subsets \subseteq R
    <3> HIDE DEF R, subsets
    <3> QED
      BY <2>1, <2>2, ByMeasure
  <2> QED
    BY <1>5, <2>3
<1>8. \A T \in subsets : iter[T] = IF T = {} THEN 0 ELSE weight[pick(T)] + iter[T \ {pick(T)}]
  BY <1>5
<1> QED
  BY <1>6, <1>7, <1>8 DEF IsSum, pick

\* and those of a part are the same, whatever it is a part of.
LEMMA SumOfPart ==
    ASSUME NEW S, NEW weight, Weighed(S, weight), NEW g, IsSum(S, weight, g), NEW P \in SUBSET S
    PROVE  g[P] = SumOver(P, weight)
<1>1. Weighed(P, weight)
  BY FS_Subset DEF Weighed
<1>2. PICK h : IsSum(P, weight, h) /\ h[P] = SumOver(P, weight)
  BY <1>1, SumExists
<1> DEFINE subsets == SUBSET P
           mu == [T \in subsets |-> Cardinality(T)]
           R == {T \in subsets : g[T] = h[T]}
<1>3. \A T \in subsets : IsFiniteSet(T) /\ mu[T] \in Nat
  BY <1>1, FS_Subset, FS_CardinalityType DEF Weighed
<1>4. ASSUME NEW T \in subsets, \A Q \in subsets : mu[Q] < mu[T] => Q \in R PROVE T \in R
  <2> DEFINE x == CHOOSE x \in T : TRUE
  <2>1. CASE T = {}
    BY <1>2, <2>1 DEF IsSum
  <2>2. CASE T # {}
    <3>1. g[T] = weight[x] + g[T \ {x}] /\ h[T] = weight[x] + h[T \ {x}]
      BY <1>2, <2>2 DEF IsSum
    <3>2. x \in T
      BY <2>2
    <3> HIDE DEF x
    <3>3. Cardinality(T \ {x}) = Cardinality(T) - 1 /\ T \ {x} \in subsets /\ Cardinality(T) \in Nat
      BY <1>3, <3>2, FS_RemoveElement
    <3>4. T \ {x} \in R
      <4>1. mu[T \ {x}] < mu[T]
        BY <3>3
      <4> QED
        BY <1>4, <3>3, <4>1
    <3> QED
      BY <3>1, <3>4
  <2> QED
    BY <2>1, <2>2
<1> HIDE DEF mu
<1>5. subsets \subseteq R
  <2> HIDE DEF subsets, R
  <2> QED
    BY <1>3, <1>4, ByMeasure
<1> QED
  BY <1>2, <1>5

\* The sum of nothing, and that of a set from the sum without one of its elements.
LEMMA SumIs ==
    ASSUME NEW S, NEW weight, Weighed(S, weight)
    PROVE  /\ SumOver(S, weight) \in Nat
           /\ S = {} => SumOver(S, weight) = 0
           /\ \A x \in S : SumOver(S, weight) = weight[x] + SumOver(S \ {x}, weight)
<1>1. PICK g : IsSum(S, weight, g) /\ g[S] = SumOver(S, weight)
  BY SumExists
<1> DEFINE subsets == SUBSET S
           mu == [T \in subsets |-> Cardinality(T)]
           R == {T \in subsets : \A x \in T : g[T] = weight[x] + g[T \ {x}]}
<1>2. \A T \in subsets : IsFiniteSet(T) /\ mu[T] \in Nat /\ g[T] \in Nat
  BY <1>1, FS_Subset, FS_CardinalityType DEF Weighed, IsSum
<1>3. ASSUME NEW T \in subsets, \A Q \in subsets : mu[Q] < mu[T] => Q \in R, NEW x \in T
      PROVE  g[T] = weight[x] + g[T \ {x}]
  <2> DEFINE y == CHOOSE y \in T : TRUE
  <2>1. g[T] = weight[y] + g[T \ {y}] /\ y \in T
    BY <1>1 DEF IsSum
  <2> HIDE DEF y
  <2>2. CASE x # y
    <3>1. Cardinality(T \ {y}) = Cardinality(T) - 1 /\ Cardinality(T \ {x}) = Cardinality(T) - 1 /\ Cardinality(T) \in Nat
      BY <1>2, <2>1, FS_RemoveElement
    <3>2. T \ {y} \in R /\ T \ {x} \in R
      <4>1. T \ {y} \in subsets /\ T \ {x} \in subsets
        OBVIOUS
      <4>2. mu[T \ {y}] < mu[T] /\ mu[T \ {x}] < mu[T]
        BY <3>1, <4>1
      <4> QED
        BY <1>3, <4>1, <4>2
    <3>3. g[T \ {y}] = weight[x] + g[(T \ {y}) \ {x}] /\ g[T \ {x}] = weight[y] + g[(T \ {x}) \ {y}]
      BY <2>1, <2>2, <3>2
    <3>4. (T \ {y}) \ {x} = (T \ {x}) \ {y} /\ (T \ {x}) \ {y} \in subsets
      OBVIOUS
    <3>5. weight[x] \in Nat /\ weight[y] \in Nat /\ g[(T \ {x}) \ {y}] \in Nat
      BY <1>2, <2>1, <3>4 DEF Weighed
    <3> HIDE DEF subsets, R
    <3>6. g[T] = weight[y] + (weight[x] + g[(T \ {x}) \ {y}])
      BY <2>1, <3>3, <3>4
    <3>7. g[T \ {x}] = weight[y] + g[(T \ {x}) \ {y}]
      BY <3>3
    <3> QED
      BY <3>5, <3>6, <3>7
  <2> QED
    BY <2>1, <2>2
<1> HIDE DEF mu
<1>4. subsets \subseteq R
  <2>1. \A T \in subsets : (\A Q \in subsets : mu[Q] < mu[T] => Q \in R) => T \in R
    BY <1>3
  <2>2. \A T \in subsets : mu[T] \in Nat
    BY <1>2
  <2> HIDE DEF subsets, R
  <2> QED
    BY <2>1, <2>2, ByMeasure
<1>5. \A x \in S : g[S] = weight[x] + g[S \ {x}]
  BY <1>4
<1>6. \A x \in S : g[S \ {x}] = SumOver(S \ {x}, weight)
  BY <1>1, SumOfPart
<1> QED
  BY <1>1, <1>2, <1>5, <1>6 DEF IsSum

\* A part of a set sums up to no more than the set.
LEMMA SumGrows ==
    ASSUME NEW S, NEW weight, Weighed(S, weight), NEW P \in SUBSET S
    PROVE  SumOver(P, weight) <= SumOver(S, weight)
<1> DEFINE subsets == {T \in SUBSET S : P \subseteq T}
           mu == [T \in subsets |-> Cardinality(T)]
           Sum(T) == SumOver(T, weight)
           R == {T \in subsets : Sum(P) <= Sum(T)}
<1>1. \A T \in subsets : /\ IsFiniteSet(T) /\ mu[T] \in Nat /\ Weighed(T, weight) /\ Weighed(P, weight)
                   /\ mu[T] = Cardinality(T)
  BY FS_Subset, FS_CardinalityType DEF Weighed
<1>2. \A T \in subsets : Sum(T) \in Nat /\ Sum(P) \in Nat
  BY <1>1, SumIs
<1>3. ASSUME NEW T \in subsets, \A Q \in subsets : mu[Q] < mu[T] => Q \in R PROVE Sum(P) <= Sum(T)
  <2>1. CASE T = P
    BY <1>2, <2>1
  <2>2. CASE T # P
    <3>1. PICK x \in T : x \notin P
      BY <2>2
    <3>2. T \ {x} \in subsets
      BY <3>1
    <3>3. mu[T \ {x}] < mu[T]
      <4>1. Cardinality(T \ {x}) = Cardinality(T) - 1 /\ Cardinality(T) \in Nat
        BY <1>1, FS_RemoveElement, FS_CardinalityType
      <4>2. mu[T \ {x}] = Cardinality(T \ {x}) /\ mu[T] = Cardinality(T)
        BY <3>2
      <4> QED
        BY <4>1, <4>2
    <3>4. Sum(P) <= Sum(T \ {x})
      BY <1>3, <3>2, <3>3
    <3>5. Sum(T) = weight[x] + Sum(T \ {x}) /\ weight[x] \in Nat
      BY <1>1, SumIs DEF Weighed
    <3> HIDE DEF Sum, subsets
    <3> QED
      BY <1>2, <3>2, <3>4, <3>5
  <2> QED
    BY <2>1, <2>2
<1>4. subsets \subseteq R
  <2>1. \A T \in subsets : (\A Q \in subsets : mu[Q] < mu[T] => Q \in R) => T \in R
    BY <1>3
  <2>2. \A T \in subsets : mu[T] \in Nat
    BY <1>1
  <2> HIDE DEF subsets, R, mu
  <2> QED
    BY <2>1, <2>2, ByMeasure
<1> QED
  BY <1>4

-----------------------------------------------------------------------------
(* Heat *)

\* No two names differ in nothing the order of the code looks at
Told(D) ==
    /\ \A x \in D : x[1] \in Int /\ x[2][2] \in Int
    /\ \A x, y \in D : x[1] = y[1] /\ x[2][2] = y[2][2] => x = y

\* Then the order is total: of any two the one or the other comes first,
LEMMA EarlierIsAnOrder ==
    ASSUME NEW D, NEW weight, Weighed(D, weight), Told(D)
    PROVE  /\ \A x \in D : ~Earlier(weight, x, x)
           /\ \A x, y \in D : x = y \/ Earlier(weight, x, y) \/ Earlier(weight, y, x)
           /\ \A x, y, z \in D : Earlier(weight, x, y) /\ Earlier(weight, y, z) => Earlier(weight, x, z)
<1> USE DEF Weighed, Told, Earlier
<1>1. \A x \in D : weight[x] \in Nat /\ x[1] \in Int /\ x[2][2] \in Int
  OBVIOUS
<1>2. \A x \in D : ~Earlier(weight, x, x)
  BY <1>1
<1>3. ASSUME NEW x \in D, NEW y \in D PROVE x = y \/ Earlier(weight, x, y) \/ Earlier(weight, y, x)
  <2>1. CASE weight[x] = weight[y]
    BY <1>1, <2>1
  <2>2. CASE weight[x] # weight[y]
    BY <1>1, <2>2
  <2> QED
    BY <2>1, <2>2
<1>4. ASSUME NEW x \in D, NEW y \in D, NEW z \in D, Earlier(weight, x, y), Earlier(weight, y, z)
      PROVE  Earlier(weight, x, z)
  BY <1>1, <1>4
<1> QED
  BY <1>2, <1>3, <1>4

\* A finite set has a first element in any order: the one before which there are fewest.
LEMMA FirstThereIs ==
    ASSUME NEW T, IsFiniteSet(T), T # {}, NEW L,
           \A x \in T : x \notin L[x],
           \A x, y \in T : x = y \/ x \in L[y] \/ y \in L[x],
           \A x, y, z \in T : x \in L[y] /\ y \in L[z] => x \in L[z]
    PROVE  \E x \in T : \A y \in T \ {x} : x \in L[y]
<1> DEFINE before == [x \in T |-> {y \in T : y \in L[x]}]
           rank == [x \in T |-> Cardinality(before[x])]
           ranks == {rank[x] : x \in T}
<1>1. \A x \in T : before[x] \in SUBSET T /\ IsFiniteSet(before[x]) /\ rank[x] \in Nat
  BY FS_Subset, FS_CardinalityType
<1>2. ranks \in SUBSET Nat /\ ranks # {}
  <2> HIDE DEF rank, before
  <2>1. ASSUME NEW x \in T PROVE rank[x] \in Nat /\ rank[x] \in ranks
    BY <1>1
  <2>2. PICK x \in T : TRUE
    OBVIOUS
  <2>3. ranks \subseteq Nat
    BY <2>1
  <2>4. rank[x] \in ranks
    BY <2>1, <2>2
  <2> QED
    BY <2>3, <2>4
<1>3. PICK m \in ranks : \A n \in ranks : m <= n
  <2> HIDE DEF ranks
  <2> QED
    BY <1>2, LeastNatural
<1>4. PICK x \in T : rank[x] = m
  BY <1>3
<1>5. ASSUME NEW y \in T \ {x} PROVE x \in L[y]
  <2> SUFFICES ASSUME y \in L[x] PROVE FALSE
    OBVIOUS
  <2>1. before[y] \subseteq before[x] /\ y \in before[x] /\ y \notin before[y]
    OBVIOUS
  <2>2. rank[y] = Cardinality(before[y]) /\ rank[x] = Cardinality(before[x])
    OBVIOUS
  <2>3. rank[y] \in ranks /\ rank[x] \in Nat /\ rank[y] \in Nat
    BY <1>1
  <2>4. m <= rank[y]
    BY <1>3, <2>3
  <2> HIDE DEF before, rank, ranks
  <2>5. before[y] \in SUBSET before[x] /\ before[y] # before[x] /\ IsFiniteSet(before[x])
    BY <1>1, <2>1
  <2>6. Cardinality(before[y]) <= Cardinality(before[x]) /\ Cardinality(before[y]) # Cardinality(before[x])
    BY <2>5, FS_Subset
  <2> QED
    BY <1>4, <2>2, <2>3, <2>4, <2>6
<1> QED
  BY <1>5

\* So of some of them one is the first and one the last.
LEMMA FirstAndLast ==
    ASSUME NEW D, NEW weight, Weighed(D, weight), Told(D), NEW T \in SUBSET D, T # {}
    PROVE  /\ \E x \in T : \A y \in T \ {x} : Earlier(weight, x, y)
           /\ \E x \in T : \A y \in T \ {x} : Earlier(weight, y, x)
<1> DEFINE Less(x, y) == Earlier(weight, x, y)
           L == [y \in T |-> {x \in T : Less(x, y)}]
           G == [y \in T |-> {x \in T : Less(y, x)}]
<1>1. /\ \A x \in T : ~Less(x, x)
      /\ \A x, y \in T : x = y \/ Less(x, y) \/ Less(y, x)
      /\ \A x, y, z \in T : Less(x, y) /\ Less(y, z) => Less(x, z)
  BY EarlierIsAnOrder
<1>2. IsFiniteSet(T)
  BY FS_Subset DEF Weighed
<1> HIDE DEF Less
<1>3. /\ \A x \in T : x \notin L[x]
      /\ \A x, y \in T : x = y \/ x \in L[y] \/ y \in L[x]
      /\ \A x, y, z \in T : x \in L[y] /\ y \in L[z] => x \in L[z]
  BY <1>1
<1>4. /\ \A x \in T : x \notin G[x]
      /\ \A x, y \in T : x = y \/ x \in G[y] \/ y \in G[x]
      /\ \A x, y, z \in T : x \in G[y] /\ y \in G[z] => x \in G[z]
  BY <1>1
<1>5. \A x, y \in T : (x \in L[y] => Less(x, y)) /\ (x \in G[y] => Less(y, x))
  OBVIOUS
<1> HIDE DEF L, G
<1>6. \E x \in T : \A y \in T \ {x} : x \in L[y]
  BY <1>2, <1>3, FirstThereIs
<1>7. \E x \in T : \A y \in T \ {x} : x \in G[y]
  BY <1>2, <1>4, FirstThereIs
<1>8. \E x \in T : \A y \in T \ {x} : Less(x, y)
  BY <1>5, <1>6
<1>9. \E x \in T : \A y \in T \ {x} : Less(y, x)
  BY <1>5, <1>7
<1> QED
  BY <1>8, <1>9 DEF Less

\* What HeatFollowsTheDefinition says of one group of weights
FollowsTheDefinition(weight, heat) ==
    LET all == SumOver(DOMAIN weight, weight)
        hot == {x \in DOMAIN weight : heat[x] = "hot"}
    IN /\ \A x \in hot : weight[x] >= HotFloor
       /\ \A x \in hot : \A y \in DOMAIN weight : weight[y] > weight[x] => y \in hot
       /\ \A x \in hot : 100 * SumOver(hot \ {x}, weight) < HotThreshold * all \/ hot = {x}
       /\ 100 * SumOver(hot, weight) >= HotThreshold * all
          \/ \A x \in DOMAIN weight \ hot : weight[x] < HotFloor
       /\ \A x \in DOMAIN weight \ hot : heat[x] = "cold" <=> Negligible(weight, x)

\* classifyGroup closes the hot prefix with the entry that reaches the threshold, for any
\* weights whatever: the prefix is as short as it can be, and nothing is hotter than what
\* ran more.
THEOREM HeatIsTheShortestPrefix ==
    ASSUME NEW weight, Weighed(DOMAIN weight, weight), Told(DOMAIN weight)
    PROVE  FollowsTheDefinition(weight, Classify(weight))
<1> DEFINE D == DOMAIN weight
           heat == Classify(weight)
           Sum(T) == SumOver(T, weight)
           first(x) == {y \in D : Earlier(weight, y, x)}
           closed(x) == first(x) # {} /\ 100 * Sum(first(x)) >= HotThreshold * Sum(D)
           hot == {x \in D : heat[x] = "hot"}
<1>1. HotThreshold \in Nat /\ HotFloor \in Nat /\ \A x \in D : weight[x] \in Nat
  BY ProfileAssumption DEF Weighed
<1>2. \A x \in D : Closed(weight, x) <=> closed(x)
  BY DEF Closed
<1>3. \A x \in D : /\ x \in hot <=> ~closed(x) /\ weight[x] >= HotFloor
                   /\ x \notin hot => (heat[x] = "cold" <=> Negligible(weight, x))
  <2> SUFFICES ASSUME NEW x \in D
               PROVE  /\ heat[x] = "hot" <=> ~closed(x) /\ weight[x] >= HotFloor
                      /\ heat[x] # "hot" => (heat[x] = "cold" <=> Negligible(weight, x))
    OBVIOUS
  <2> DEFINE C == closed(x)
             F == weight[x] >= HotFloor
             Neg == Negligible(weight, x)
  <2>1. heat[x] = CASE ~C /\ F -> "hot"
                    [] (C \/ weight[x] < HotFloor) /\ Neg -> "cold"
                    [] OTHER -> "warm"
    BY <1>2 DEF Classify
  <2>2. weight[x] < HotFloor <=> ~F
    BY <1>1
  <2> HIDE DEF C, F, Neg, heat
  <2>3. CASE ~C /\ F
    BY <2>1, <2>2, <2>3 DEF C, F
  <2>4. CASE ~(~C /\ F) /\ Neg
    <3>1. heat[x] = "cold"
      BY <2>1, <2>2, <2>4
    <3> QED
      BY <2>4, <3>1 DEF C, F, Neg
  <2>5. CASE ~(~C /\ F) /\ ~Neg
    <3>1. heat[x] = "warm"
      BY <2>1, <2>2, <2>5
    <3> QED
      BY <2>5, <3>1 DEF C, F, Neg
  <2> QED
    BY <2>3, <2>4, <2>5
<1>4. \A T \in SUBSET D : /\ Sum(T) \in Nat /\ IsFiniteSet(T)
                          /\ \A P \in SUBSET T : Sum(P) <= Sum(T)
                          /\ \A x \in T : Sum(T) = weight[x] + Sum(T \ {x})
  <2> SUFFICES ASSUME NEW T \in SUBSET D
               PROVE  /\ Sum(T) \in Nat /\ IsFiniteSet(T)
                      /\ \A P \in SUBSET T : Sum(P) <= Sum(T)
                      /\ \A x \in T : Sum(T) = weight[x] + Sum(T \ {x})
    OBVIOUS
  <2>1. Weighed(T, weight)
    BY FS_Subset DEF Weighed
  <2> QED
    BY <2>1, SumIs, SumGrows DEF Weighed
<1>5. /\ \A x \in D : x \notin first(x) /\ first(x) \in SUBSET D
      /\ \A x, y \in D : x = y \/ x \in first(y) \/ y \in first(x)
      /\ \A x, y, z \in D : x \in first(y) /\ y \in first(z) => x \in first(z)
      /\ \A x, y \in D : weight[x] > weight[y] => x \in first(y)
      /\ \A x, y \in D : x \in first(y) => weight[x] >= weight[y]
  <2>1. \A x, y \in D : weight[x] > weight[y] => x \in first(y)
    BY DEF Earlier
  <2>2. \A x, y \in D : x \in first(y) => weight[x] >= weight[y]
    BY <1>1 DEF Earlier
  <2> QED
    BY <2>1, <2>2, EarlierIsAnOrder
<1>6. hot \in SUBSET D
  OBVIOUS
<1>7. \A T \in SUBSET D : T # {} => /\ \E x \in T : T \ {x} \subseteq D \ first(x)
                                    /\ \E x \in T : T \ {x} \subseteq first(x)
  <2> SUFFICES ASSUME NEW T \in SUBSET D, T # {}
               PROVE  /\ \E x \in T : T \ {x} \subseteq D \ first(x)
                      /\ \E x \in T : T \ {x} \subseteq first(x)
    OBVIOUS
  <2>1. PICK x \in T : \A y \in T \ {x} : Earlier(weight, x, y)
    BY FirstAndLast
  <2>2. PICK z \in T : \A y \in T \ {z} : Earlier(weight, y, z)
    BY FirstAndLast
  <2>3. T \ {x} \subseteq D \ first(x)
    <3>1. \A y \in T \ {x} : x \in first(y)
      BY <2>1
    <3> HIDE DEF first
    <3> QED
      BY <1>5, <3>1
  <2>4. T \ {z} \subseteq first(z)
    BY <2>2
  <2> QED
    BY <2>3, <2>4
<1> HIDE DEF first, Sum, hot, heat, D
<1>8. \A x \in hot : \A y \in D : weight[y] > weight[x] => y \in hot
  <2> SUFFICES ASSUME NEW x \in hot, NEW y \in D, weight[y] > weight[x], closed(y)
               PROVE  closed(x)
    BY <1>1, <1>3, <1>6
  <2>1. x \in D
    BY <1>6
  <2>2. first(y) \in SUBSET first(x) /\ first(x) \in SUBSET D
    BY <1>5, <2>1
  <2>3. Sum(first(y)) <= Sum(first(x)) /\ Sum(first(x)) \in Nat /\ Sum(first(y)) \in Nat /\ Sum(D) \in Nat
    BY <1>4, <1>5, <2>2
  <2>4. 100 * Sum(first(y)) <= 100 * Sum(first(x))
    BY <2>3
  <2>5. HotThreshold * Sum(D) \in Nat
    BY <1>1, <2>3
  <2> QED
    BY <2>2, <2>3, <2>4, <2>5
<1>9. ASSUME NEW x \in hot PROVE 100 * Sum(hot \ {x}) < HotThreshold * Sum(D) \/ hot = {x}
  <2>1. PICK m \in hot : hot \ {m} \subseteq first(m)
    BY <1>6, <1>7
  <2>2. ~closed(m) /\ m \in D /\ x \in D
    BY <1>3, <1>6
  <2>3. CASE first(m) = {}
    BY <2>1, <2>3
  <2>4. CASE first(m) # {}
    <3>1. Sum(hot \ {m}) <= Sum(first(m)) /\ first(m) \in SUBSET D
      BY <1>4, <1>5, <2>1, <2>2
    <3>2. weight[x] >= weight[m]
      BY <1>1, <1>5, <2>1, <2>2
    <3>3. Sum(hot) = weight[x] + Sum(hot \ {x}) /\ Sum(hot) = weight[m] + Sum(hot \ {m})
      BY <1>4, <1>6
    <3>4. /\ Sum(hot) \in Nat /\ Sum(hot \ {x}) \in Nat /\ Sum(hot \ {m}) \in Nat
          /\ Sum(first(m)) \in Nat /\ Sum(D) \in Nat /\ weight[x] \in Nat /\ weight[m] \in Nat
      <4>1. hot \ {x} \in SUBSET D /\ hot \ {m} \in SUBSET D /\ D \in SUBSET D
        BY <1>6
      <4> QED
        BY <1>1, <1>4, <1>6, <2>2, <3>1, <4>1
    <3>5. Sum(hot \ {x}) <= Sum(first(m))
      BY <3>1, <3>2, <3>3, <3>4
    <3>6. ~(100 * Sum(first(m)) >= HotThreshold * Sum(D))
      BY <2>2, <2>4
    <3>7. HotThreshold * Sum(D) \in Nat
      BY <1>1, <3>4
    <3> QED
      BY <3>4, <3>5, <3>6, <3>7
  <2> QED
    BY <2>3, <2>4
<1>10. ASSUME NEW y \in D \ hot, weight[y] >= HotFloor PROVE 100 * Sum(hot) >= HotThreshold * Sum(D)
  <2> DEFINE T == {z \in D : z \notin hot /\ weight[z] >= HotFloor}
  <2>1. T \in SUBSET D /\ y \in T
    BY <1>10
  <2>2. PICK z \in T : T \ {z} \subseteq D \ first(z)
    <3> HIDE DEF T
    <3> QED
      BY <1>7, <2>1
  <2>3. z \in D /\ closed(z)
    BY <1>3
  <2>4. first(z) \in SUBSET hot
    <3>1. ASSUME NEW w \in first(z), w \notin hot PROVE FALSE
      <4>1. w \in D /\ w # z /\ weight[w] >= weight[z] /\ weight[z] >= HotFloor
        BY <1>5, <2>3
      <4>2. weight[w] >= HotFloor
        BY <1>1, <2>3, <4>1
      <4>3. w \in T \ {z}
        BY <3>1, <4>1, <4>2
      <4> QED
        BY <2>2, <4>3
    <3> QED
      BY <3>1
  <2>5. Sum(first(z)) <= Sum(hot) /\ Sum(first(z)) \in Nat /\ Sum(hot) \in Nat /\ Sum(D) \in Nat
    BY <1>4, <1>5, <1>6, <2>3, <2>4
  <2>6. HotThreshold * Sum(D) \in Nat
    BY <1>1, <2>5
  <2> QED
    BY <2>3, <2>5, <2>6
<1>11. \A x \in hot : weight[x] >= HotFloor
  BY <1>3, <1>6
<1>12. 100 * Sum(hot) >= HotThreshold * Sum(D) \/ \A x \in D \ hot : weight[x] < HotFloor
  <2>1. \A x \in D \ hot : weight[x] < HotFloor \/ weight[x] >= HotFloor
    BY <1>1
  <2> QED
    BY <1>10, <2>1
<1>13. \A x \in D \ hot : heat[x] = "cold" <=> Negligible(weight, x)
  BY <1>3
<1> QED
  BY <1>8, <1>9, <1>11, <1>12, <1>13, Zenon DEF FollowsTheDefinition, D, hot, Sum, heat

-----------------------------------------------------------------------------
(* Sequences put together *)

\* Sequence i of s begins behind position o[i] of r, and there is nothing else in r
Laid(r, s, o, n) ==
    /\ \A i \in 1 .. n : \A j \in 1 .. Len(s[i]) : o[i] + j \in 1 .. Len(r) /\ r[o[i] + j] = s[i][j]
    /\ \A m \in 1 .. Len(r) : \E i \in 1 .. n : \E j \in 1 .. Len(s[i]) : m = o[i] + j

\* One more sequence goes behind the others.
LEMMA LaidBehind ==
    ASSUME NEW n \in Nat \ {0}, NEW X, NEW r \in Seq(X), NEW s, s \in [1 .. n -> Seq(X)],
           NEW o, o \in [1 .. n -> Nat], NEW k \in 1 .. n, Laid(r, s, o, k - 1), o[k] = Len(r)
    PROVE  Laid(r \o s[k], s, o, k)
<1> DEFINE q == r \o s[k]
<1>1. /\ s[k] \in Seq(X) /\ Len(q) = Len(r) + Len(s[k]) /\ Len(r) \in Nat /\ Len(s[k]) \in Nat
      /\ \A m \in 1 .. Len(r) : q[m] = r[m]
      /\ \A m \in 1 .. Len(s[k]) : q[Len(r) + m] = s[k][m]
  <2>1. s[k] \in Seq(X)
    OBVIOUS
  <2> QED
    BY <2>1, SMTT(30)
<1> HIDE DEF q
<1>2. \A i \in 1 .. n : o[i] \in Nat /\ Len(s[i]) \in Nat
  <2>1. \A i \in 1 .. n : s[i] \in Seq(X)
    OBVIOUS
  <2> QED
    BY <2>1
<1>3. ASSUME NEW i \in 1 .. k, NEW j \in 1 .. Len(s[i])
      PROVE  o[i] + j \in 1 .. Len(q) /\ q[o[i] + j] = s[i][j]
  <2>1. CASE i = k
    <3>1. j \in 1 .. Len(s[k]) /\ o[i] = Len(r) /\ s[i] = s[k]
      BY <2>1
    <3> QED
      BY <1>1, <3>1
  <2>2. CASE i # k
    <3>1. i \in 1 .. k - 1
      BY <2>2
    <3>2. o[i] + j \in 1 .. Len(r) /\ r[o[i] + j] = s[i][j]
      BY <3>1 DEF Laid
    <3> QED
      BY <1>1, <3>2, SMTT(30)
  <2> QED
    BY <2>1, <2>2
<1>4. ASSUME NEW m \in 1 .. Len(q)
      PROVE  \E i \in 1 .. k : \E j \in 1 .. Len(s[i]) : m = o[i] + j
  <2>1. CASE m <= Len(r)
    <3>1. m \in 1 .. Len(r)
      BY <1>1, <2>1
    <3>2. PICK i \in 1 .. k - 1 : \E j \in 1 .. Len(s[i]) : m = o[i] + j
      BY <3>1 DEF Laid
    <3>3. i \in 1 .. k
      OBVIOUS
    <3> QED
      BY <3>2, <3>3
  <2>2. CASE m > Len(r)
    <3> DEFINE j == m - Len(r)
    <3>1. j \in 1 .. Len(s[k]) /\ m = o[k] + j
      BY <1>1, <2>2
    <3>2. k \in 1 .. k
      OBVIOUS
    <3> HIDE DEF j
    <3> QED
      BY <3>1, <3>2
  <2> QED
    BY <1>1, <2>1, <2>2
<1> QED
  BY <1>3, <1>4 DEF Laid, q

\* FlattenSeq lays sequences one behind the other.
LEMMA FlattenLays ==
    ASSUME NEW n \in Nat \ {0}, NEW X, NEW s, s \in [1 .. n -> Seq(X)]
    PROVE  FlattenSeq(s) \in Seq(X) /\ \E o \in [1 .. n -> Nat] : Laid(FlattenSeq(s), s, o, n)
<1> DEFINE D == Seq(X)
           cat(u, v) == u \o v
           F == [i \in 1 .. n |-> [w \in D |-> cat(w, s[i])]]
           flatten[i \in 1 .. Len(s)] == IF i = 1 THEN s[i] ELSE flatten[i - 1] \o s[i]
<1>1. s \in Seq(Seq(X)) /\ Len(s) = n /\ \A i \in 1 .. n : s[i] \in D
  OBVIOUS
<1>2. FlattenSeq(s) = flatten[n]
  BY <1>1 DEF FlattenSeq
<1>3. /\ \A u, v \in D : cat(u, v) \in D
      /\ \A u \in D : cat(<<>>, u) = u /\ Len(u) \in Nat
      /\ <<>> \in D /\ Len(<<>>) = 0
  <2>1. ASSUME NEW u \in D, NEW v \in D
        PROVE  u \o v \in D
    OBVIOUS
  <2>2. ASSUME NEW u \in D PROVE <<>> \o u = u /\ Len(u) \in Nat
    OBVIOUS
  <2>3. <<>> \in D
    OBVIOUS
  <2> HIDE DEF D
  <2> QED
    BY <2>1, <2>2, <2>3
<1> HIDE DEF cat, D
<1>4. PICK h : IsLoop(h, n, D, <<>>, F)
  <2>1. F \in [1 .. n -> [D -> D]]
    BY <1>1, <1>3
  <2> HIDE DEF F
  <2> QED
    BY <1>3, <2>1, LoopExists
<1>5. h \in [0 .. n -> D] /\ h[0] = <<>> /\ \A i \in 1 .. n : h[i - 1] \in D /\ h[i] = cat(h[i - 1], s[i])
  <2>1. h \in [0 .. n -> D] /\ h[0] = <<>>
    BY <1>4 DEF IsLoop
  <2>2. ASSUME NEW i \in 1 .. n PROVE h[i - 1] \in D /\ h[i] = cat(h[i - 1], s[i])
    <3>1. h[i - 1] \in D
      BY <2>1
    <3> QED
      BY <1>4, <3>1 DEF IsLoop
  <2> QED
    BY <2>1, <2>2
<1> HIDE DEF F
<1> DEFINE w == [i \in 1 .. n |-> h[i]]
<1>6. w = [i \in 1 .. Len(s) |-> IF i = 1 THEN s[i] ELSE w[i - 1] \o s[i]]
  <2>1. h[1] = s[1]
    BY <1>1, <1>3, <1>5
  <2>2. ASSUME NEW i \in 1 .. n, i # 1 PROVE w[i - 1] = h[i - 1]
    BY <2>2
  <2>3. \A i \in 1 .. n : w[i] = IF i = 1 THEN s[i] ELSE cat(w[i - 1], s[i])
    BY <1>5, <2>1, <2>2
  <2> HIDE DEF w
  <2>4. w = [i \in 1 .. n |-> IF i = 1 THEN s[i] ELSE cat(w[i - 1], s[i])]
    BY <2>3 DEF w
  <2> QED
    BY <1>1, <2>4 DEF cat
<1> HIDE DEF w
<1>7. flatten = [i \in 1 .. Len(s) |-> IF i = 1 THEN s[i] ELSE flatten[i - 1] \o s[i]]
  BY <1>6, Zenon
<1> HIDE DEF flatten
<1> DEFINE S == {i \in 0 .. n : i = 0 \/ flatten[i] = h[i]}
           o == [i \in 1 .. n |-> Len(h[i - 1])]
           T == {i \in 0 .. n : Laid(h[i], s, o, i)}
<1>8. \A i \in 0 .. n : i \in S
  <2>1. 0 \in S
    OBVIOUS
  <2>2. ASSUME NEW i \in 1 .. n, i - 1 \in S PROVE i \in S
    <3>1. CASE i = 1
      <4>1. h[1] = s[1]
        BY <1>1, <1>3, <1>5
      <4>2. flatten[1] = s[1]
        BY <1>1, <1>7
      <4> QED
        BY <3>1, <4>1, <4>2
    <3>2. CASE i # 1
      <4>1. flatten[i - 1] = h[i - 1]
        BY <2>2, <3>2
      <4>2. flatten[i] = cat(flatten[i - 1], s[i])
        BY <1>1, <1>7, <3>2 DEF cat
      <4> QED
        BY <1>5, <4>1, <4>2
    <3> QED
      BY <3>1, <3>2
  <2> HIDE DEF S
  <2> QED
    BY <2>1, <2>2, Rounds
<1>9. o \in [1 .. n -> Nat] /\ \A i \in 1 .. n : o[i] = Len(h[i - 1])
  BY <1>3, <1>5
<1> HIDE DEF o
<1>10. \A i \in 0 .. n : i \in T
  <2>1. 0 \in T
    BY <1>3, <1>5 DEF Laid
  <2>2. ASSUME NEW i \in 1 .. n, i - 1 \in T PROVE i \in T
    <3>1. h[i - 1] \in Seq(X) /\ h[i] = h[i - 1] \o s[i] /\ Laid(h[i - 1], s, o, i - 1)
      BY <1>5, <2>2 DEF cat, D
    <3>2. Laid(h[i], s, o, i)
      BY <1>9, <3>1, LaidBehind, ZenonT(40)
    <3> QED
      BY <3>2
  <2> HIDE DEF T
  <2> QED
    BY <2>1, <2>2, Rounds
<1>11. flatten[n] = h[n] /\ Laid(h[n], s, o, n) /\ h[n] \in Seq(X)
  <2>1. n \in 0 .. n /\ n # 0
    OBVIOUS
  <2>2. n \in S /\ n \in T
    BY <1>8, <1>10, <2>1
  <2> QED
    BY <1>5, <2>1, <2>2 DEF D
<1> QED
  BY <1>2, <1>9, <1>11

\* r has what the sequences of s have, and twice nothing that is not twice in one of them
\* or in two of them
IsFlat(r, s, n) ==
    /\ \A x : x \in ToSet(r) <=> \E i \in 1 .. n : x \in ToSet(s[i])
    /\ \A i \in 1 .. n : \A j, k \in 1 .. Len(s[i]) : j # k =>
         \E l, m \in 1 .. Len(r) : l # m /\ r[l] = s[i][j] /\ r[m] = s[i][k]
    /\ (\A i, j \in 1 .. n : \A k \in 1 .. Len(s[i]) : \A l \in 1 .. Len(s[j]) :
          s[i][k] = s[j][l] => i = j /\ k = l) =>
       \A k, l \in 1 .. Len(r) : r[k] = r[l] => k = l

\* So FlattenSeq loses nothing and adds nothing.
LEMMA FlattenIs ==
    ASSUME NEW n \in Nat \ {0}, NEW X, NEW s, s \in [1 .. n -> Seq(X)]
    PROVE  FlattenSeq(s) \in Seq(X) /\ IsFlat(FlattenSeq(s), s, n)
<1> DEFINE r == FlattenSeq(s)
<1>1. PICK o \in [1 .. n -> Nat] : Laid(r, s, o, n)
  BY FlattenLays
<1>2. r \in Seq(X)
  BY FlattenLays
<1>3. \A i \in 1 .. n : s[i] \in Seq(X) /\ o[i] \in Nat /\ DOMAIN s[i] = 1 .. Len(s[i])
  OBVIOUS
<1>4. DOMAIN r = 1 .. Len(r)
  BY <1>2
<1> HIDE DEF r
<1>5. ASSUME NEW i \in 1 .. n, NEW j \in 1 .. Len(s[i])
      PROVE  o[i] + j \in 1 .. Len(r) /\ r[o[i] + j] = s[i][j]
  BY <1>1 DEF Laid
<1>6. ASSUME NEW m \in 1 .. Len(r) PROVE \E i \in 1 .. n : \E j \in 1 .. Len(s[i]) : m = o[i] + j
  BY <1>1 DEF Laid
<1>7. \A x : x \in ToSet(r) <=> \E i \in 1 .. n : x \in ToSet(s[i])
  <2>1. ASSUME NEW m \in 1 .. Len(r) PROVE \E i \in 1 .. n : r[m] \in ToSet(s[i])
    <3>1. PICK i \in 1 .. n : \E j \in 1 .. Len(s[i]) : m = o[i] + j
      BY <1>6
    <3> QED
      BY <1>3, <1>5, <3>1 DEF ToSet
  <2>2. ASSUME NEW i \in 1 .. n, NEW j \in 1 .. Len(s[i]) PROVE s[i][j] \in ToSet(r)
    BY <1>4, <1>5 DEF ToSet
  <2>3. ToSet(r) = {r[m] : m \in 1 .. Len(r)} /\ \A i \in 1 .. n : ToSet(s[i]) = {s[i][j] : j \in 1 .. Len(s[i])}
    BY <1>3, <1>4 DEF ToSet
  <2>4. ASSUME NEW x \in ToSet(r) PROVE \E i \in 1 .. n : x \in ToSet(s[i])
    <3>1. PICK m \in 1 .. Len(r) : x = r[m]
      BY <2>3
    <3> QED
      BY <2>1, <3>1
  <2>5. ASSUME NEW i \in 1 .. n, NEW x \in ToSet(s[i]) PROVE x \in ToSet(r)
    <3>1. PICK j \in 1 .. Len(s[i]) : x = s[i][j]
      BY <1>3 DEF ToSet
    <3> QED
      BY <2>2, <3>1
  <2> QED
    BY <2>4, <2>5
<1>8. ASSUME NEW i \in 1 .. n, NEW j \in 1 .. Len(s[i]), NEW k \in 1 .. Len(s[i]), j # k
      PROVE  \E l, m \in 1 .. Len(r) : l # m /\ r[l] = s[i][j] /\ r[m] = s[i][k]
  <2>1. o[i] + j # o[i] + k
    BY <1>3, <1>8
  <2> QED
    BY <1>5, <2>1
<1>9. ASSUME \A i, j \in 1 .. n : \A k \in 1 .. Len(s[i]) : \A l \in 1 .. Len(s[j]) :
               s[i][k] = s[j][l] => i = j /\ k = l,
             NEW k \in 1 .. Len(r), NEW l \in 1 .. Len(r), r[k] = r[l]
      PROVE  k = l
  <2>1. PICK i \in 1 .. n : \E m \in 1 .. Len(s[i]) : k = o[i] + m
    BY <1>6
  <2>2. PICK j \in 1 .. n : \E m \in 1 .. Len(s[j]) : l = o[j] + m
    BY <1>6
  <2> DEFINE ki == k - o[i]
             lj == l - o[j]
  <2>6. \A m \in 1 .. n : o[m] \in Nat /\ Len(s[m]) \in Nat
    BY <1>3
  <2>7. ki \in 1 .. Len(s[i]) /\ k = o[i] + ki
    <3>1. PICK m \in 1 .. Len(s[i]) : k = o[i] + m
      BY <2>1
    <3> QED
      BY <2>6, <3>1
  <2>8. lj \in 1 .. Len(s[j]) /\ l = o[j] + lj
    <3>1. PICK m \in 1 .. Len(s[j]) : l = o[j] + m
      BY <2>2
    <3> QED
      BY <2>6, <3>1
  <2>5. ki \in 1 .. Len(s[i]) /\ k = o[i] + ki /\ lj \in 1 .. Len(s[j]) /\ l = o[j] + lj
    BY <2>7, <2>8
  <2> HIDE DEF ki, lj
  <2>3. s[i][ki] = s[j][lj]
    BY <1>5, <1>9, <2>5
  <2>4. i = j /\ ki = lj
    <3>1. \A a \in 1 .. Len(s[i]) : \A b \in 1 .. Len(s[j]) : s[i][a] = s[j][b] => i = j /\ a = b
      BY <1>9
    <3>2. ki \in 1 .. Len(s[i]) /\ lj \in 1 .. Len(s[j])
      BY <2>5
    <3> QED
      BY <2>3, <3>1, <3>2, Zenon
  <2> QED
    BY <2>4, <2>5
<1> QED
  BY <1>2, <1>7, <1>8, <1>9, Zenon DEF r, IsFlat

\* A finite set of numbers has a largest one, so that what is fresh is above all there are.
LEMMA AboveAll ==
    ASSUME NEW S \in SUBSET Nat, IsFiniteSet(S), S # {}
    PROVE  1 + Max(S) \in Nat /\ \A x \in S : x < 1 + Max(S)
<1> DEFINE L == [x \in S |-> {y \in S : y > x}]
<1>1. PICK x \in S : \A y \in S \ {x} : x \in L[y]
  <2>1. \A x \in S : x \notin L[x]
    OBVIOUS
  <2>2. \A x, y \in S : x = y \/ x \in L[y] \/ y \in L[x]
    OBVIOUS
  <2>3. \A x, y, z \in S : x \in L[y] /\ y \in L[z] => x \in L[z]
    OBVIOUS
  <2> HIDE DEF L
  <2> QED
    BY <2>1, <2>2, <2>3, FirstThereIs
<1>2. \A y \in S : x >= y
  BY <1>1
<1>3. Max(S) \in S /\ \A y \in S : Max(S) >= y
  BY <1>2, Zenon DEF Max
<1> HIDE DEF L
<1> DEFINE m == Max(S)
<1>4. m \in Nat /\ \A y \in S : m >= y /\ y \in Nat
  BY <1>3
<1> HIDE DEF m
<1>5. 1 + m \in Nat /\ \A y \in S : y < 1 + m
  BY <1>4
<1> QED
  BY <1>5 DEF m

-----------------------------------------------------------------------------
(* Splitting critical edges *)

IsInst(ins) == ins = Inst(ins.op, ins.type, ins.attr, ins.args, ins.to)

\* A function as it is while edges of it are split: all but the lists of predecessors, of
\* which only the form is told here
Formed(g) ==
    /\ {"order", "code", "inst", "preds"} \subseteq DOMAIN g
    /\ g.order \in Seq(Blocks(g)) /\ g.order # <<>> /\ ToSet(g.order) = Blocks(g)
    /\ IsInjective(g.order)
    /\ Blocks(g) \in SUBSET Nat /\ IsFiniteSet(Blocks(g))
    /\ DOMAIN g.inst \in SUBSET Nat /\ IsFiniteSet(DOMAIN g.inst)
    /\ g.code \in [Blocks(g) -> Seq(DOMAIN g.inst)]
    /\ g.preds \in [Blocks(g) -> Seq(Blocks(g))]
    /\ \A b \in Blocks(g) : HasTerminator(g, b) /\ Terminator(g, b).to \in Seq(Blocks(g))
    /\ \A b, c \in Blocks(g) : Last(g.code[b]) = Last(g.code[c]) => b = c
    /\ \A i \in DOMAIN g.inst : IsInst(g.inst[i])

\* The new block and the new jump are none that were there.
LEMMA FreshIs ==
    ASSUME NEW f, Formed(f)
    PROVE  /\ FreshBlock(f) \in Nat \ Blocks(f) /\ FreshInst(f) \in Nat \ DOMAIN f.inst
           /\ \A b \in Blocks(f) : /\ f.code[b] # <<>> /\ f.code[b] \in Seq(DOMAIN f.inst)
                                   /\ Last(f.code[b]) \in DOMAIN f.inst
                                   /\ Successors(f, b) = f.inst[Last(f.code[b])].to
                                   /\ Successors(f, b) \in Seq(Blocks(f))
           /\ Entry(f) \in Blocks(f)
<1>1. \A b \in Blocks(f) : f.code[b] # <<>> /\ f.code[b] \in Seq(DOMAIN f.inst)
  BY DEF Formed, HasTerminator
<1>2. ASSUME NEW b \in Blocks(f) PROVE Last(f.code[b]) \in DOMAIN f.inst
  <2> DEFINE s == f.code[b]
             I == DOMAIN f.inst
  <2>1. s \in Seq(I) /\ s # <<>>
    BY <1>1
  <2> HIDE DEF s, I
  <2>2. Last(s) \in I
    BY <2>1 DEF Last
  <2> QED
    BY <2>2 DEF s, I
<1>3. \A b \in Blocks(f) : Successors(f, b) = f.inst[Last(f.code[b])].to /\ Successors(f, b) \in Seq(Blocks(f))
  BY Zenon DEF Formed, Successors, Terminator
<1>4. Entry(f) \in Blocks(f)
  <2> DEFINE s == f.order
             B == Blocks(f)
  <2>1. s \in Seq(B) /\ s # <<>>
    BY Zenon DEF Formed
  <2> HIDE DEF s, B
  <2>2. Head(s) \in B
    BY <2>1
  <2> QED
    BY <2>2, Zenon DEF s, B, Entry
<1>5. FreshBlock(f) \in Nat \ Blocks(f)
  <2> DEFINE S == Blocks(f)
  <2>1. S \in SUBSET Nat /\ IsFiniteSet(S) /\ S # {}
    BY <1>4, Zenon DEF Formed
  <2> HIDE DEF S
  <2>2. 1 + Max(S) \in Nat /\ \A x \in S : x < 1 + Max(S)
    BY <2>1, AboveAll
  <2>3. 1 + Max(S) \in Nat \ S
    BY <2>1, <2>2
  <2> QED
    BY <2>3, Zenon DEF S, FreshBlock
<1>6. FreshInst(f) \in Nat \ DOMAIN f.inst
  <2> DEFINE S == DOMAIN f.inst
  <2>1. S \in SUBSET Nat /\ IsFiniteSet(S) /\ S # {}
    BY <1>2, <1>4, Zenon DEF Formed
  <2> HIDE DEF S
  <2>2. 1 + Max(S) \in Nat /\ \A x \in S : x < 1 + Max(S)
    BY <2>1, AboveAll
  <2>3. 1 + Max(S) \in Nat \ S
    BY <2>1, <2>2
  <2> QED
    BY <2>3, Zenon DEF S, FreshInst
<1> QED
  BY <1>1, <1>2, <1>3, <1>4, <1>5, <1>6

\* splitEdge field by field: nothing but phis changes when the incoming blocks are renamed.
LEMMA SplitEdgeFields ==
    ASSUME NEW f, Formed(f), NEW b \in Blocks(f), NEW n \in DOMAIN Successors(f, b)
    PROVE  LET g == SplitEdge(f, b, n)
               t == Successors(f, b)[n]
               new == FreshBlock(f)
               jump == FreshInst(f)
               I == With([f.inst EXCEPT ![Last(f.code[b])].to[n] = new], jump, Branch(t))
           IN /\ {"order", "code", "inst", "preds"} \subseteq DOMAIN g
              /\ g.order = Append(f.order, new)
              /\ g.code = With(f.code, new, <<jump>>)
              /\ g.preds = With([f.preds EXCEPT ![t] = Append(@, new)], new, <<>>)
              /\ DOMAIN g.inst = DOMAIN I
              /\ \A i \in DOMAIN I :
                   \/ g.inst[i] = I[i]
                   \/ I[i].op = "phi" /\ g.inst[i] = [I[i] EXCEPT !.to = ReplaceAll(@, b, new)]
<1> DEFINE t == Successors(f, b)[n]
           new == FreshBlock(f)
           jump == FreshInst(f)
           O == Append(f.order, new)
           C == With(f.code, new, <<jump>>)
           I == With([f.inst EXCEPT ![Last(f.code[b])].to[n] = new], jump, Branch(t))
           P == With([f.preds EXCEPT ![t] = Append(@, new)], new, <<>>)
           mid == [f EXCEPT !.order = O, !.code = C, !.inst = I, !.preds = P]
           phis == UNION {LeadingPhis(mid, c) : c \in {t}}
           J == [i \in DOMAIN mid.inst |-> IF i \in phis THEN [mid.inst[i] EXCEPT !.to = ReplaceAll(@, b, new)]
                                           ELSE mid.inst[i]]
           g == [mid EXCEPT !.inst = J]
<1>1. SplitEdge(f, b, n) = g
  <2>1. SplitEdge(f, b, n) = RenameIncoming(mid, {t}, b, new)
    BY Zenon DEF SplitEdge
  <2> HIDE DEF mid
  <2>2. RenameIncoming(mid, {t}, b, new) = g
    BY Zenon DEF RenameIncoming, EditPhis
  <2> QED
    BY <2>1, <2>2
<1>2. {"order", "code", "inst", "preds"} \subseteq DOMAIN f
  BY DEF Formed
<1> HIDE DEF O, C, I, P
<1>3. /\ DOMAIN mid = DOMAIN f
      /\ mid.order = O /\ mid.code = C /\ mid.inst = I /\ mid.preds = P
  BY <1>2
<1>4. \A i \in phis : I[i].op = "phi"
  <2>1. ASSUME NEW m \in DOMAIN mid.code[t], \A k \in 1 .. m : mid.inst[mid.code[t][k]].op = "phi", m \in Nat \ {0}
        PROVE  I[mid.code[t][m]].op = "phi"
    <3>1. m \in 1 .. m
      BY <2>1
    <3> HIDE DEF mid
    <3> QED
      BY <1>3, <2>1, <3>1
  <2>2. \A m \in DOMAIN mid.code[t] : m \in Nat \ {0}
    <3>1. t \in Blocks(f) /\ f.code[t] \in Seq(DOMAIN f.inst)
      <4>1. Successors(f, b) \in Seq(Blocks(f))
        BY FreshIs
      <4>2. t \in Blocks(f)
        BY <4>1
      <4> QED
        BY <4>2, FreshIs
    <3>2. C[t] = f.code[t]
      <4>1. t # new /\ DOMAIN f.code = Blocks(f)
        BY <3>1, FreshIs DEF Blocks
      <4> HIDE DEF t, new
      <4> QED
        BY <3>1, <4>1 DEF C, With
    <3> HIDE DEF mid
    <3>3. mid.code[t] = f.code[t]
      BY <1>3, <3>2
    <3> QED
      BY <3>1, <3>3
  <2> HIDE DEF mid
  <2> QED
    BY <2>1, <2>2 DEF LeadingPhis
<1> HIDE DEF phis
<1>5. /\ DOMAIN g = DOMAIN mid
      /\ g.order = mid.order /\ g.code = mid.code /\ g.preds = mid.preds /\ g.inst = J
  <2> HIDE DEF J, mid
  <2> QED
    BY <1>2, <1>3
<1> HIDE DEF mid
<1>6. /\ DOMAIN J = DOMAIN I
      /\ \A i \in DOMAIN I : J[i] = IF i \in phis THEN [I[i] EXCEPT !.to = ReplaceAll(@, b, new)] ELSE I[i]
  BY <1>3
<1> HIDE DEF J, g
<1>7. \A i \in DOMAIN I : \/ J[i] = I[i]
                          \/ I[i].op = "phi" /\ J[i] = [I[i] EXCEPT !.to = ReplaceAll(@, b, new)]
  BY <1>4, <1>6
<1>8. {"order", "code", "inst", "preds"} \subseteq DOMAIN g
  BY <1>2, <1>3, <1>5
<1>9. g.order = O /\ g.code = C /\ g.preds = P /\ g.inst = J
  BY <1>3, <1>5
<1> QED
  BY <1>1, <1>6, <1>7, <1>8, <1>9, Zenon DEF O, C, I, P

\* A block more, through which one edge goes now.
SplitAt(f, g, b, n, t, new) ==
    /\ new \in Nat \ Blocks(f) /\ t \in Blocks(f) /\ t = Successors(f, b)[n]
    /\ Blocks(g) = Blocks(f) \cup {new}
    /\ g.order = Append(f.order, new)
    /\ Successors(g, new) = <<t>>
    /\ Successors(g, b) = [Successors(f, b) EXCEPT ![n] = new]
    /\ \A c \in Blocks(f) \ {b} : Successors(g, c) = Successors(f, c)
    /\ g.preds[new] = <<>>
    /\ \A c \in Blocks(f) : g.preds[c] = IF c = t THEN Append(f.preds[c], new) ELSE f.preds[c]

\* The instructions of f that are calls, and nothing else, are those of g
SameCalls(f, g) ==
    \A i \in DOMAIN g.inst : g.inst[i].op = "call" =>
        i \in DOMAIN f.inst /\ f.inst[i].op = "call" /\ g.inst[i].attr = f.inst[i].attr

\* splitEdge splits the edge, and leaves a function.
LEMMA SplitEdgeIs ==
    ASSUME NEW f, Formed(f), NEW b \in Blocks(f), NEW n \in DOMAIN Successors(f, b)
    PROVE  LET g == SplitEdge(f, b, n)
           IN /\ Formed(g) /\ SameCalls(f, g)
              /\ SplitAt(f, g, b, n, Successors(f, b)[n], FreshBlock(f))
<1> DEFINE g == SplitEdge(f, b, n)
           t == Successors(f, b)[n]
           new == FreshBlock(f)
           jump == FreshInst(f)
           last == Last(f.code[b])
           I == With([f.inst EXCEPT ![last].to[n] = new], jump, Branch(t))
           B == Blocks(f)
           D == DOMAIN f.inst
<1>1. /\ {"order", "code", "inst", "preds"} \subseteq DOMAIN g
      /\ g.order = Append(f.order, new)
      /\ g.code = With(f.code, new, <<jump>>)
      /\ g.preds = With([f.preds EXCEPT ![t] = Append(@, new)], new, <<>>)
      /\ DOMAIN g.inst = DOMAIN I
      /\ \A i \in DOMAIN I :
           \/ g.inst[i] = I[i]
           \/ I[i].op = "phi" /\ g.inst[i] = [I[i] EXCEPT !.to = ReplaceAll(@, b, new)]
  BY SplitEdgeFields, Zenon
<1>2. /\ new \in Nat \ B /\ jump \in Nat \ D
      /\ \A c \in B : /\ f.code[c] # <<>> /\ f.code[c] \in Seq(D)
                      /\ Last(f.code[c]) \in D
                      /\ Successors(f, c) = f.inst[Last(f.code[c])].to
                      /\ Successors(f, c) \in Seq(B)
  BY FreshIs, Zenon
<1>3. /\ f.order \in Seq(B) /\ f.order # <<>> /\ ToSet(f.order) = B /\ IsInjective(f.order)
      /\ B \in SUBSET Nat /\ IsFiniteSet(B)
      /\ D \in SUBSET Nat /\ IsFiniteSet(D)
      /\ f.code \in [B -> Seq(D)] /\ f.preds \in [B -> Seq(B)]
      /\ \A c \in B : HasTerminator(f, c)
      /\ \A c, d \in B : Last(f.code[c]) = Last(f.code[d]) => c = d
      /\ \A i \in D : IsInst(f.inst[i])
  BY Zenon DEF Formed
<1>4. \A c \in B : f.inst[Last(f.code[c])].op \in Terminators
  BY <1>3, Zenon DEF HasTerminator
<1>5. t \in B /\ b \in B /\ n \in DOMAIN Successors(f, b) /\ last = Last(f.code[b]) /\ last \in D
      /\ Successors(f, b) = f.inst[last].to
  <2>1. Successors(f, b) \in Seq(B)
    BY <1>2
  <2>2. t \in B
    <3> HIDE DEF B
    <3> QED
      BY <2>1
  <2> QED
    BY <1>2, <2>2
<1>6. /\ DOMAIN I = D \cup {jump}
      /\ I[jump] = Branch(t)
      /\ I[last] = [f.inst[last] EXCEPT !.to = [f.inst[last].to EXCEPT ![n] = new]]
      /\ \A i \in D \ {last} : I[i] = f.inst[i]
  <2> HIDE DEF t, new, jump, last
  <2>1. D = DOMAIN f.inst
    OBVIOUS
  <2> HIDE DEF D
  <2> QED
    BY <1>2, <1>5, <2>1 DEF With
<1>17. Branch(t).op = "br" /\ Branch(t).to = <<t>> /\ IsInst(Branch(t))
  BY DEF Branch, Inst, IsInst
<1>7. Blocks(g) = B \cup {new} /\ g.code[new] = <<jump>> /\ \A c \in B : g.code[c] = f.code[c]
  <2>1. DOMAIN f.code = B
    BY DEF Blocks
  <2>3. \A c \in B : c \in DOMAIN f.code \ {new}
    BY <1>2, <2>1
  <2>4. g.code = With(f.code, new, <<jump>>) /\ Blocks(g) = DOMAIN g.code
    BY <1>1, Zenon DEF Blocks
  <2> HIDE DEF B, new, jump, g, I, D, last, t
  <2>2. /\ DOMAIN With(f.code, new, <<jump>>) = DOMAIN f.code \cup {new}
        /\ With(f.code, new, <<jump>>)[new] = <<jump>>
        /\ \A c \in DOMAIN f.code \ {new} : With(f.code, new, <<jump>>)[c] = f.code[c]
    BY DEF With
  <2> QED
    BY <2>1, <2>2, <2>3, <2>4
<1>8. /\ DOMAIN g.preds = B \cup {new} /\ g.preds[new] = <<>>
      /\ \A c \in B : g.preds[c] = IF c = t THEN Append(f.preds[c], new) ELSE f.preds[c]
  <2> DEFINE P == [f.preds EXCEPT ![t] = Append(@, new)]
  <2>1. DOMAIN P = B /\ \A c \in B : P[c] = IF c = t THEN Append(f.preds[c], new) ELSE f.preds[c]
    <3> HIDE DEF B, new, g, t
    <3> QED
      BY <1>3, <1>5
  <2>2. g.preds = With(P, new, <<>>)
    BY <1>1, Zenon
  <2>3. new \notin B
    BY <1>2
  <2> HIDE DEF B, new, g, t, P, I, D, last, jump
  <2>4. /\ DOMAIN With(P, new, <<>>) = DOMAIN P \cup {new} /\ With(P, new, <<>>)[new] = <<>>
        /\ \A c \in DOMAIN P \ {new} : With(P, new, <<>>)[c] = P[c]
    BY DEF With
  <2> QED
    BY <2>1, <2>2, <2>3, <2>4
<1> HIDE DEF I, g, B, D, t, new, jump, last
<1>9. /\ DOMAIN g.inst = D \cup {jump}
      /\ g.inst[jump] = Branch(t)
      /\ g.inst[last] = [f.inst[last] EXCEPT !.to = [f.inst[last].to EXCEPT ![n] = new]]
      /\ \A c \in B \ {b} : g.inst[Last(f.code[c])] = f.inst[Last(f.code[c])]
  <2>1. DOMAIN g.inst = D \cup {jump}
    BY <1>1, <1>6
  <2>2. \A i \in D \cup {jump} : I[i].op # "phi" => g.inst[i] = I[i]
    BY <1>1, <1>6
  <2>3. I[jump].op # "phi"
    BY <1>6, <1>17
  <2>4. I[last].op = f.inst[last].op
    <3>1. IsInst(f.inst[last])
      BY <1>3, <1>5
    <3>2. [f.inst[last] EXCEPT !.to = [f.inst[last].to EXCEPT ![n] = new]].op = f.inst[last].op
      BY <3>1 DEF IsInst, Inst
    <3> QED
      BY <1>6, <3>2
  <2>5. I[last].op # "phi"
    BY <1>4, <1>5, <2>4 DEF Terminators
  <2>6. ASSUME NEW c \in B \ {b} PROVE g.inst[Last(f.code[c])] = f.inst[Last(f.code[c])]
    <3>1. Last(f.code[c]) \in D \ {last}
      BY <1>2, <1>3, <1>5
    <3>2. I[Last(f.code[c])].op # "phi"
      BY <1>4, <1>6, <3>1 DEF Terminators
    <3> QED
      BY <1>6, <2>2, <3>1, <3>2
  <2> QED
    BY <1>5, <1>6, <2>1, <2>2, <2>3, <2>5, <2>6
<1>10. ASSUME NEW i \in D \cup {jump}
       PROVE  /\ IsInst(g.inst[i])
              /\ g.inst[i].op = "call" => i \in D /\ f.inst[i].op = "call" /\ g.inst[i].attr = f.inst[i].attr
  <2>1. IsInst(I[i]) /\ (I[i].op = "call" => i \in D /\ f.inst[i].op = "call" /\ I[i].attr = f.inst[i].attr)
    <3>1. CASE i = jump
      BY <1>6, <1>17, <3>1
    <3>2. CASE i = last
      <4>1. IsInst(f.inst[last])
        BY <1>3, <1>5
      <4>2. \A x : LET r == [f.inst[last] EXCEPT !.to = x]
                   IN IsInst(r) /\ r.op = f.inst[last].op /\ r.attr = f.inst[last].attr
        BY <4>1 DEF IsInst, Inst
      <4>3. i \in D /\ \E x : I[i] = [f.inst[last] EXCEPT !.to = x]
        BY <1>5, <1>6, <3>2
      <4>4. IsInst(I[i]) /\ I[i].op = f.inst[last].op /\ I[i].attr = f.inst[last].attr
        BY <4>2, <4>3
      <4> QED
        BY <3>2, <4>3, <4>4
    <3>3. CASE i \in D \ {last}
      BY <1>3, <1>6, <3>3
    <3> QED
      BY <3>1, <3>2, <3>3
  <2>2. \A x : LET r == [I[i] EXCEPT !.to = x] IN IsInst(r) /\ r.op = I[i].op
    BY <2>1 DEF IsInst, Inst
  <2>3. CASE g.inst[i] = I[i]
    BY <2>1, <2>3
  <2>4. CASE I[i].op = "phi" /\ g.inst[i] = [I[i] EXCEPT !.to = ReplaceAll(@, b, new)]
    BY <2>2, <2>4
  <2> QED
    BY <1>1, <1>6, <2>3, <2>4
<1>11. /\ Successors(g, new) = <<t>> /\ HasTerminator(g, new) /\ Terminator(g, new).to = <<t>>
       /\ Last(g.code[new]) = jump
  <2>1. Last(g.code[new]) = jump /\ g.code[new] # <<>>
    BY <1>7 DEF Last
  <2>2. g.inst[jump].op \in Terminators /\ g.inst[jump].to = <<t>>
    BY <1>9, <1>17 DEF Terminators
  <2> QED
    BY <2>1, <2>2, Zenon DEF Successors, Terminator, HasTerminator
<1>12. ASSUME NEW c \in B
       PROVE  /\ HasTerminator(g, c) /\ Successors(g, c) = Terminator(g, c).to
              /\ Last(g.code[c]) = Last(f.code[c])
              /\ Successors(g, c) = IF c = b THEN [Successors(f, c) EXCEPT ![n] = new] ELSE Successors(f, c)
  <2>1. Last(g.code[c]) = Last(f.code[c]) /\ g.code[c] # <<>>
    BY <1>2, <1>7
  <2>2. CASE c = b
    <3>1. IsInst(f.inst[last]) /\ f.inst[last].op \in Terminators
      BY <1>3, <1>4, <1>5
    <3>2. g.inst[last].op = f.inst[last].op /\ g.inst[last].to = [f.inst[last].to EXCEPT ![n] = new]
      BY <1>9, <3>1 DEF IsInst, Inst
    <3> QED
      BY <1>5, <2>1, <2>2, <3>1, <3>2 DEF Successors, Terminator, HasTerminator
  <2>3. CASE c # b
    <3>1. g.inst[Last(f.code[c])] = f.inst[Last(f.code[c])]
      BY <1>9, <2>3
    <3> QED
      BY <1>2, <1>4, <2>1, <2>3, <3>1 DEF Successors, Terminator, HasTerminator
  <2> QED
    BY <2>2, <2>3
<1>13. /\ \A c \in B : Terminator(g, c).to \in Seq(B \cup {new})
       /\ Terminator(g, new).to \in Seq(B \cup {new})
  <2>1. \A c \in B : Successors(f, c) \in Seq(B \cup {new})
    <3>1. \A c \in B : Successors(f, c) \in Seq(B)
      BY <1>2
    <3> QED
      BY <3>1
  <2>2. [Successors(f, b) EXCEPT ![n] = new] \in Seq(B \cup {new})
    <3>1. Successors(f, b) \in Seq(B \cup {new})
      BY <1>5, <2>1
    <3> QED
      BY <1>5, <3>1
  <2>3. <<t>> \in Seq(B \cup {new})
    BY <1>5
  <2> QED
    BY <1>11, <1>12, <2>1, <2>2, <2>3
<1>14. Formed(g)
  <2>1. /\ g.order \in Seq(B \cup {new}) /\ g.order # <<>> /\ ToSet(g.order) = B \cup {new}
        /\ IsInjective(g.order)
    <3> DEFINE s == f.order
    <3>1. s \in Seq(B) /\ ToSet(s) = B /\ IsInjective(s) /\ g.order = Append(s, new) /\ new \notin B
      BY <1>1, <1>2, <1>3
    <3> HIDE DEF s
    <3>2. /\ DOMAIN g.order = 1 .. Len(s) + 1 /\ DOMAIN s = 1 .. Len(s) /\ Len(s) \in Nat
          /\ g.order[Len(s) + 1] = new
          /\ \A m \in 1 .. Len(s) : g.order[m] = s[m] /\ s[m] \in B
      BY <3>1
    <3>3. g.order \in Seq(B \cup {new}) /\ g.order # <<>>
      BY <3>1
    <3>4. ToSet(g.order) = B \cup {new}
      BY <3>1, <3>2 DEF ToSet
    <3>5. IsInjective(g.order)
      <4>1. \A m, k \in 1 .. Len(s) : s[m] = s[k] => m = k
        BY <3>1, <3>2 DEF IsInjective
      <4> QED
        BY <3>1, <3>2, <4>1 DEF IsInjective
    <3> QED
      BY <3>3, <3>4, <3>5
  <2>2. B \cup {new} \in SUBSET Nat /\ IsFiniteSet(B \cup {new})
    BY <1>2, <1>3, FS_AddElement
  <2>3. D \cup {jump} \in SUBSET Nat /\ IsFiniteSet(D \cup {jump})
    BY <1>2, <1>3, FS_AddElement
  <2>4. g.code \in [B \cup {new} -> Seq(D \cup {jump})]
    <3>1. DOMAIN f.code = B
      BY DEF Blocks, B
    <3>2. \A c \in B : f.code[c] \in Seq(D \cup {jump})
      <4>1. \A c \in B : f.code[c] \in Seq(D)
        BY <1>2
      <4> QED
        BY <4>1
    <3>3. <<jump>> \in Seq(D \cup {jump})
      OBVIOUS
    <3> QED
      BY <1>1, <1>2, <3>1, <3>2, <3>3 DEF With
  <2>5. g.preds \in [B \cup {new} -> Seq(B \cup {new})]
    <3> DEFINE Q == Seq(B \cup {new})
    <3>1. \A c \in B : f.preds[c] \in Q /\ Append(f.preds[c], new) \in Q
      <4>1. \A c \in B : f.preds[c] \in Seq(B)
        BY <1>3
      <4>2. \A c \in B : f.preds[c] \in Q
        BY <4>1
      <4> QED
        BY <4>2
    <3>2. <<>> \in Q
      OBVIOUS
    <3> HIDE DEF Q
    <3>3. \A c \in B \cup {new} : g.preds[c] \in Q
      BY <1>8, <3>1, <3>2
    <3>4. g.preds = [c \in DOMAIN g.preds |-> g.preds[c]]
      BY <1>1, Zenon DEF With
    <3>5. g.preds \in [B \cup {new} -> Q]
      BY <1>8, <3>3, <3>4
    <3> QED
      BY <3>5 DEF Q
  <2>6. \A c \in B \cup {new} : HasTerminator(g, c) /\ Terminator(g, c).to \in Seq(B \cup {new})
    BY <1>11, <1>12, <1>13
  <2>7. \A c, d \in B \cup {new} : Last(g.code[c]) = Last(g.code[d]) => c = d
    <3>1. \A c \in B : Last(g.code[c]) \in D /\ Last(g.code[c]) = Last(f.code[c])
      BY <1>2, <1>12
    <3>2. Last(g.code[new]) = jump /\ jump \notin D
      BY <1>2, <1>11
    <3> QED
      BY <1>3, <3>1, <3>2
  <2> QED
    BY <1>1, <1>7, <1>9, <1>10, <2>1, <2>2, <2>3, <2>4, <2>5, <2>6, <2>7, Zenon DEF Formed
<1>15. SameCalls(f, g)
  <2>1. DOMAIN f.inst = D
    BY DEF D
  <2> QED
    BY <1>9, <1>10, <2>1, Zenon DEF SameCalls
<1>16. SplitAt(f, g, b, n, t, new)
  <2>1. B = Blocks(f) /\ t = Successors(f, b)[n]
    BY DEF B, t
  <2> QED
    BY <1>1, <1>2, <1>5, <1>7, <1>8, <1>11, <1>12, <2>1 DEF SplitAt
<1> QED
  BY <1>14, <1>15, <1>16, Zenon DEF g, t, new

\* One edge at most leads to t
OneWayIn(g, t) ==
    \A b, c \in Blocks(g) : \A m \in DOMAIN Successors(g, b) : \A n \in DOMAIN Successors(g, c) :
        Successors(g, b)[m] = t /\ Successors(g, c)[n] = t => b = c /\ m = n

\* The edges after a split are those before it, but for the one that was split.
LEMMA EdgesOfSplit ==
    ASSUME NEW f, Formed(f), NEW g, NEW b \in Blocks(f), NEW n \in DOMAIN Successors(f, b),
           NEW t, NEW new, SplitAt(f, g, b, n, t, new)
    PROVE  /\ \A c \in Blocks(f) : /\ DOMAIN Successors(g, c) = DOMAIN Successors(f, c)
                                   /\ Len(Successors(g, c)) = Len(Successors(f, c))
           /\ \A c \in Blocks(f) : \A m \in DOMAIN Successors(f, c) :
                Successors(g, c)[m] = IF c = b /\ m = n THEN new ELSE Successors(f, c)[m]
           /\ DOMAIN Successors(g, new) = {1} /\ Successors(g, new)[1] = t
           /\ \A c \in Blocks(f) : \A m \in DOMAIN Successors(f, c) : Successors(f, c)[m] \in Blocks(f)
<1>1. \A c \in Blocks(f) : Successors(f, c) \in Seq(Blocks(f))
  BY FreshIs
<1>2. ASSUME NEW c \in Blocks(f)
      PROVE  /\ DOMAIN Successors(g, c) = DOMAIN Successors(f, c)
             /\ Len(Successors(g, c)) = Len(Successors(f, c))
             /\ \A m \in DOMAIN Successors(f, c) :
                  /\ Successors(g, c)[m] = IF c = b /\ m = n THEN new ELSE Successors(f, c)[m]
                  /\ Successors(f, c)[m] \in Blocks(f)
  <2> DEFINE s == Successors(f, c)
             r == Successors(g, c)
             B == Blocks(f)
  <2>1. s \in Seq(B) /\ (c = b => n \in DOMAIN s)
    BY <1>1
  <2>2. r = IF c = b THEN [s EXCEPT ![n] = new] ELSE s
    BY DEF SplitAt
  <2> HIDE DEF s, r, B
  <2>3. DOMAIN r = DOMAIN s /\ \A m \in DOMAIN s : r[m] = (IF c = b /\ m = n THEN new ELSE s[m]) /\ s[m] \in B
    BY <2>1, <2>2
  <2>4. Len(r) = Len(s)
    <3>1. DOMAIN s = 1 .. Len(s) /\ Len(s) \in Nat
      BY <2>1
    <3>2. r \in Seq(B \cup {new})
      BY <2>1, <2>2
    <3> QED
      BY <2>3, <3>1, <3>2
  <2> QED
    BY <2>3, <2>4 DEF s, r, B
<1>3. DOMAIN Successors(g, new) = {1} /\ Successors(g, new)[1] = t
  BY DEF SplitAt
<1> QED
  BY <1>2, <1>3

\* So where one edge led, one leads, and one to the new block.
LEMMA OneWayKept ==
    ASSUME NEW f, Formed(f), NEW g, NEW b \in Blocks(f), NEW n \in DOMAIN Successors(f, b),
           NEW t, NEW new, SplitAt(f, g, b, n, t, new)
    PROVE  /\ \A x \in Blocks(f) : OneWayIn(f, x) => OneWayIn(g, x)
           /\ OneWayIn(g, new)
<1>1. Blocks(g) = Blocks(f) \cup {new} /\ new \notin Blocks(f) /\ t \in Blocks(f) /\ t = Successors(f, b)[n]
  BY DEF SplitAt
<1>2. /\ \A c \in Blocks(f) : /\ DOMAIN Successors(g, c) = DOMAIN Successors(f, c)
                              /\ Len(Successors(g, c)) = Len(Successors(f, c))
      /\ \A c \in Blocks(f) : \A m \in DOMAIN Successors(f, c) :
           Successors(g, c)[m] = IF c = b /\ m = n THEN new ELSE Successors(f, c)[m]
      /\ DOMAIN Successors(g, new) = {1} /\ Successors(g, new)[1] = t
      /\ \A c \in Blocks(f) : \A m \in DOMAIN Successors(f, c) : Successors(f, c)[m] \in Blocks(f)
  BY EdgesOfSplit, Zenon
<1>3. ASSUME NEW x \in Blocks(f), OneWayIn(f, x),
             NEW c \in Blocks(g), NEW d \in Blocks(g),
             NEW m \in DOMAIN Successors(g, c), NEW k \in DOMAIN Successors(g, d),
             Successors(g, c)[m] = x, Successors(g, d)[k] = x
      PROVE  c = d /\ m = k
  <2>1. \A a \in Blocks(g) : \A j \in DOMAIN Successors(g, a) : Successors(g, a)[j] = x =>
          \/ /\ a \in Blocks(f) /\ j \in DOMAIN Successors(f, a) /\ Successors(f, a)[j] = x
             /\ ~(a = b /\ j = n)
          \/ a = new /\ j = 1 /\ x = t
    BY <1>1, <1>2
  <2>2. \A a, e \in Blocks(f) : \A j \in DOMAIN Successors(f, a) : \A i \in DOMAIN Successors(f, e) :
          Successors(f, a)[j] = x /\ Successors(f, e)[i] = x => a = e /\ j = i
    BY <1>3 DEF OneWayIn
  <2>3. CASE c = new /\ d = new
    BY <1>1, <1>3, <2>1, <2>3
  <2>4. CASE c \in Blocks(f) /\ d = new
    <3>1. m \in DOMAIN Successors(f, c) /\ Successors(f, c)[m] = x /\ ~(c = b /\ m = n) /\ x = t
      BY <1>1, <1>3, <2>1, <2>4
    <3> QED
      BY <1>1, <2>2, <2>4, <3>1
  <2>5. CASE c = new /\ d \in Blocks(f)
    <3>1. k \in DOMAIN Successors(f, d) /\ Successors(f, d)[k] = x /\ ~(d = b /\ k = n) /\ x = t
      BY <1>1, <1>3, <2>1, <2>5
    <3> QED
      BY <1>1, <2>2, <2>5, <3>1
  <2>6. CASE c \in Blocks(f) /\ d \in Blocks(f)
    <3>1. /\ m \in DOMAIN Successors(f, c) /\ Successors(f, c)[m] = x
          /\ k \in DOMAIN Successors(f, d) /\ Successors(f, d)[k] = x
      BY <1>1, <1>3, <2>1, <2>6
    <3> QED
      BY <2>2, <2>6, <3>1
  <2> QED
    BY <1>1, <2>3, <2>4, <2>5, <2>6
<1>4. OneWayIn(g, new)
  <2>1. \A a \in Blocks(g) : \A j \in DOMAIN Successors(g, a) : Successors(g, a)[j] = new => a = b /\ j = n
    BY <1>1, <1>2
  <2> QED
    BY <2>1 DEF OneWayIn
<1>5. \A x \in Blocks(f) : OneWayIn(f, x) => OneWayIn(g, x)
  BY <1>3 DEF OneWayIn
<1> QED
  BY <1>4, <1>5

-----------------------------------------------------------------------------
(* g is f with some critical edges split, those of done among them *)

SplitSoFar(f, g, done) ==
    /\ Formed(g) /\ SameCalls(f, g)
    /\ Blocks(f) \subseteq Blocks(g) /\ Entry(g) = Entry(f)
    /\ \A b \in Blocks(g) : \A m \in DOMAIN Successors(g, b) : Successors(g, b)[m] # Entry(f)
    /\ \A b \in Blocks(g) \ Blocks(f) : Len(Successors(g, b)) = 1
    /\ \A t \in Blocks(g) : Len(g.preds[t]) >= 2 \/ OneWayIn(g, t)
    /\ \A e \in done : /\ e[1] \in Blocks(f)
                       /\ Len(Successors(g, e[1])) >= 2 /\ e[2] \in DOMAIN Successors(g, e[1]) =>
                            OneWayIn(g, Successors(g, e[1])[e[2]])

\* One more edge is done, whether it is critical or not.
LEMMA SplitsOneMore ==
    ASSUME NEW f, NEW g, NEW done, SplitSoFar(f, g, done), NEW e, e[1] \in Blocks(f)
    PROVE  SplitSoFar(f, IF CriticalEdge(g, e[1], e[2]) THEN SplitEdge(g, e[1], e[2]) ELSE g, done \cup {e})
<1> DEFINE b == e[1]
           n == e[2]
<1>1. /\ Formed(g) /\ SameCalls(f, g)
      /\ Blocks(f) \subseteq Blocks(g) /\ Entry(g) = Entry(f)
      /\ \A c \in Blocks(g) : \A m \in DOMAIN Successors(g, c) : Successors(g, c)[m] # Entry(f)
      /\ \A c \in Blocks(g) \ Blocks(f) : Len(Successors(g, c)) = 1
      /\ \A t \in Blocks(g) : Len(g.preds[t]) >= 2 \/ OneWayIn(g, t)
      /\ \A d \in done : /\ d[1] \in Blocks(f)
                         /\ Len(Successors(g, d[1])) >= 2 /\ d[2] \in DOMAIN Successors(g, d[1]) =>
                              OneWayIn(g, Successors(g, d[1])[d[2]])
  BY Zenon DEF SplitSoFar
<1>2. b \in Blocks(g)
  BY <1>1
<1>3. \A c \in Blocks(g) : Successors(g, c) \in Seq(Blocks(g)) /\ g.preds[c] \in Seq(Blocks(g))
  BY <1>1, FreshIs DEF Formed
<1>4. CASE ~CriticalEdge(g, b, n)
  <2>1. Len(Successors(g, b)) >= 2 /\ n \in DOMAIN Successors(g, b) => OneWayIn(g, Successors(g, b)[n])
    <3> SUFFICES ASSUME Len(Successors(g, b)) >= 2, n \in DOMAIN Successors(g, b)
                 PROVE  OneWayIn(g, Successors(g, b)[n])
      OBVIOUS
    <3>1. Successors(g, b)[n] \in Blocks(g)
      BY <1>2, <1>3
    <3>2. ~(Len(g.preds[Successors(g, b)[n]]) >= 2)
      BY <1>4 DEF CriticalEdge
    <3> QED
      BY <1>1, <3>1, <3>2
  <2>2. SplitSoFar(f, g, done \cup {e})
    <3>1. \A d \in done \cup {e} :
            /\ d[1] \in Blocks(f)
            /\ Len(Successors(g, d[1])) >= 2 /\ d[2] \in DOMAIN Successors(g, d[1]) =>
                 OneWayIn(g, Successors(g, d[1])[d[2]])
      BY <1>1, <2>1
    <3> QED
      BY <1>1, <3>1, Zenon DEF SplitSoFar
  <2> QED
    BY <1>4, <2>2
<1>5. CASE CriticalEdge(g, b, n)
  <2> DEFINE h == SplitEdge(g, b, n)
             t == Successors(g, b)[n]
             new == FreshBlock(g)
  <2>1. n \in DOMAIN Successors(g, b)
    BY <1>5, Zenon DEF CriticalEdge
  <2>2. Formed(h) /\ SameCalls(g, h) /\ SplitAt(g, h, b, n, t, new)
    BY <1>1, <1>2, <2>1, SplitEdgeIs, Zenon
  <2> HIDE DEF h, t, new, b, n
  <2>3. /\ new \in Nat \ Blocks(g) /\ t \in Blocks(g) /\ t = Successors(g, b)[n]
        /\ Blocks(h) = Blocks(g) \cup {new}
        /\ h.order = Append(g.order, new)
        /\ h.preds[new] = <<>>
        /\ \A c \in Blocks(g) : h.preds[c] = IF c = t THEN Append(g.preds[c], new) ELSE g.preds[c]
    BY <2>2 DEF SplitAt
  <2>4. /\ \A c \in Blocks(g) : /\ DOMAIN Successors(h, c) = DOMAIN Successors(g, c)
                                /\ Len(Successors(h, c)) = Len(Successors(g, c))
        /\ \A c \in Blocks(g) : \A m \in DOMAIN Successors(g, c) :
             Successors(h, c)[m] = IF c = b /\ m = n THEN new ELSE Successors(g, c)[m]
        /\ DOMAIN Successors(h, new) = {1} /\ Successors(h, new)[1] = t
        /\ \A c \in Blocks(g) : \A m \in DOMAIN Successors(g, c) : Successors(g, c)[m] \in Blocks(g)
    BY <1>1, <1>2, <2>1, <2>2, EdgesOfSplit
  <2>5. (\A x \in Blocks(g) : OneWayIn(g, x) => OneWayIn(h, x)) /\ OneWayIn(h, new)
    BY <1>1, <1>2, <2>1, <2>2, OneWayKept
  <2>6. SameCalls(f, h)
    BY <1>1, <2>2 DEF SameCalls
  <2>7. Entry(h) = Entry(f)
    <3>1. g.order \in Seq(Blocks(g)) /\ g.order # <<>>
      BY <1>1 DEF Formed
    <3> DEFINE s == g.order
               B == Blocks(g)
    <3>2. s \in Seq(B) /\ s # <<>> /\ h.order = Append(s, new)
      BY <2>3, <3>1
    <3> HIDE DEF s, B
    <3>3. Head(h.order) = Head(s)
      BY <3>2
    <3>4. Head(h.order) = Entry(h) /\ Head(s) = Entry(g)
      BY Zenon DEF Entry, s
    <3> QED
      BY <1>1, <3>3, <3>4
  <2>8. Entry(f) \in Blocks(g)
    BY <1>1, FreshIs
  <2>9. \A c \in Blocks(h) : \A m \in DOMAIN Successors(h, c) : Successors(h, c)[m] # Entry(f)
    BY <1>1, <1>2, <2>1, <2>3, <2>4, <2>8
  <2>10. \A c \in Blocks(h) \ Blocks(f) : Len(Successors(h, c)) = 1
    <3>1. Len(Successors(h, new)) = 1
      BY <2>2 DEF SplitAt
    <3> QED
      BY <1>1, <2>3, <2>4, <3>1
  <2>11. ASSUME NEW x \in Blocks(h) PROVE Len(h.preds[x]) >= 2 \/ OneWayIn(h, x)
    <3>1. CASE x = new
      BY <2>5, <3>1
    <3>2. CASE x \in Blocks(g)
      <4> DEFINE s == g.preds[x]
                 B == Blocks(g)
      <4>1. s \in Seq(B) /\ h.preds[x] = IF x = t THEN Append(s, new) ELSE s
        BY <1>3, <2>3, <3>2
      <4> HIDE DEF s, B
      <4>2. Len(s) >= 2 => Len(h.preds[x]) >= 2
        BY <4>1
      <4> QED
        BY <1>1, <2>5, <3>2, <4>2 DEF s
    <3> QED
      BY <2>3, <3>1, <3>2
  <2>12. ASSUME NEW d \in done \cup {e}
         PROVE  /\ d[1] \in Blocks(f)
                /\ Len(Successors(h, d[1])) >= 2 /\ d[2] \in DOMAIN Successors(h, d[1]) =>
                     OneWayIn(h, Successors(h, d[1])[d[2]])
    <3>1. d[1] \in Blocks(f) /\ d[1] \in Blocks(g)
      BY <1>1, <1>2
    <3> SUFFICES ASSUME Len(Successors(h, d[1])) >= 2, d[2] \in DOMAIN Successors(h, d[1])
                 PROVE  OneWayIn(h, Successors(h, d[1])[d[2]])
      BY <3>1
    <3>2. Len(Successors(g, d[1])) >= 2 /\ d[2] \in DOMAIN Successors(g, d[1])
      BY <2>4, <3>1
    <3>3. CASE d[1] = b /\ d[2] = n
      BY <2>4, <2>5, <3>1, <3>2, <3>3
    <3>4. CASE ~(d[1] = b /\ d[2] = n)
      <4>1. d \in done
        BY <3>4 DEF b, n
      <4>2. OneWayIn(g, Successors(g, d[1])[d[2]]) /\ Successors(g, d[1])[d[2]] \in Blocks(g)
        BY <1>1, <2>4, <3>1, <3>2, <4>1
      <4>3. Successors(h, d[1])[d[2]] = Successors(g, d[1])[d[2]]
        BY <2>4, <3>1, <3>2, <3>4
      <4> QED
        BY <2>5, <4>2, <4>3
    <3> QED
      BY <3>3, <3>4
  <2>13. SplitSoFar(f, h, done \cup {e})
    <3>1. Blocks(f) \subseteq Blocks(h)
      BY <1>1, <2>3
    <3> QED
      BY <2>2, <2>6, <2>7, <2>9, <2>10, <2>11, <2>12, <3>1, Zenon DEF SplitSoFar
  <2> QED
    BY <1>5, <2>13 DEF h, b, n
<1> QED
  BY <1>4, <1>5

\* r is g with the lists of predecessors put right: who leads to t, as often as it does
PutRight(g, r) ==
    /\ DOMAIN r = DOMAIN g /\ r.order = g.order /\ r.code = g.code /\ r.inst = g.inst
    /\ r.preds \in [Blocks(g) -> Seq(Blocks(g))]
    /\ \A t \in Blocks(g) :
         /\ \A p : p \in ToSet(r.preds[t]) <=> p \in Blocks(g) /\ t \in ToSet(Successors(g, p))
         /\ OneWayIn(g, t) \/ \E l, m \in 1 .. Len(r.preds[t]) : l # m

\* recomputePredecessors puts them right.
LEMMA RecomputedPreds ==
    ASSUME NEW g, Formed(g)
    PROVE  PutRight(g, RecomputePredecessors(g))
<1> DEFINE B == Blocks(g)
           Ways(b, t) == {k \in DOMAIN Successors(g, b) : Successors(g, b)[k] = t}
           edges(b, t) == [e \in 1 .. Cardinality(Ways(b, t)) |-> b]
           s(t) == [k \in DOMAIN g.order |-> edges(g.order[k], t)]
           P == [t \in Blocks(g) |-> FlattenSeq(s(t))]
           r == RecomputePredecessors(g)
           n == Len(g.order)
<1>1. r = [g EXCEPT !.preds = P]
  BY Zenon DEF RecomputePredecessors
<1>2. /\ {"order", "code", "inst", "preds"} \subseteq DOMAIN g
      /\ g.order \in Seq(B) /\ g.order # <<>> /\ ToSet(g.order) = B /\ IsInjective(g.order)
      /\ \A b \in B : Successors(g, b) \in Seq(B)
  BY FreshIs, Zenon DEF Formed
<1> HIDE DEF P, r
<1>3. /\ DOMAIN r = DOMAIN g /\ r.order = g.order /\ r.code = g.code /\ r.inst = g.inst
      /\ r.preds = P
  BY <1>1, <1>2
<1>4. /\ n \in Nat \ {0} /\ DOMAIN g.order = 1 .. n /\ B = {g.order[i] : i \in 1 .. n}
      /\ \A i \in 1 .. n : g.order[i] \in B
      /\ \A i, j \in 1 .. n : g.order[i] = g.order[j] => i = j
  <2> DEFINE q == g.order
  <2>1. q \in Seq(B) /\ q # <<>> /\ ToSet(q) = B /\ IsInjective(q)
    BY <1>2
  <2> HIDE DEF B, q
  <2>2. DOMAIN q = 1 .. Len(q) /\ Len(q) \in Nat \ {0}
    BY <2>1
  <2>3. B = {q[k] : k \in 1 .. Len(q)} /\ \A k, l \in 1 .. Len(q) : q[k] = q[l] => k = l
    BY <2>1, <2>2 DEF ToSet, IsInjective
  <2> QED
    BY <2>2, <2>3 DEF q
<1>5. ASSUME NEW b \in B, NEW t \in B
      PROVE  /\ Cardinality(Ways(b, t)) \in Nat
             /\ (\E k \in Ways(b, t) : TRUE) <=> Cardinality(Ways(b, t)) >= 1
             /\ \A k, l \in Ways(b, t) : k # l => Cardinality(Ways(b, t)) >= 2
             /\ t \in ToSet(Successors(g, b)) <=> \E k \in Ways(b, t) : TRUE
  <2> DEFINE q == Successors(g, b)
             T == Ways(b, t)
  <2>1. q \in Seq(B)
    BY <1>2
  <2> HIDE DEF B
  <2>2. DOMAIN q = 1 .. Len(q) /\ Len(q) \in Nat
    BY <2>1
  <2>3. IsFiniteSet(T)
    <3>1. T \in SUBSET (1 .. Len(q))
      BY <2>2
    <3>2. IsFiniteSet(1 .. Len(q))
      BY <2>2, FS_Interval
    <3> QED
      BY <3>1, <3>2, FS_Subset
  <2>4. t \in ToSet(q) <=> \E k \in T : TRUE
    BY DEF ToSet
  <2> HIDE DEF T, q
  <2>5. Cardinality(T) \in Nat /\ (Cardinality(T) = 0 <=> T = {})
    BY <2>3, FS_CardinalityType, FS_EmptySet
  <2>6. ASSUME NEW k \in T, NEW l \in T, k # l PROVE Cardinality(T) >= 2
    <3>1. Cardinality(T) # 1
      BY <2>3, <2>6, FS_Singleton
    <3> QED
      BY <2>5, <3>1
  <2> QED
    BY <2>4, <2>5, <2>6 DEF T, q
<1>6. ASSUME NEW t \in B PROVE s(t) \in [1 .. n -> Seq(B)]
  <2>1. ASSUME NEW k \in 1 .. n PROVE edges(g.order[k], t) \in Seq(B)
    <3>1. g.order[k] \in B
      BY <1>4
    <3>2. Cardinality(Ways(g.order[k], t)) \in Nat
      BY <1>5, <3>1
    <3> DEFINE c == Cardinality(Ways(g.order[k], t))
               b == g.order[k]
    <3> HIDE DEF c, b, B
    <3>3. [e \in 1 .. c |-> b] \in Seq(B)
      BY <3>1, <3>2 DEF c, b
    <3> QED
      BY <3>3 DEF c, b
  <2> HIDE DEF B, edges
  <2> QED
    BY <1>4, <2>1
<1>7. ASSUME NEW t \in B, NEW k \in 1 .. n
      PROVE  /\ s(t)[k] = edges(g.order[k], t) /\ g.order[k] \in B
             /\ Len(s(t)[k]) = Cardinality(Ways(g.order[k], t))
             /\ Cardinality(Ways(g.order[k], t)) \in Nat
             /\ \A e \in 1 .. Len(s(t)[k]) : s(t)[k][e] = g.order[k]
             /\ ToSet(s(t)[k]) = {s(t)[k][e] : e \in 1 .. Len(s(t)[k])}
  <2>1. s(t)[k] = edges(g.order[k], t) /\ g.order[k] \in B
    BY <1>4
  <2>2. Cardinality(Ways(g.order[k], t)) \in Nat
    BY <1>5, <2>1
  <2> DEFINE c == Cardinality(Ways(g.order[k], t))
             b == g.order[k]
             q == [e \in 1 .. c |-> b]
  <2> HIDE DEF c, b
  <2>3. Len(q) = c /\ DOMAIN q = 1 .. c /\ \A e \in 1 .. c : q[e] = b
    BY <2>2 DEF c
  <2>4. ToSet(q) = {q[e] : e \in 1 .. Len(q)}
    BY <2>3 DEF ToSet
  <2>5. s(t)[k] = q
    BY <2>1 DEF c, b
  <2> HIDE DEF q, s, edges, Ways
  <2> QED
    BY <2>1, <2>2, <2>3, <2>4, <2>5 DEF c, b, s
<1> HIDE DEF s, edges, B, n
<1>8. ASSUME NEW t \in B
      PROVE  /\ P[t] = FlattenSeq(s(t)) /\ P[t] \in Seq(B)
             /\ \A x : x \in ToSet(P[t]) <=> \E i \in 1 .. n : x \in ToSet(s(t)[i])
             /\ \A i \in 1 .. n : \A j, k \in 1 .. Len(s(t)[i]) : j # k =>
                   \E l, m \in 1 .. Len(P[t]) : l # m /\ P[t][l] = s(t)[i][j] /\ P[t][m] = s(t)[i][k]
  <2>1. P[t] = FlattenSeq(s(t))
    BY DEF P, B
  <2> DEFINE q == s(t)
             r0 == FlattenSeq(q)
  <2>2. q \in [1 .. n -> Seq(B)] /\ n \in Nat \ {0}
    BY <1>4, <1>6
  <2> HIDE DEF q, Ways
  <2>3. r0 \in Seq(B) /\ IsFlat(r0, q, n)
    BY <2>2, FlattenIs
  <2>4. P[t] \in Seq(B) /\ IsFlat(P[t], s(t), n)
    BY <2>1, <2>3, Zenon DEF q
  <2> QED
    BY <2>1, <2>4, Zenon DEF IsFlat
<1>9. P \in [B -> Seq(B)]
  <2>1. DOMAIN P = B /\ P = [t \in B |-> P[t]]
    BY DEF P, B
  <2>2. \A t \in B : P[t] \in Seq(B)
    BY <1>8
  <2> QED
    BY <2>1, <2>2
<1> HIDE DEF Ways
<1>10. ASSUME NEW t \in B, NEW p PROVE p \in ToSet(P[t]) <=> p \in B /\ t \in ToSet(Successors(g, p))
  <2>1. ASSUME p \in ToSet(P[t]) PROVE p \in B /\ t \in ToSet(Successors(g, p))
    <3>1. PICK i \in 1 .. n : p \in ToSet(s(t)[i])
      BY <1>8, <2>1
    <3>5. ToSet(s(t)[i]) = {s(t)[i][e] : e \in 1 .. Len(s(t)[i])}
      BY <1>7
    <3>3. PICK e \in 1 .. Len(s(t)[i]) : p = s(t)[i][e]
      BY <3>1, <3>5, Zenon
    <3>4. p = g.order[i] /\ p \in B /\ Len(s(t)[i]) = Cardinality(Ways(p, t)) /\ Cardinality(Ways(p, t)) \in Nat
      BY <1>7, <3>3
    <3>2. Cardinality(Ways(p, t)) >= 1
      BY <3>3, <3>4
    <3> QED
      BY <1>5, <3>2, <3>4
  <2>2. ASSUME p \in B, t \in ToSet(Successors(g, p)) PROVE p \in ToSet(P[t])
    <3>1. PICK i \in 1 .. n : p = g.order[i]
      BY <1>4, <2>2
    <3>2. Cardinality(Ways(p, t)) >= 1
      BY <1>5, <2>2
    <3>3. 1 \in 1 .. Len(s(t)[i]) /\ s(t)[i][1] = p
      BY <1>7, <3>1, <3>2
    <3>4. p \in ToSet(s(t)[i])
      BY <1>7, <3>3
    <3> QED
      BY <1>8, <3>4
  <2> QED
    BY <2>1, <2>2
<1>11. ASSUME NEW t \in B, ~OneWayIn(g, t) PROVE \E l, m \in 1 .. Len(P[t]) : l # m
  <2>1. PICK b \in B, c \in B : \E m \in DOMAIN Successors(g, b) : \E k \in DOMAIN Successors(g, c) :
               /\ Successors(g, b)[m] = t /\ Successors(g, c)[k] = t /\ ~(b = c /\ m = k)
    BY <1>11, Zenon DEF OneWayIn, B
  <2>2. PICK m \in DOMAIN Successors(g, b), k \in DOMAIN Successors(g, c) :
               /\ Successors(g, b)[m] = t /\ Successors(g, c)[k] = t /\ ~(b = c /\ m = k)
    BY <2>1
  <2>3. CASE b = c
    <3>1. m \in Ways(b, t) /\ k \in Ways(b, t) /\ m # k
      BY <2>2, <2>3 DEF Ways
    <3>2. Cardinality(Ways(b, t)) >= 2
      BY <1>5, <3>1
    <3>3. PICK i \in 1 .. n : b = g.order[i]
      BY <1>4
    <3>4. 1 \in 1 .. Len(s(t)[i]) /\ 2 \in 1 .. Len(s(t)[i])
      BY <1>7, <3>2, <3>3
    <3>5. 1 # 2
      OBVIOUS
    <3> QED
      BY <1>8, <3>4, <3>5
  <2>4. CASE b # c
    <3>1. b \in ToSet(P[t]) /\ c \in ToSet(P[t])
      BY <1>10, <2>2 DEF ToSet
    <3>2. DOMAIN P[t] = 1 .. Len(P[t])
      BY <1>8
    <3> QED
      BY <2>4, <3>1, <3>2 DEF ToSet
  <2> QED
    BY <2>3, <2>4
<1> QED
  BY <1>3, <1>9, <1>10, <1>11, Zenon DEF B, r, PutRight

\* What a sequence has are finitely many.
LEMMA FinitelyMany ==
    ASSUME NEW X, NEW s \in Seq(X)
    PROVE  IsFiniteSet(ToSet(s))
<1> DEFINE D == 1 .. Len(s)
           T == ToSet(s)
<1>1. DOMAIN s = D /\ Len(s) \in Nat /\ s = [i \in D |-> s[i]]
  OBVIOUS
<1>2. IsFiniteSet(D)
  <2>1. Len(s) \in Nat
    OBVIOUS
  <2> QED
    BY <2>1, FS_Interval
<1>3. T = {s[i] : i \in D}
  BY <1>1 DEF ToSet
<1> HIDE DEF D, T
<1>4. s \in Surjection(D, T)
  BY <1>1, <1>3 DEF Surjection
<1> QED
  BY <1>2, <1>4, FS_Surjection DEF T

\* Lists that count alike have two places alike.
LEMMA SameBag ==
    ASSUME NEW X, NEW s \in Seq(X), NEW t \in Seq(X), ToBag(s) = ToBag(t)
    PROVE  /\ t = <<>> \/ s # <<>>
           /\ (\E l, m \in 1 .. Len(t) : l # m) => Len(s) >= 2
<1>1. /\ DOMAIN s = 1 .. Len(s) /\ Len(s) \in Nat /\ DOMAIN t = 1 .. Len(t) /\ Len(t) \in Nat
      /\ (s = <<>> <=> Len(s) = 0) /\ (t = <<>> <=> Len(t) = 0)
  OBVIOUS
<1> DEFINE at(r, x) == {i \in DOMAIN r : r[i] = x}
<1>2. /\ Range(s) = Range(t)
      /\ \A x \in Range(s) : Cardinality(at(s, x)) = Cardinality(at(t, x))
  <2>1. ToBag(s) = [x \in Range(s) |-> Cardinality(at(s, x))]
    BY Zenon DEF ToBag
  <2>2. ToBag(t) = [x \in Range(t) |-> Cardinality(at(t, x))]
    BY Zenon DEF ToBag
  <2> HIDE DEF at
  <2>3. Range(s) = Range(t)
    BY <2>1, <2>2
  <2> QED
    BY <2>1, <2>2, <2>3
<1>3. Range(s) = {s[i] : i \in 1 .. Len(s)} /\ Range(t) = {t[i] : i \in 1 .. Len(t)}
  BY <1>1 DEF Range
<1>4. \A r \in Seq(X) : \A x : IsFiniteSet(at(r, x))
  <2> SUFFICES ASSUME NEW r \in Seq(X), NEW x PROVE IsFiniteSet(at(r, x))
    OBVIOUS
  <2>1. IsFiniteSet(1 .. Len(r)) /\ at(r, x) \in SUBSET (1 .. Len(r))
    BY FS_Interval
  <2> QED
    BY <2>1, FS_Subset
<1>5. ASSUME NEW l \in 1 .. Len(t), NEW m \in 1 .. Len(t), l # m, Len(s) = 1 PROVE FALSE
  <2>1. t[l] = s[1] /\ t[m] = s[1] /\ s[1] \in Range(s)
    <3>1. Range(s) = {s[1]}
      <4>1. 1 .. Len(s) = {1}
        BY <1>5
      <4> QED
        BY <1>3, <4>1
    <3>2. t[l] \in Range(s) /\ t[m] \in Range(s)
      BY <1>2, <1>3
    <3> QED
      BY <3>1, <3>2
  <2>2. at(s, s[1]) = {1}
    BY <1>1, <1>5
  <2>3. Cardinality(at(t, s[1])) = 1
    BY <1>2, <2>1, <2>2, FS_Singleton
  <2>4. \E x : at(t, s[1]) = {x}
    BY <1>4, <2>3, FS_Singleton, ZenonT(40)
  <2>5. l \in at(t, s[1]) /\ m \in at(t, s[1])
    BY <1>1, <2>1
  <2> QED
    BY <1>5, <2>4, <2>5
<1>6. t # <<>> => s # <<>>
  <2> SUFFICES ASSUME t # <<>> PROVE Len(s) # 0
    BY <1>1
  <2>1. 1 \in 1 .. Len(t)
    BY <1>1
  <2>2. t[1] \in Range(s)
    BY <1>2, <1>3, <2>1
  <2>3. PICK i \in 1 .. Len(s) : t[1] = s[i]
    BY <1>3, <2>2
  <2> QED
    BY <1>1, <2>3
<1>7. ASSUME NEW l \in 1 .. Len(t), NEW m \in 1 .. Len(t), l # m PROVE Len(s) >= 2
  BY <1>1, <1>5, <1>6, <1>7
<1> QED
  BY <1>6, <1>7

\* Before the first split a block with several edges in has as many predecessors, and the
\* entry none.
LEMMA NothingSplit ==
    ASSUME NEW f, NEW p, IsPart(f, p)
    PROVE  SplitSoFar(f, f, {})
<1>1. /\ IsFunction(f) /\ WellStructured(f) /\ PredecessorsInSync(f)
      /\ {"order", "code", "inst", "preds"} \subseteq DOMAIN f
      /\ Blocks(f) \in SUBSET Nat /\ DOMAIN f.inst \in SUBSET Nat
      /\ \A i \in DOMAIN f.inst : IsInst(f.inst[i])
  BY DEF IsPart, IsInst
<1>2. /\ f.order \in Seq(Blocks(f)) /\ f.order # <<>> /\ ToSet(f.order) = Blocks(f) /\ IsInjective(f.order)
      /\ f.code \in [Blocks(f) -> Seq(DOMAIN f.inst)]
      /\ f.preds \in [Blocks(f) -> Seq(Blocks(f))]
      /\ \A b, c \in Blocks(f) : ToSet(f.code[b]) \cap ToSet(f.code[c]) # {} => b = c
      /\ IsFiniteSet(DOMAIN f.inst)
      /\ \A i \in DOMAIN f.inst : f.inst[i].to \in Seq(Blocks(f))
  BY <1>1, Zenon DEF IsFunction
<1>3. /\ f.preds[Entry(f)] = <<>>
      /\ \A b \in Blocks(f) : HasTerminator(f, b)
  BY <1>1, Zenon DEF WellStructured
<1>4. IsFiniteSet(Blocks(f))
  BY <1>2, FinitelyMany
<1>5. ASSUME NEW b \in Blocks(f)
      PROVE  /\ f.code[b] # <<>> /\ f.code[b] \in Seq(DOMAIN f.inst)
             /\ Last(f.code[b]) \in DOMAIN f.inst /\ Last(f.code[b]) \in ToSet(f.code[b])
  <2> DEFINE s == f.code[b]
             I == DOMAIN f.inst
  <2>1. s \in Seq(I) /\ s # <<>>
    BY <1>2, <1>3 DEF HasTerminator
  <2> HIDE DEF s, I
  <2>2. Last(s) \in I /\ Last(s) \in ToSet(s)
    BY <2>1 DEF Last, ToSet
  <2> QED
    BY <2>1, <2>2 DEF s, I
<1>6. \A b, c \in Blocks(f) : Last(f.code[b]) = Last(f.code[c]) => b = c
  BY <1>2, <1>5
<1>7. \A b \in Blocks(f) : Terminator(f, b).to \in Seq(Blocks(f))
  BY <1>2, <1>5 DEF Terminator
<1>8. Formed(f)
  BY <1>1, <1>2, <1>3, <1>4, <1>6, <1>7, Zenon DEF Formed
<1> DEFINE r == RecomputePredecessors(f)
<1>9. /\ r.preds \in [Blocks(f) -> Seq(Blocks(f))]
      /\ \A t \in Blocks(f) :
           /\ \A q : q \in ToSet(r.preds[t]) <=> q \in Blocks(f) /\ t \in ToSet(Successors(f, q))
           /\ OneWayIn(f, t) \/ \E l, m \in 1 .. Len(r.preds[t]) : l # m
  <2>1. PutRight(f, r)
    BY <1>8, RecomputedPreds
  <2> HIDE DEF r
  <2> QED
    BY <2>1 DEF PutRight
<1>10. \A t \in Blocks(f) : ToBag(f.preds[t]) = ToBag(r.preds[t])
  BY <1>1, Zenon DEF PredecessorsInSync
<1>11. Entry(f) \in Blocks(f)
  BY <1>8, FreshIs
<1> HIDE DEF r
<1>12. \A t \in Blocks(f) : f.preds[t] \in Seq(Blocks(f)) /\ r.preds[t] \in Seq(Blocks(f))
  BY <1>2, <1>9
<1>13. ASSUME NEW b \in Blocks(f), NEW m \in DOMAIN Successors(f, b), Successors(f, b)[m] = Entry(f)
       PROVE  FALSE
  <2>1. Entry(f) \in ToSet(Successors(f, b))
    BY <1>13 DEF ToSet
  <2>2. b \in ToSet(r.preds[Entry(f)])
    BY <1>9, <1>11, <2>1
  <2>3. r.preds[Entry(f)] = <<>>
    BY <1>3, <1>10, <1>11, <1>12, SameBag
  <2> QED
    BY <2>2, <2>3 DEF ToSet
<1>14. ASSUME NEW t \in Blocks(f) PROVE Len(f.preds[t]) >= 2 \/ OneWayIn(f, t)
  BY <1>9, <1>10, <1>12, SameBag
<1>15. SameCalls(f, f)
  BY DEF SameCalls
<1> QED
  BY <1>8, <1>13, <1>14, <1>15 DEF SplitSoFar

\* One round of splitCriticalEdges
SplitOne(g, e) == IF CriticalEdge(g, e[1], e[2]) THEN SplitEdge(g, e[1], e[2]) ELSE g

\* M is f with its critical edges split and the lists of predecessors put right
Instrumented(f, M) ==
    /\ Formed(M) /\ SameCalls(f, M)
    /\ Blocks(f) \subseteq Blocks(M) /\ Entry(M) = Entry(f)
    /\ \A b \in Blocks(M) : \A m \in DOMAIN Successors(M, b) : Successors(M, b)[m] # Entry(f)
    /\ \A b \in Blocks(M) : Len(Successors(M, b)) = 2 =>
         OneWayIn(M, Successors(M, b)[1]) /\ OneWayIn(M, Successors(M, b)[2])
    /\ \A h \in Blocks(M) : \A p \in ToSet(M.preds[h]) : p \in Blocks(M) /\ h \in ToSet(Successors(M, p))

\* h is what the first rounds of a loop over the edges e leave
SplitRounds(f, n, e, h) == h = [i \in 0 .. n |-> IF i = 0 THEN f ELSE SplitOne(h[i - 1], e[i])]

\* The loop over the edges is one: there is a function for the recursion.
LEMMA RoundsOfSplits ==
    ASSUME NEW f, NEW n \in Nat, NEW e
    PROVE  \E h : SplitRounds(f, n, e, h)
<1> DEFINE Upto(k, h) == DOMAIN h = 0 .. k /\ h[0] = f /\ \A i \in 1 .. k : h[i] = SplitOne(h[i - 1], e[i])
           S == {k \in 0 .. n : \E h : h = [i \in DOMAIN h |-> h[i]] /\ Upto(k, h)}
<1>1. 0 \in S
  <2> DEFINE h == [i \in 0 .. 0 |-> f]
  <2>1. h = [i \in DOMAIN h |-> h[i]] /\ DOMAIN h = 0 .. 0 /\ h[0] = f /\ 1 .. 0 = {} /\ 0 \in 0 .. n
    OBVIOUS
  <2>2. Upto(0, h)
    BY <2>1
  <2> HIDE DEF h, Upto
  <2> QED
    BY <2>1, <2>2
<1>2. ASSUME NEW k \in 1 .. n, k - 1 \in S PROVE k \in S
  <2>1. PICK h : h = [i \in DOMAIN h |-> h[i]] /\ Upto(k - 1, h)
    BY <1>2
  <2> DEFINE g == [i \in 0 .. k |-> IF i = k THEN SplitOne(h[k - 1], e[k]) ELSE h[i]]
  <2>2. DOMAIN g = 0 .. k /\ g = [i \in DOMAIN g |-> g[i]] /\ g[k] = SplitOne(h[k - 1], e[k])
        /\ \A i \in 0 .. k - 1 : g[i] = h[i]
    OBVIOUS
  <2> HIDE DEF g
  <2>3. Upto(k, g)
    <3>1. g[0] = f
      BY <2>1, <2>2
    <3>2. ASSUME NEW i \in 1 .. k PROVE g[i] = SplitOne(g[i - 1], e[i])
      <4>1. g[i - 1] = h[i - 1]
        BY <2>2
      <4>2. CASE i = k
        BY <2>2, <4>1, <4>2
      <4>3. CASE i # k
        <5>1. i \in 1 .. k - 1 /\ i \in 0 .. k - 1
          BY <4>3
        <5> QED
          BY <2>1, <2>2, <4>1, <5>1
      <4> QED
        BY <4>2, <4>3
    <3> QED
      BY <2>2, <3>1, <3>2
  <2> HIDE DEF Upto
  <2> QED
    BY <2>2, <2>3
<1>3. PICK h : h = [i \in DOMAIN h |-> h[i]] /\ Upto(n, h)
  <2>1. n \in 0 .. n
    OBVIOUS
  <2>2. n \in S
    <3> HIDE DEF S
    <3> QED
      BY <1>1, <1>2, <2>1, Rounds
  <2> QED
    BY <2>2
<1>4. h = [i \in 0 .. n |-> IF i = 0 THEN f ELSE SplitOne(h[i - 1], e[i])]
  <2>1. \A i \in 0 .. n : h[i] = IF i = 0 THEN f ELSE SplitOne(h[i - 1], e[i])
    BY <1>3
  <2>2. DOMAIN h = 0 .. n /\ h = [i \in DOMAIN h |-> h[i]]
    BY <1>3
  <2> QED
    BY <2>1, <2>2
<1> QED
  BY <1>4, Zenon DEF SplitRounds

\* splitCriticalEdges goes through both edges of every block there was.
LEMMA SplitsAreRounds ==
    ASSUME NEW f, NEW e \in Seq(Blocks(f) \X {1, 2}),
           e = FlattenSeq([k \in DOMAIN f.order |-> <<<<f.order[k], 1>>, <<f.order[k], 2>>>>])
    PROVE  \E h : /\ h[0] = f /\ \A i \in 1 .. Len(e) : h[i] = SplitOne(h[i - 1], e[i])
                  /\ SplitCriticalEdges(f) = RecomputePredecessors(h[Len(e)])
<1> DEFINE E == FlattenSeq([k \in DOMAIN f.order |-> <<<<f.order[k], 1>>, <<f.order[k], 2>>>>])
           size == Len(E)
           upTo[n \in 0 .. size] == IF n = 0 THEN f
                                 ELSE CHOOSE r \in {SplitOne(prefix, E[n]) : prefix \in {upTo[n - 1]}} : TRUE
<1>1. SplitCriticalEdges(f) = RecomputePredecessors(upTo[size])
  BY Zenon DEF SplitCriticalEdges, PrefixByPrefix, SplitOne
<1>2. E = e /\ size \in Nat
  OBVIOUS
<1>3. \A x, y : (CHOOSE r \in {SplitOne(prefix, y) : prefix \in {x}} : TRUE) = SplitOne(x, y)
  OBVIOUS
<1> HIDE DEF size, E, upTo
<1>4. PICK h : SplitRounds(f, size, E, h)
  <2>1. size \in Nat
    BY <1>2
  <2> QED
    BY <2>1, RoundsOfSplits
<1>5. h = [n \in 0 .. size |-> IF n = 0 THEN f
                            ELSE CHOOSE r \in {SplitOne(prefix, E[n]) : prefix \in {h[n - 1]}} : TRUE]
  <2>1. \A n \in 0 .. size : (IF n = 0 THEN f ELSE SplitOne(h[n - 1], E[n])) =
              IF n = 0 THEN f ELSE CHOOSE r \in {SplitOne(prefix, E[n]) : prefix \in {h[n - 1]}} : TRUE
    BY <1>3, Zenon
  <2> DEFINE a(n) == IF n = 0 THEN f ELSE SplitOne(h[n - 1], E[n])
             c(n) == IF n = 0 THEN f ELSE CHOOSE r \in {SplitOne(prefix, E[n]) : prefix \in {h[n - 1]}} : TRUE
  <2>2. h = [n \in 0 .. size |-> a(n)] /\ \A n \in 0 .. size : a(n) = c(n)
    BY <1>4, <2>1, Zenon DEF SplitRounds
  <2> HIDE DEF a, c
  <2>3. h = [n \in 0 .. size |-> c(n)]
    BY <2>2
  <2> QED
    BY <2>3, Zenon DEF c
<1> USE DEF upTo
<1>6. upTo = [n \in 0 .. size |-> IF n = 0 THEN f
                               ELSE CHOOSE r \in {SplitOne(prefix, E[n]) : prefix \in {upTo[n - 1]}} : TRUE]
  BY <1>5, Zenon
<1> HIDE DEF upTo
<1>7. upTo[0] = f /\ \A i \in 1 .. size : upTo[i] = SplitOne(upTo[i - 1], E[i])
  <2> DEFINE c(n) == CHOOSE r \in {SplitOne(prefix, E[n]) : prefix \in {upTo[n - 1]}} : TRUE
  <2>1. upTo = [n \in 0 .. size |-> IF n = 0 THEN f ELSE c(n)]
    BY <1>6, Zenon
  <2>2. \A i \in 1 .. size : c(i) = SplitOne(upTo[i - 1], E[i])
    BY <1>3
  <2> HIDE DEF c
  <2>3. 0 \in 0 .. size /\ \A i \in 1 .. size : i \in 0 .. size /\ i # 0
    BY <1>2
  <2>4. \A i \in 0 .. size : upTo[i] = IF i = 0 THEN f ELSE c(i)
    BY <2>1, Zenon
  <2> QED
    BY <2>2, <2>3, <2>4
<1> QED
  BY <1>1, <1>2, <1>7 DEF size

\* After splitCriticalEdges each side of a branch has no other way in, no edge leads to
\* the entry, and the lists of predecessors tell where control comes from.
THEOREM SplitsAll ==
    ASSUME NEW f, NEW p, IsPart(f, p)
    PROVE  Instrumented(f, SplitCriticalEdges(f))
<1> DEFINE B == Blocks(f)
           q == [k \in DOMAIN f.order |-> <<<<f.order[k], 1>>, <<f.order[k], 2>>>>]
           e == FlattenSeq(q)
           n == Len(f.order)
<1>1. SplitSoFar(f, f, {})
  BY NothingSplit
<1>2. f.order \in Seq(B) /\ f.order # <<>> /\ ToSet(f.order) = B
  BY <1>1 DEF SplitSoFar, Formed
<1>3. n \in Nat \ {0} /\ DOMAIN f.order = 1 .. n /\ B = {f.order[k] : k \in 1 .. n}
      /\ \A k \in 1 .. n : f.order[k] \in B
  <2> DEFINE o == f.order
  <2>1. o \in Seq(B) /\ o # <<>> /\ ToSet(o) = B
    BY <1>2
  <2> HIDE DEF B, o
  <2>2. DOMAIN o = 1 .. Len(o) /\ Len(o) \in Nat \ {0} /\ \A k \in 1 .. Len(o) : o[k] \in B
    BY <2>1
  <2>3. B = {o[k] : k \in 1 .. Len(o)}
    BY <2>1, <2>2 DEF ToSet
  <2> QED
    BY <2>2, <2>3 DEF o
<1> DEFINE X == B \X {1, 2}
<1>4. /\ q \in [1 .. n -> Seq(X)]
      /\ \A k \in 1 .. n : ToSet(q[k]) = {<<f.order[k], 1>>, <<f.order[k], 2>>}
  <2>1. \A b \in B : <<<<b, 1>>, <<b, 2>>>> \in Seq(X)
    <3> SUFFICES ASSUME NEW b \in B PROVE <<<<b, 1>>, <<b, 2>>>> \in Seq(X)
      OBVIOUS
    <3>1. <<b, 1>> \in X /\ <<b, 2>> \in X
      OBVIOUS
    <3> HIDE DEF X
    <3> QED
      BY <3>1
  <2>2. \A x, y : ToSet(<<x, y>>) = {x, y}
    <3> SUFFICES ASSUME NEW x, NEW y PROVE ToSet(<<x, y>>) = {x, y}
      OBVIOUS
    <3>1. DOMAIN <<x, y>> = {1, 2} /\ <<x, y>>[1] = x /\ <<x, y>>[2] = y
      OBVIOUS
    <3> QED
      BY <3>1 DEF ToSet
  <2>3. q = [k \in 1 .. n |-> <<<<f.order[k], 1>>, <<f.order[k], 2>>>>]
    BY <1>3
  <2> HIDE DEF q, n, B, X
  <2>4. \A k \in 1 .. n : q[k] = <<<<f.order[k], 1>>, <<f.order[k], 2>>>> /\ q[k] \in Seq(X)
    BY <1>3, <2>1, <2>3
  <2> QED
    BY <2>2, <2>3, <2>4
<1>5. e \in Seq(X) /\ IsFlat(e, q, n)
  <2> HIDE DEF q, n, B, X
  <2> QED
    BY <1>3, <1>4, FlattenIs
<1>6. ASSUME NEW b \in B PROVE <<b, 1>> \in ToSet(e) /\ <<b, 2>> \in ToSet(e)
  <2>1. \A x : x \in ToSet(e) <=> \E k \in 1 .. n : x \in {<<f.order[k], 1>>, <<f.order[k], 2>>}
    <3> HIDE DEF q, n, e
    <3> QED
      BY <1>4, <1>5 DEF IsFlat
  <2>2. PICK k \in 1 .. n : b = f.order[k]
    BY <1>3
  <2> HIDE DEF q, n, B, e
  <2> QED
    BY <2>1, <2>2
<1>7. e \in Seq(Blocks(f) \X {1, 2})
  BY <1>5
<1>8. PICK h : /\ h[0] = f /\ \A i \in 1 .. Len(e) : h[i] = SplitOne(h[i - 1], e[i])
               /\ SplitCriticalEdges(f) = RecomputePredecessors(h[Len(e)])
  BY <1>7, SplitsAreRounds
<1>9. Len(e) \in Nat /\ DOMAIN e = 1 .. Len(e) /\ \A i \in 1 .. Len(e) : e[i] \in X
  <2> HIDE DEF X, e
  <2> QED
    BY <1>5
<1> HIDE DEF e
<1> DEFINE done(i) == {e[j] : j \in 1 .. i}
           S == {i \in 0 .. Len(e) : SplitSoFar(f, h[i], done(i))}
<1>10. \A i \in 0 .. Len(e) : i \in S
  <2>1. 0 \in S
    <3>1. done(0) = {}
      OBVIOUS
    <3> HIDE DEF done
    <3>2. 0 \in 0 .. Len(e)
      BY <1>9
    <3> QED
      BY <1>1, <1>8, <3>1, <3>2
  <2>2. ASSUME NEW i \in 1 .. Len(e), i - 1 \in S PROVE i \in S
    <3>1. e[i][1] \in Blocks(f)
      BY <1>9
    <3>2. done(i) = done(i - 1) \cup {e[i]}
      <4>1. 1 .. i = 1 .. (i - 1) \cup {i}
        OBVIOUS
      <4> QED
        BY <4>1
    <3> HIDE DEF done
    <3>3. SplitSoFar(f, SplitOne(h[i - 1], e[i]), done(i - 1) \cup {e[i]})
      BY <2>2, <3>1, SplitsOneMore DEF SplitOne
    <3>4. i \in 0 .. Len(e) /\ h[i] = SplitOne(h[i - 1], e[i])
      BY <1>8, <1>9
    <3> QED
      BY <3>2, <3>3, <3>4
  <2> HIDE DEF S
  <2> QED
    BY <1>9, <2>1, <2>2, Rounds
<1> DEFINE g == h[Len(e)]
           M == RecomputePredecessors(g)
<1>11. SplitSoFar(f, g, ToSet(e))
  <2>3. Len(e) \in 0 .. Len(e)
    BY <1>9
  <2>1. Len(e) \in S
    <3> HIDE DEF S
    <3> QED
      BY <1>10, <2>3
  <2>2. done(Len(e)) = ToSet(e)
    BY <1>9 DEF ToSet
  <2> QED
    BY <2>1, <2>2
<1> HIDE DEF g
<1>12. PutRight(g, M)
  BY <1>11, RecomputedPreds DEF SplitSoFar
<1> HIDE DEF M
<1>13. /\ Blocks(M) = Blocks(g) /\ Entry(M) = Entry(g) /\ M.order = g.order /\ M.code = g.code /\ M.inst = g.inst
       /\ {"order", "code", "inst", "preds"} \subseteq DOMAIN M
       /\ M.preds \in [Blocks(g) -> Seq(Blocks(g))]
       /\ \A t \in Blocks(g) : \A x : x \in ToSet(M.preds[t]) <=> x \in Blocks(g) /\ t \in ToSet(Successors(g, x))
  BY <1>11, <1>12 DEF PutRight, Blocks, Entry, SplitSoFar, Formed
<1>14. \A b : /\ Successors(M, b) = Successors(g, b) /\ Terminator(M, b) = Terminator(g, b)
              /\ HasTerminator(M, b) = HasTerminator(g, b)
  BY <1>13 DEF Successors, Terminator, HasTerminator
<1>15. Formed(M)
  <2>1. Formed(g)
    BY <1>11, Zenon DEF SplitSoFar
  <2> QED
    BY <2>1, <1>13, <1>14 DEF Formed
<1>16. \A t : OneWayIn(g, t) => OneWayIn(M, t)
  BY <1>13, <1>14 DEF OneWayIn
<1>17. ASSUME NEW b \in Blocks(M), Len(Successors(M, b)) = 2
       PROVE  OneWayIn(M, Successors(M, b)[1]) /\ OneWayIn(M, Successors(M, b)[2])
  <2>1. b \in Blocks(g) /\ Len(Successors(g, b)) = 2 /\ Successors(M, b) = Successors(g, b)
    BY <1>13, <1>14, <1>17
  <2>2. b \in B
    BY <1>11, <2>1 DEF SplitSoFar
  <2>3. Successors(g, b) \in Seq(Blocks(g))
    BY <1>11, <2>1, FreshIs DEF SplitSoFar
  <2>4. 1 \in DOMAIN Successors(g, b) /\ 2 \in DOMAIN Successors(g, b) /\ Len(Successors(g, b)) >= 2
    BY <2>1, <2>3
  <2>5. <<b, 1>> \in ToSet(e) /\ <<b, 2>> \in ToSet(e)
    BY <1>6, <2>2
  <2>6. \A x \in ToSet(e) : Len(Successors(g, x[1])) >= 2 /\ x[2] \in DOMAIN Successors(g, x[1]) =>
                              OneWayIn(g, Successors(g, x[1])[x[2]])
    BY <1>11, Zenon DEF SplitSoFar
  <2>7. OneWayIn(g, Successors(g, b)[1]) /\ OneWayIn(g, Successors(g, b)[2])
    <3>1. <<b, 1>>[1] = b /\ <<b, 1>>[2] = 1 /\ <<b, 2>>[1] = b /\ <<b, 2>>[2] = 2
      OBVIOUS
    <3> QED
      BY <2>4, <2>5, <2>6, <3>1
  <2> QED
    BY <1>16, <2>1, <2>7
<1>18. SameCalls(f, M)
  BY <1>11, <1>13 DEF SplitSoFar, SameCalls
<1>19. /\ Blocks(f) \subseteq Blocks(M) /\ Entry(M) = Entry(f)
       /\ \A b \in Blocks(M) : \A m \in DOMAIN Successors(M, b) : Successors(M, b)[m] # Entry(f)
  BY <1>11, <1>13, <1>14 DEF SplitSoFar
<1>20. \A t \in Blocks(M) : \A x \in ToSet(M.preds[t]) : x \in Blocks(M) /\ t \in ToSet(Successors(M, x))
  BY <1>13, <1>14
<1>21. Instrumented(f, M)
  BY <1>15, <1>17, <1>18, <1>19, <1>20, Zenon DEF Instrumented
<1> QED
  BY <1>8, <1>21 DEF M, g

-----------------------------------------------------------------------------
(* The run *)

\* Function k of program p as it is built to be measured, and the places of the counters
Instr(p, k) == SplitCriticalEdges(p[k])
Places(p) == UNION {{<<k, b>> : b \in Blocks(Instr(p, k))} : k \in DOMAIN p}

Frame == [fn : Nat, block : Nat, calls : Nat]
IsFrames(p, fr) == fr \in Seq(Frame) /\ \A j \in 1 .. Len(fr) : <<fr[j].fn, fr[j].block>> \in Places(p)

\* How many of the first n frames are in block b of function k
Within(fr, n, k, b) == Cardinality({j \in 1 .. n : fr[j].fn = k /\ fr[j].block = b})

\* What the counters say of a block and of where it leads, while n frames are in the middle
\* of something: a block with two ways out was left by one of them as often as it was entered,
\* but for those that are in it; and one way out is the only one there is.
Balanced(p, c, fr, n) ==
    \A k \in DOMAIN p : \A b \in Blocks(Instr(p, k)) :
      LET to == Successors(Instr(p, k), b) IN
      /\ Len(to) = 2 => c[<<k, to[1]>>] + c[<<k, to[2]>>] + Within(fr, n, k, b) = c[<<k, b>>]
      /\ Len(to) = 1 => c[<<k, b>>] <= c[<<k, to[1]>>] + Within(fr, n, k, b)

\* The last frame counts where it is, and the others do not change when it does.
LEMMA WithinIs ==
    ASSUME NEW fr, NEW n \in Nat, NEW k, NEW b
    PROVE  /\ Within(fr, n, k, b) \in Nat
           /\ n = 0 => Within(fr, n, k, b) = 0
           /\ n > 0 => Within(fr, n, k, b) =
                Within(fr, n - 1, k, b) + (IF fr[n].fn = k /\ fr[n].block = b THEN 1 ELSE 0)
           /\ \A g : (\A j \in 1 .. n : g[j].fn = fr[j].fn /\ g[j].block = fr[j].block) =>
                       Within(g, n, k, b) = Within(fr, n, k, b)
<1> DEFINE H(m) == {j \in 1 .. m : fr[j].fn = k /\ fr[j].block = b}
<1>1. \A m \in Nat : IsFiniteSet(H(m)) /\ Cardinality(H(m)) \in Nat
  <2> SUFFICES ASSUME NEW m \in Nat PROVE IsFiniteSet(H(m)) /\ Cardinality(H(m)) \in Nat
    OBVIOUS
  <2>1. IsFiniteSet(1 .. m) /\ H(m) \in SUBSET (1 .. m)
    BY FS_Interval
  <2>2. IsFiniteSet(H(m))
    BY <2>1, FS_Subset
  <2> HIDE DEF H
  <2> QED
    BY <2>2, FS_CardinalityType
<1>2. ASSUME n = 0 PROVE Cardinality(H(n)) = 0
  <2>1. H(n) = {}
    BY <1>2
  <2> QED
    BY <2>1, FS_EmptySet
<1>3. ASSUME n > 0
      PROVE  Cardinality(H(n)) = Cardinality(H(n - 1)) + (IF fr[n].fn = k /\ fr[n].block = b THEN 1 ELSE 0)
  <2>1. n - 1 \in Nat /\ 1 .. n = 1 .. (n - 1) \cup {n} /\ n \notin 1 .. (n - 1)
    BY <1>3
  <2>2. CASE fr[n].fn = k /\ fr[n].block = b
    <3>1. H(n) = H(n - 1) \cup {n} /\ n \notin H(n - 1)
      BY <2>1, <2>2
    <3>2. IsFiniteSet(H(n - 1)) /\ Cardinality(H(n - 1)) \in Nat
      BY <1>1, <2>1
    <3> HIDE DEF H
    <3>3. Cardinality(H(n)) = Cardinality(H(n - 1)) + 1
      BY <3>1, <3>2, FS_AddElement
    <3> QED
      BY <2>2, <3>3
  <2>3. CASE ~(fr[n].fn = k /\ fr[n].block = b)
    <3>1. H(n) = H(n - 1)
      BY <2>1, <2>3
    <3>2. Cardinality(H(n - 1)) \in Nat
      BY <1>1, <2>1
    <3> HIDE DEF H
    <3> QED
      BY <2>3, <3>1, <3>2
  <2> QED
    BY <2>2, <2>3
<1>4. ASSUME NEW g, \A j \in 1 .. n : g[j].fn = fr[j].fn /\ g[j].block = fr[j].block
      PROVE  {j \in 1 .. n : g[j].fn = k /\ g[j].block = b} = H(n)
  BY <1>4
<1>5. Cardinality(H(n)) = Within(fr, n, k, b) /\ Cardinality(H(n - 1)) = Within(fr, n - 1, k, b)
  BY DEF Within
<1>6. \A g : (\A j \in 1 .. n : g[j].fn = fr[j].fn /\ g[j].block = fr[j].block) =>
               Within(g, n, k, b) = Within(fr, n, k, b)
  BY <1>4 DEF Within
<1>7. Cardinality(H(n)) \in Nat
  BY <1>1
<1> QED
  BY <1>2, <1>3, <1>5, <1>6, <1>7

\* Where control goes in function k
LEMMA InstrIs ==
    ASSUME NEW p \in Programs, NEW k \in DOMAIN p
    PROVE  LET M == Instr(p, k)
           IN /\ Instrumented(p[k], M)
              /\ Entry(p[k]) \in Blocks(M) /\ k \in Nat /\ Blocks(M) \subseteq Nat
              /\ \A b \in Blocks(M) :
                   /\ Successors(M, b) \in Seq(Blocks(M)) /\ Len(Successors(M, b)) \in Nat
                   /\ DOMAIN Successors(M, b) = 1 .. Len(Successors(M, b))
                   /\ \A m \in DOMAIN Successors(M, b) :
                        Successors(M, b)[m] \in Blocks(M) /\ Successors(M, b)[m] # Entry(p[k])
                   /\ Len(Successors(M, b)) = 2 =>
                        /\ Successors(M, b)[1] # Successors(M, b)[2]
                        /\ \A c \in Blocks(M) : \A m \in DOMAIN Successors(M, c) : \A j \in {1, 2} :
                             Successors(M, c)[m] = Successors(M, b)[j] => c = b /\ m = j
<1> DEFINE M == Instr(p, k)
<1>1. IsPart(p[k], p) /\ k \in Nat
  BY ProgramsAssumption
<1>2. Instrumented(p[k], M)
  BY <1>1, SplitsAll DEF Instr
<1> HIDE DEF M
<1>3. /\ Formed(M) /\ Entry(M) = Entry(p[k])
      /\ \A b \in Blocks(M) : \A m \in DOMAIN Successors(M, b) : Successors(M, b)[m] # Entry(p[k])
      /\ \A b \in Blocks(M) : Len(Successors(M, b)) = 2 =>
           OneWayIn(M, Successors(M, b)[1]) /\ OneWayIn(M, Successors(M, b)[2])
  BY <1>2, Zenon DEF Instrumented
<1>4. /\ Entry(M) \in Blocks(M) /\ Blocks(M) \subseteq Nat
      /\ \A b \in Blocks(M) : Successors(M, b) \in Seq(Blocks(M))
  BY <1>3, FreshIs DEF Formed
<1>5. ASSUME NEW b \in Blocks(M)
      PROVE  /\ Len(Successors(M, b)) \in Nat /\ DOMAIN Successors(M, b) = 1 .. Len(Successors(M, b))
             /\ \A m \in DOMAIN Successors(M, b) : Successors(M, b)[m] \in Blocks(M)
  <2>1. Successors(M, b) \in Seq(Blocks(M))
    BY <1>4
  <2> QED
    BY <2>1
<1>6. ASSUME NEW b \in Blocks(M), Len(Successors(M, b)) = 2,
             NEW c \in Blocks(M), NEW m \in DOMAIN Successors(M, c), NEW j \in {1, 2},
             Successors(M, c)[m] = Successors(M, b)[j]
      PROVE  c = b /\ m = j
  <2>1. OneWayIn(M, Successors(M, b)[j]) /\ j \in DOMAIN Successors(M, b)
    BY <1>3, <1>5, <1>6
  <2> QED
    BY <1>6, <2>1 DEF OneWayIn
<1>7. ASSUME NEW b \in Blocks(M), Len(Successors(M, b)) = 2 PROVE Successors(M, b)[1] # Successors(M, b)[2]
  <2>1. 1 \in DOMAIN Successors(M, b)
    BY <1>5, <1>7
  <2> QED
    BY <1>6, <1>7, <2>1
<1> QED
  BY <1>1, <1>2, <1>3, <1>4, <1>5, <1>6, <1>7, Zenon DEF M

\* Nothing but the branch itself leads to a side of it.
LEMMA OneWayBack ==
    ASSUME NEW p \in Programs, NEW k \in DOMAIN p, NEW b \in Blocks(Instr(p, k)),
           Len(Successors(Instr(p, k), b)) = 2,
           NEW c \in Blocks(Instr(p, k)), NEW m \in DOMAIN Successors(Instr(p, k), c), NEW j \in {1, 2},
           Successors(Instr(p, k), c)[m] = Successors(Instr(p, k), b)[j]
    PROVE  c = b /\ m = j
<1> DEFINE M == Instr(p, k)
<1>1. IsPart(p[k], p)
  BY ProgramsAssumption
<1>2. Instrumented(p[k], M)
  BY <1>1, SplitsAll DEF Instr
<1>3. DOMAIN Successors(M, b) = 1 .. Len(Successors(M, b))
  BY InstrIs
<1> HIDE DEF M
<1>4. \A a \in Blocks(M) : Len(Successors(M, a)) = 2 =>
        OneWayIn(M, Successors(M, a)[1]) /\ OneWayIn(M, Successors(M, a)[2])
  BY <1>2, Zenon DEF Instrumented
<1>5. /\ b \in Blocks(M) /\ Len(Successors(M, b)) = 2 /\ c \in Blocks(M) /\ m \in DOMAIN Successors(M, c)
      /\ Successors(M, c)[m] = Successors(M, b)[j]
  BY DEF M
<1>6. OneWayIn(M, Successors(M, b)[j]) /\ j \in DOMAIN Successors(M, b)
  BY <1>3, <1>4, <1>5
<1> QED
  BY <1>5, <1>6 DEF OneWayIn

\* A function is entered: no block leads to its entry.
LEMMA EnteringBalances ==
    ASSUME NEW p \in Programs, NEW c, c \in [Places(p) -> Nat], NEW fr, NEW n \in Nat, Balanced(p, c, fr, n),
           NEW k0 \in DOMAIN p, NEW g, \A j \in 1 .. n : g[j].fn = fr[j].fn /\ g[j].block = fr[j].block,
           g[n + 1].fn = k0, g[n + 1].block = Entry(p[k0])
    PROVE  Balanced(p, [c EXCEPT ![<<k0, Entry(p[k0])>>] = @ + 1], g, n + 1)
<1> DEFINE e == Entry(p[k0])
           d == [c EXCEPT ![<<k0, e>>] = @ + 1]
<1> SUFFICES ASSUME NEW k \in DOMAIN p, NEW b \in Blocks(Instr(p, k))
             PROVE  LET to == Successors(Instr(p, k), b)
                    IN /\ Len(to) = 2 =>
                            d[<<k, to[1]>>] + d[<<k, to[2]>>] + Within(g, n + 1, k, b) = d[<<k, b>>]
                       /\ Len(to) = 1 => d[<<k, b>>] <= d[<<k, to[1]>>] + Within(g, n + 1, k, b)
  BY DEF Balanced
<1> DEFINE to == Successors(Instr(p, k), b)
           one == IF k = k0 /\ b = e THEN 1 ELSE 0
<1>1. /\ Len(to) = 2 => c[<<k, to[1]>>] + c[<<k, to[2]>>] + Within(fr, n, k, b) = c[<<k, b>>]
      /\ Len(to) = 1 => c[<<k, b>>] <= c[<<k, to[1]>>] + Within(fr, n, k, b)
  BY DEF Balanced
<1>2. \A x \in Places(p) : c[x] \in Nat /\ d[x] = c[x] + (IF x = <<k0, e>> THEN 1 ELSE 0)
  OBVIOUS
<1>3. /\ <<k, b>> \in Places(p)
      /\ \A m \in 1 .. Len(to) : <<k, to[m]>> \in Places(p) /\ (k = k0 => to[m] # e)
  <2>1. DOMAIN to = 1 .. Len(to) /\ \A m \in DOMAIN to : to[m] \in Blocks(Instr(p, k)) /\ to[m] # Entry(p[k])
    BY InstrIs
  <2> HIDE DEF to
  <2> QED
    BY <2>1 DEF Places
<1>4. Within(g, n + 1, k, b) = Within(fr, n, k, b) + one /\ Within(fr, n, k, b) \in Nat
  <2>1. n + 1 \in Nat /\ n + 1 > 0 /\ (n + 1) - 1 = n
    OBVIOUS
  <2>2. Within(g, n + 1, k, b) = Within(g, n, k, b) + (IF g[n + 1].fn = k /\ g[n + 1].block = b THEN 1 ELSE 0)
    BY <2>1, WithinIs
  <2>3. Within(g, n, k, b) = Within(fr, n, k, b) /\ Within(fr, n, k, b) \in Nat
    BY WithinIs
  <2> QED
    BY <2>2, <2>3
<1> HIDE DEF to, d, e
<1>5. d[<<k, b>>] = c[<<k, b>>] + one /\ c[<<k, b>>] \in Nat
  BY <1>2, <1>3
<1>6. \A m \in 1 .. Len(to) : d[<<k, to[m]>>] = c[<<k, to[m]>>] /\ c[<<k, to[m]>>] \in Nat
  BY <1>2, <1>3
<1> HIDE DEF one
<1>7. one \in Nat
  BY DEF one
<1>8. ASSUME Len(to) = 2 PROVE d[<<k, to[1]>>] + d[<<k, to[2]>>] + Within(g, n + 1, k, b) = d[<<k, b>>]
  <2>1. 1 \in 1 .. Len(to) /\ 2 \in 1 .. Len(to)
    BY <1>8
  <2> QED
    BY <1>1, <1>4, <1>5, <1>6, <1>7, <1>8, <2>1
<1>9. ASSUME Len(to) = 1 PROVE d[<<k, b>>] <= d[<<k, to[1]>>] + Within(g, n + 1, k, b)
  <2>1. 1 \in 1 .. Len(to)
    BY <1>9
  <2> QED
    BY <1>1, <1>4, <1>5, <1>6, <1>7, <1>9, <2>1
<1> QED
  BY <1>8, <1>9 DEF to

\* A block is left for another: for a side of a branch that has no other way in, or by the
\* only way out.
LEMMA GoingOnBalances ==
    ASSUME NEW p \in Programs, NEW c, c \in [Places(p) -> Nat], NEW fr, NEW n \in Nat \ {0}, Balanced(p, c, fr, n),
           NEW k0 \in DOMAIN p, NEW b0 \in Blocks(Instr(p, k0)), fr[n].fn = k0, fr[n].block = b0,
           NEW t0 \in ToSet(Successors(Instr(p, k0), b0)),
           NEW g, \A j \in 1 .. n - 1 : g[j].fn = fr[j].fn /\ g[j].block = fr[j].block,
           g[n].fn = k0, g[n].block = t0
    PROVE  Balanced(p, [c EXCEPT ![<<k0, t0>>] = @ + 1], g, n)
<1> DEFINE d == [c EXCEPT ![<<k0, t0>>] = @ + 1]
<1> SUFFICES ASSUME NEW k \in DOMAIN p, NEW b \in Blocks(Instr(p, k))
             PROVE  LET to == Successors(Instr(p, k), b)
                    IN /\ Len(to) = 2 =>
                            d[<<k, to[1]>>] + d[<<k, to[2]>>] + Within(g, n, k, b) = d[<<k, b>>]
                       /\ Len(to) = 1 => d[<<k, b>>] <= d[<<k, to[1]>>] + Within(g, n, k, b)
  BY DEF Balanced
<1> DEFINE to == Successors(Instr(p, k), b)
           leaves == IF k = k0 /\ b = b0 THEN 1 ELSE 0
           enters == IF k = k0 /\ b = t0 THEN 1 ELSE 0
           W == Within(fr, n, k, b)
           V == Within(g, n, k, b)
<1>1. /\ Len(to) = 2 => c[<<k, to[1]>>] + c[<<k, to[2]>>] + W = c[<<k, b>>]
      /\ Len(to) = 1 => c[<<k, b>>] <= c[<<k, to[1]>>] + W
  BY DEF Balanced
<1>2. \A x \in Places(p) : c[x] \in Nat /\ d[x] = c[x] + (IF x = <<k0, t0>> THEN 1 ELSE 0)
  OBVIOUS
<1>3. /\ <<k, b>> \in Places(p) /\ Len(to) \in Nat
      /\ \A m \in 1 .. Len(to) : <<k, to[m]>> \in Places(p)
      /\ Len(to) = 2 => to[1] # to[2]
  <2>1. /\ DOMAIN to = 1 .. Len(to) /\ Len(to) \in Nat /\ \A m \in DOMAIN to : to[m] \in Blocks(Instr(p, k))
        /\ Len(to) = 2 => to[1] # to[2]
    BY InstrIs
  <2> HIDE DEF to
  <2> QED
    BY <2>1 DEF Places
<1>4. V + leaves = W + enters /\ W \in Nat /\ V \in Nat
  <2>1. n \in Nat /\ n > 0 /\ n - 1 \in Nat
    OBVIOUS
  <2>2. Within(g, n, k, b) = Within(g, n - 1, k, b) + (IF g[n].fn = k /\ g[n].block = b THEN 1 ELSE 0)
    BY <2>1, WithinIs
  <2>3. Within(fr, n, k, b) = Within(fr, n - 1, k, b) + (IF fr[n].fn = k /\ fr[n].block = b THEN 1 ELSE 0)
    BY <2>1, WithinIs
  <2>4. Within(g, n - 1, k, b) = Within(fr, n - 1, k, b) /\ Within(fr, n - 1, k, b) \in Nat
    BY <2>1, WithinIs
  <2> QED
    BY <2>2, <2>3, <2>4
<1>5. PICK m0 \in 1 .. Len(Successors(Instr(p, k0), b0)) : t0 = Successors(Instr(p, k0), b0)[m0]
  <2>1. DOMAIN Successors(Instr(p, k0), b0) = 1 .. Len(Successors(Instr(p, k0), b0))
    BY InstrIs
  <2> QED
    BY <2>1 DEF ToSet
<1>6. ASSUME k = k0, b = b0 PROVE m0 \in 1 .. Len(to) /\ t0 = to[m0]
  BY <1>5, <1>6
<1>7. ASSUME Len(to) = 2, NEW m \in {1, 2}, k = k0, t0 = to[m] PROVE b = b0
  <2>1. m0 \in DOMAIN Successors(Instr(p, k0), b0)
    <3>1. DOMAIN Successors(Instr(p, k0), b0) = 1 .. Len(Successors(Instr(p, k0), b0))
      BY InstrIs
    <3> QED
      BY <1>5, <3>1
  <2>2. b \in Blocks(Instr(p, k0)) /\ to = Successors(Instr(p, k0), b)
    BY <1>7
  <2> HIDE DEF to
  <2>3. Successors(Instr(p, k0), b0)[m0] = Successors(Instr(p, k0), b)[m] /\ Len(Successors(Instr(p, k0), b)) = 2
    BY <1>5, <1>7, <2>2
  <2> QED
    BY <2>1, <2>2, <2>3, OneWayBack
<1> HIDE DEF to, d, W, V
<1>8. d[<<k, b>>] = c[<<k, b>>] + enters /\ c[<<k, b>>] \in Nat
  BY <1>2, <1>3
<1>9. \A m \in 1 .. Len(to) : /\ d[<<k, to[m]>>] = c[<<k, to[m]>>] + (IF k = k0 /\ to[m] = t0 THEN 1 ELSE 0)
                              /\ c[<<k, to[m]>>] \in Nat
  BY <1>2, <1>3
<1>10. leaves \in Nat /\ enters \in Nat
  OBVIOUS
<1>11. ASSUME Len(to) = 2 PROVE d[<<k, to[1]>>] + d[<<k, to[2]>>] + V = d[<<k, b>>]
  <2>1. 1 \in 1 .. Len(to) /\ 2 \in 1 .. Len(to) /\ 1 .. Len(to) = {1, 2}
    BY <1>11
  <2>2. d[<<k, to[1]>>] + d[<<k, to[2]>>] = c[<<k, to[1]>>] + c[<<k, to[2]>>] + leaves
    <3>1. CASE k = k0 /\ b = b0
      <4>1. to[1] # to[2] /\ (t0 = to[1] \/ t0 = to[2])
        BY <1>3, <1>6, <1>11, <2>1, <3>1
      <4>2. leaves = 1
        BY <3>1
      <4> HIDE DEF leaves, enters
      <4> QED
        BY <1>9, <2>1, <3>1, <4>1, <4>2
    <3>2. CASE ~(k = k0 /\ b = b0)
      <4>1. ~(k = k0 /\ to[1] = t0) /\ ~(k = k0 /\ to[2] = t0)
        BY <1>7, <1>11, <3>2
      <4>2. leaves = 0
        BY <3>2
      <4> HIDE DEF leaves, enters
      <4> QED
        BY <1>9, <2>1, <4>1, <4>2
    <3> QED
      BY <3>1, <3>2
  <2>3. c[<<k, to[1]>>] + c[<<k, to[2]>>] + W = c[<<k, b>>] /\ c[<<k, to[1]>>] \in Nat /\ c[<<k, to[2]>>] \in Nat
    BY <1>1, <1>9, <1>11, <2>1
  <2> HIDE DEF leaves, enters
  <2> DEFINE c1 == c[<<k, to[1]>>]
             c2 == c[<<k, to[2]>>]
             sides == d[<<k, to[1]>>] + d[<<k, to[2]>>]
             cb == c[<<k, b>>]
             db == d[<<k, b>>]
  <2>4. /\ c1 \in Nat /\ c2 \in Nat /\ cb \in Nat /\ db = cb + enters
        /\ sides = c1 + c2 + leaves /\ c1 + c2 + W = cb
    BY <1>8, <2>2, <2>3
  <2> HIDE DEF c1, c2, sides, cb, db
  <2>5. sides + V = db
    BY <1>4, <1>10, <2>4
  <2> QED
    BY <2>5 DEF sides, db
<1>12. ASSUME Len(to) = 1 PROVE d[<<k, b>>] <= d[<<k, to[1]>>] + V
  <2>1. 1 \in 1 .. Len(to) /\ 1 .. Len(to) = {1}
    BY <1>12
  <2>2. d[<<k, to[1]>>] >= c[<<k, to[1]>>] + leaves /\ c[<<k, to[1]>>] \in Nat /\ d[<<k, to[1]>>] \in Nat
    <3>1. CASE k = k0 /\ b = b0
      <4>1. t0 = to[1] /\ leaves = 1
        BY <1>6, <2>1, <3>1
      <4> HIDE DEF leaves, enters
      <4> QED
        BY <1>9, <2>1, <3>1, <4>1
    <3>2. CASE ~(k = k0 /\ b = b0)
      <4>1. leaves = 0
        BY <3>2
      <4> HIDE DEF leaves, enters
      <4> QED
        BY <1>9, <2>1, <4>1
    <3> QED
      BY <3>1, <3>2
  <2>3. c[<<k, b>>] <= c[<<k, to[1]>>] + W
    BY <1>1, <1>12
  <2> HIDE DEF leaves, enters
  <2> DEFINE c1 == c[<<k, to[1]>>]
             d1 == d[<<k, to[1]>>]
             cb == c[<<k, b>>]
             db == d[<<k, b>>]
  <2>4. /\ c1 \in Nat /\ d1 \in Nat /\ cb \in Nat /\ db = cb + enters
        /\ d1 >= c1 + leaves /\ cb <= c1 + W
    BY <1>8, <2>2, <2>3
  <2> HIDE DEF c1, d1, cb, db
  <2>5. db <= d1 + V
    BY <1>4, <1>10, <2>4
  <2> QED
    BY <2>5 DEF d1, db
<1> QED
  BY <1>11, <1>12 DEF to, V

\* A function returns from a block that leads nowhere.
LEMMA ReturningBalances ==
    ASSUME NEW p \in Programs, NEW c, NEW fr, NEW n \in Nat \ {0}, Balanced(p, c, fr, n),
           NEW k0, NEW b0, fr[n].fn = k0, fr[n].block = b0, Successors(Instr(p, k0), b0) = <<>>,
           NEW g, \A j \in 1 .. n - 1 : g[j].fn = fr[j].fn /\ g[j].block = fr[j].block
    PROVE  Balanced(p, c, g, n - 1)
<1> SUFFICES ASSUME NEW k \in DOMAIN p, NEW b \in Blocks(Instr(p, k)), Len(Successors(Instr(p, k), b)) \in {1, 2}
             PROVE  Within(g, n - 1, k, b) = Within(fr, n, k, b)
  BY DEF Balanced
<1>1. ~(k = k0 /\ b = b0)
  <2> SUFFICES ASSUME k = k0, b = b0 PROVE FALSE
    OBVIOUS
  <2> DEFINE to == Successors(Instr(p, k), b)
  <2>1. to = <<>> /\ Len(to) \in {1, 2}
    OBVIOUS
  <2> HIDE DEF to
  <2> QED
    BY <2>1
<1>2. n \in Nat /\ n > 0 /\ n - 1 \in Nat
  OBVIOUS
<1>3. Within(fr, n, k, b) = Within(fr, n - 1, k, b) + (IF fr[n].fn = k /\ fr[n].block = b THEN 1 ELSE 0)
  BY <1>2, WithinIs
<1>4. Within(g, n - 1, k, b) = Within(fr, n - 1, k, b) /\ Within(fr, n - 1, k, b) \in Nat
  BY <1>2, WithinIs
<1> QED
  BY <1>1, <1>3, <1>4

\* The counters and the frames of a run of p
Running(p, c, fr) == c \in [Places(p) -> Nat] /\ IsFrames(p, fr) /\ Balanced(p, c, fr, Len(fr))

\* Splitting edges left the calls alone, and each of them calls a function of the program.
LEMMA CallsAreThere ==
    ASSUME NEW p \in Programs, NEW k \in DOMAIN p, NEW b \in Blocks(Instr(p, k))
    PROVE  /\ Len(CallsIn(Instr(p, k), b)) \in Nat
           /\ \A n \in 1 .. Len(CallsIn(Instr(p, k), b)) :
                Instr(p, k).inst[CallsIn(Instr(p, k), b)[n]].attr \in DOMAIN p
<1> DEFINE M == Instr(p, k)
           X == DOMAIN M.inst
           c == M.code[b]
           s == [n \in DOMAIN c |-> IF M.inst[c[n]].op = "call" THEN <<c[n]>> ELSE <<>>]
           r == FlattenSeq(s)
<1>1. IsPart(p[k], p)
  BY ProgramsAssumption
<1>2. Instrumented(p[k], M)
  BY <1>1, SplitsAll DEF Instr
<1> HIDE DEF M
<1>3. Formed(M) /\ SameCalls(p[k], M) /\ b \in Blocks(M)
  BY <1>2 DEF Instrumented, M
<1>4. c \in Seq(X) /\ c # <<>>
  BY <1>3, FreshIs
<1>5. Len(c) \in Nat \ {0} /\ DOMAIN c = 1 .. Len(c) /\ \A n \in 1 .. Len(c) : c[n] \in X
  <2> HIDE DEF c, X
  <2> QED
    BY <1>4
<1>6. s \in [1 .. Len(c) -> Seq(X)]
  <2>1. ASSUME NEW x \in X PROVE <<x>> \in Seq(X) /\ <<>> \in Seq(X)
    <3> HIDE DEF X
    <3> QED
      OBVIOUS
  <2> HIDE DEF c, X
  <2> QED
    BY <1>5, <2>1
<1>7. r \in Seq(X) /\ IsFlat(r, s, Len(c))
  <2> HIDE DEF s, c, X
  <2> QED
    BY <1>5, <1>6, FlattenIs
<1>8. \A x \in ToSet(r) : x \in X /\ M.inst[x].op = "call"
  <2> SUFFICES ASSUME NEW x \in ToSet(r) PROVE x \in X /\ M.inst[x].op = "call"
    OBVIOUS
  <2>1. PICK i \in 1 .. Len(c) : x \in ToSet(s[i])
    <3> HIDE DEF s, r, c
    <3> QED
      BY <1>7 DEF IsFlat
  <2>2. s[i] = IF M.inst[c[i]].op = "call" THEN <<c[i]>> ELSE <<>>
    BY <1>5, <2>1
  <2>3. M.inst[c[i]].op = "call" /\ x = c[i]
    <3> HIDE DEF s, r, c, X
    <3> QED
      BY <2>1, <2>2 DEF ToSet
  <2> HIDE DEF c, X
  <2> QED
    BY <1>5, <2>3
<1>9. r = CallsIn(M, b)
  BY Zenon DEF CallsIn
<1> HIDE DEF s, r, c
<1>10. Len(r) \in Nat /\ \A n \in 1 .. Len(r) : r[n] \in ToSet(r)
  <2> HIDE DEF X
  <2> QED
    BY <1>7 DEF ToSet
<1>11. ASSUME NEW x \in X, M.inst[x].op = "call" PROVE M.inst[x].attr \in DOMAIN p
  BY <1>1, <1>3, <1>11 DEF SameCalls, IsPart, X
<1> QED
  BY <1>8, <1>9, <1>10, <1>11 DEF M

\* A counter of the run counts on.
LEMMA CountingCounts ==
    ASSUME NEW p, NEW c, c \in [Places(p) -> Nat], NEW x \in Places(p)
    PROVE  [c EXCEPT ![x] = @ + 1] \in [Places(p) -> Nat]
OBVIOUS

\* A call of function k0 of program p.
LEMMA CallGoesOn ==
    ASSUME NEW p \in Programs, NEW c, NEW fr, Running(p, c, fr), fr # <<>>, NEW k0 \in DOMAIN p
    PROVE  LET e == Entry(p[k0])
               g == Append([fr EXCEPT ![Len(fr)].calls = @ + 1], [fn |-> k0, block |-> e, calls |-> 0])
           IN Running(p, [c EXCEPT ![<<k0, e>>] = @ + 1], g) /\ g # <<>>
<1> DEFINE n == Len(fr)
           e == Entry(p[k0])
           h == [fr EXCEPT ![n].calls = @ + 1]
           f == [fn |-> k0, block |-> e, calls |-> 0]
           g == Append(h, f)
<1>1. /\ c \in [Places(p) -> Nat] /\ fr \in Seq(Frame) /\ Balanced(p, c, fr, n)
      /\ \A j \in 1 .. n : <<fr[j].fn, fr[j].block>> \in Places(p)
  BY DEF Running, IsFrames
<1>2. n \in Nat /\ n > 0 /\ n \in 1 .. n /\ n \in DOMAIN fr
  BY <1>1
<1>3. e \in Nat /\ k0 \in Nat /\ <<k0, e>> \in Places(p)
  <2>1. e \in Blocks(Instr(p, k0)) /\ k0 \in Nat /\ Blocks(Instr(p, k0)) \subseteq Nat
    BY InstrIs
  <2> HIDE DEF e
  <2> QED
    BY <2>1 DEF Places
<1>4. /\ h \in Seq(Frame) /\ Len(h) = n
      /\ \A j \in 1 .. n : h[j].fn = fr[j].fn /\ h[j].block = fr[j].block
  <2>1. \A j \in 1 .. n : fr[j] \in Frame
    BY <1>1
  <2>2. h = [j \in 1 .. n |-> IF j = n THEN [fr[j] EXCEPT !.calls = @ + 1] ELSE fr[j]]
    BY <1>1, <1>2, SMTT(30)
  <2> HIDE DEF h
  <2>3. \A j \in 1 .. n : h[j] \in Frame /\ h[j].fn = fr[j].fn /\ h[j].block = fr[j].block
    BY <2>1, <2>2 DEF Frame
  <2>4. h \in [1 .. n -> Frame]
    BY <2>2, <2>3
  <2> QED
    BY <1>2, <2>3, <2>4
<1>5. f \in Frame /\ f.fn = k0 /\ f.block = e
  BY <1>3 DEF Frame
<1> HIDE DEF h, f
<1>6. /\ g \in Seq(Frame) /\ Len(g) = n + 1 /\ g[n + 1] = f
      /\ \A j \in 1 .. n : g[j] = h[j]
  BY <1>2, <1>4, <1>5
<1> HIDE DEF g
<1>7. \A j \in 1 .. n : g[j].fn = fr[j].fn /\ g[j].block = fr[j].block
  BY <1>4, <1>6
<1>8. \A j \in 1 .. n + 1 : <<g[j].fn, g[j].block>> \in Places(p)
  <2> SUFFICES ASSUME NEW j \in 1 .. n + 1 PROVE <<g[j].fn, g[j].block>> \in Places(p)
    OBVIOUS
  <2>1. CASE j = n + 1
    BY <1>3, <1>5, <1>6, <2>1
  <2>2. CASE j \in 1 .. n
    <3>1. g[j].fn = fr[j].fn /\ g[j].block = fr[j].block /\ <<fr[j].fn, fr[j].block>> \in Places(p)
      BY <1>1, <1>7, <2>2
    <3> QED
      BY <3>1, Zenon
  <2> QED
    BY <1>2, <2>1, <2>2
<1>9. IsFrames(p, g)
  BY <1>6, <1>8 DEF IsFrames
<1>10. g[n + 1].fn = k0 /\ g[n + 1].block = Entry(p[k0])
  BY <1>5, <1>6 DEF e
<1> HIDE DEF n
<1>11. Balanced(p, [c EXCEPT ![<<k0, Entry(p[k0])>>] = @ + 1], g, n + 1)
  BY <1>1, <1>2, <1>7, <1>10, EnteringBalances
<1> HIDE DEF e
<1>12. [c EXCEPT ![<<k0, e>>] = @ + 1] \in [Places(p) -> Nat]
  BY <1>1, <1>3, CountingCounts
<1>13. Running(p, [c EXCEPT ![<<k0, e>>] = @ + 1], g)
  BY <1>6, <1>9, <1>11, <1>12 DEF Running, e
<1>14. g # <<>>
  BY <1>2, <1>6
<1> QED
  BY <1>13, <1>14, Zenon DEF g, h, f, n, e

\* The top of the stack in block to, and one more in a counter
Moved(fr, to) == [fr EXCEPT ![Len(fr)] = [@ EXCEPT !.block = to, !.calls = 0]]
Counted(c, x) == [c EXCEPT ![x] = @ + 1]

\* Control goes from the top of the stack to a block it leads to.
LEMMA GoToGoesOn ==
    ASSUME NEW p \in Programs, NEW c, NEW fr, Running(p, c, fr), fr # <<>>,
           NEW k0, k0 = fr[Len(fr)].fn, NEW b0, b0 = fr[Len(fr)].block,
           NEW to \in ToSet(Successors(Instr(p, k0), b0))
    PROVE  Running(p, Counted(c, <<k0, to>>), Moved(fr, to)) /\ Moved(fr, to) # <<>>
<1> DEFINE n == Len(fr)
           g == Moved(fr, to)
<1>1. /\ c \in [Places(p) -> Nat] /\ fr \in Seq(Frame) /\ Balanced(p, c, fr, n)
      /\ \A j \in 1 .. n : <<fr[j].fn, fr[j].block>> \in Places(p)
  BY DEF Running, IsFrames
<1>2. n \in Nat /\ n > 0 /\ n \in 1 .. n /\ n \in DOMAIN fr /\ DOMAIN fr = 1 .. n
  BY <1>1
<1>3. k0 \in DOMAIN p /\ b0 \in Blocks(Instr(p, k0))
  <2>1. <<k0, b0>> \in Places(p)
    BY <1>1, <1>2
  <2> QED
    BY <2>1 DEF Places
<1>4. to \in Nat /\ k0 \in Nat /\ <<k0, to>> \in Places(p)
  <2>1. /\ k0 \in Nat /\ Blocks(Instr(p, k0)) \subseteq Nat
        /\ Successors(Instr(p, k0), b0) \in Seq(Blocks(Instr(p, k0)))
    BY <1>3, InstrIs
  <2>2. to \in Blocks(Instr(p, k0))
    BY <2>1 DEF ToSet
  <2> QED
    BY <1>3, <2>1, <2>2 DEF Places
<1>5. /\ g \in Seq(Frame) /\ Len(g) = n /\ g[n].fn = k0 /\ g[n].block = to
      /\ \A j \in 1 .. n - 1 : g[j].fn = fr[j].fn /\ g[j].block = fr[j].block
  <2>1. \A j \in 1 .. n : fr[j] \in Frame
    BY <1>1
  <2>2. g = [j \in 1 .. n |-> IF j = n THEN [fr[j] EXCEPT !.block = to, !.calls = 0] ELSE fr[j]]
    BY <1>2 DEF Moved
  <2> HIDE DEF n, g
  <2>3. n \in 1 .. n /\ \A j \in 1 .. n - 1 : j \in 1 .. n /\ j # n
    BY <1>2
  <2>4. g[n] = [fr[n] EXCEPT !.block = to, !.calls = 0] /\ fr[n] \in Frame
    BY <2>1, <2>2, <2>3
  <2>5. g[n] \in Frame /\ g[n].fn = k0 /\ g[n].block = to
    <3> DEFINE x == fr[n]
    <3>1. x \in Frame /\ g[n] = [x EXCEPT !.block = to, !.calls = 0]
      BY <2>4
    <3>2. x.fn = k0
      BY DEF n
    <3> HIDE DEF x
    <3> DEFINE y == [x EXCEPT !.block = to, !.calls = 0]
    <3>3. x = [fn |-> x.fn, block |-> x.block, calls |-> x.calls] /\ x.fn \in Nat
      BY <3>1 DEF Frame
    <3>4. y = [fn |-> x.fn, block |-> to, calls |-> 0]
      <4> DEFINE z == [x EXCEPT !.block = to]
      <4>1. z = [fn |-> x.fn, block |-> to, calls |-> x.calls]
        BY <3>3
      <4>2. y = [z EXCEPT !.calls = 0]
        BY <3>3
      <4> HIDE DEF z
      <4>3. [z EXCEPT !.calls = 0] = [fn |-> z.fn, block |-> z.block, calls |-> 0]
        BY <4>1
      <4> QED
        BY <4>1, <4>2, <4>3
    <3>5. y \in Frame /\ y.fn = x.fn /\ y.block = to
      BY <1>4, <3>3, <3>4 DEF Frame
    <3>6. g[n] = y
      BY <3>1
    <3> HIDE DEF y
    <3> QED
      BY <3>2, <3>5, <3>6
  <2>6. \A j \in 1 .. n - 1 : g[j] = fr[j]
    BY <2>2, <2>3
  <2>7. \A j \in 1 .. n : g[j] \in Frame
    BY <2>1, <2>2, <2>5
  <2>8. g \in [1 .. n -> Frame]
    BY <2>2, <2>7
  <2> QED
    BY <1>2, <2>5, <2>6, <2>8
<1> HIDE DEF g
<1>6. \A j \in 1 .. n : <<g[j].fn, g[j].block>> \in Places(p)
  <2> SUFFICES ASSUME NEW j \in 1 .. n PROVE <<g[j].fn, g[j].block>> \in Places(p)
    OBVIOUS
  <2>1. CASE j = n
    BY <1>4, <1>5, <2>1
  <2>2. CASE j \in 1 .. n - 1
    <3>1. g[j].fn = fr[j].fn /\ g[j].block = fr[j].block /\ <<fr[j].fn, fr[j].block>> \in Places(p)
      BY <1>1, <1>5, <2>2
    <3> QED
      BY <3>1, Zenon
  <2>3. n \in Nat
    BY <1>2
  <2> HIDE DEF n
  <2>4. j = n \/ j \in 1 .. n - 1
    BY <2>3
  <2> QED
    BY <2>1, <2>2, <2>4
<1>7. IsFrames(p, g)
  BY <1>5, <1>6 DEF IsFrames
<1>8. n \in Nat \ {0} /\ fr[n].fn = k0 /\ fr[n].block = b0
  BY <1>2
<1> HIDE DEF n
<1>9. Balanced(p, [c EXCEPT ![<<k0, to>>] = @ + 1], g, n)
  <2>1. c \in [Places(p) -> Nat] /\ Balanced(p, c, fr, n)
    BY <1>1
  <2> QED
    BY <1>3, <1>5, <1>8, <2>1, GoingOnBalances
<1>10. [c EXCEPT ![<<k0, to>>] = @ + 1] \in [Places(p) -> Nat]
  BY <1>1, <1>4, CountingCounts
<1>11. Running(p, Counted(c, <<k0, to>>), g)
  BY <1>5, <1>7, <1>9, <1>10 DEF Running, Counted
<1> QED
  BY <1>2, <1>5, <1>11 DEF g

\* The list without its last element.
LEMMA FrontOf ==
    ASSUME NEW X, NEW s \in Seq(X), s # <<>>
    PROVE  /\ Len(s) \in Nat \ {0} /\ Last(s) = s[Len(s)] /\ Last(s) \in X
           /\ Front(s) \in Seq(X) /\ Len(Front(s)) = Len(s) - 1
           /\ \A i \in 1 .. Len(s) - 1 : Front(s)[i] = s[i]
<1>1. Len(s) \in Nat \ {0} /\ Last(s) = s[Len(s)] /\ s[Len(s)] \in X
  BY DEF Last
<1>2. Front(s) = SubSeq(s, 1, Len(s) - 1)
  BY DEF Front
<1> DEFINE w == [i \in 1 .. Len(s) - 1 |-> s[i]]
<1>3. SubSeq(s, 1, Len(s) - 1) = w
  <2> DEFINE n == Len(s) - 1
  <2>1. \A i \in 1 .. n : s[1 + i - 1] = s[i]
    OBVIOUS
  <2>2. (1 .. (n - 1) + 1) = 1 .. n
    BY <1>1
  <2> HIDE DEF n
  <2> QED
    BY <2>1, <2>2 DEF n
<1>4. w \in Seq(X) /\ Len(w) = Len(s) - 1 /\ \A i \in 1 .. Len(s) - 1 : w[i] = s[i]
  BY <1>1
<1> QED
  BY <1>1, <1>2, <1>3, <1>4

\* The top of the stack returns.
LEMMA ReturnGoesOn ==
    ASSUME NEW p \in Programs, NEW c, NEW fr, Running(p, c, fr), fr # <<>>,
           Successors(Instr(p, fr[Len(fr)].fn), fr[Len(fr)].block) = <<>>
    PROVE  /\ Running(p, c, Front(fr))
           /\ Len(fr) = 1 => Front(fr) = <<>>
           /\ Len(fr) # 1 => Front(fr) # <<>>
<1> DEFINE n == Len(fr)
           g == Front(fr)
<1>1. /\ c \in [Places(p) -> Nat] /\ fr \in Seq(Frame) /\ Balanced(p, c, fr, n)
      /\ \A j \in 1 .. n : <<fr[j].fn, fr[j].block>> \in Places(p)
  BY DEF Running, IsFrames
<1>2. n \in Nat \ {0} /\ n - 1 \in Nat /\ n > 0
  BY <1>1
<1>3. g \in Seq(Frame) /\ Len(g) = n - 1 /\ \A j \in 1 .. n - 1 : g[j] = fr[j]
  BY <1>1, <1>2, FrontOf
<1> HIDE DEF g
<1>4. IsFrames(p, g)
  <2>1. \A j \in 1 .. n - 1 : <<g[j].fn, g[j].block>> \in Places(p)
    <3> SUFFICES ASSUME NEW j \in 1 .. n - 1 PROVE <<g[j].fn, g[j].block>> \in Places(p)
      OBVIOUS
    <3>1. g[j] = fr[j] /\ <<fr[j].fn, fr[j].block>> \in Places(p)
      BY <1>1, <1>2, <1>3
    <3> QED
      BY <3>1, Zenon
  <2> QED
    BY <1>3, <2>1 DEF IsFrames
<1>5. Balanced(p, c, g, n - 1)
  <2>1. \A j \in 1 .. n - 1 : g[j].fn = fr[j].fn /\ g[j].block = fr[j].block
    BY <1>3
  <2> HIDE DEF n
  <2>2. Successors(Instr(p, fr[n].fn), fr[n].block) = <<>>
    BY DEF n
  <2> QED
    BY <1>1, <1>2, <2>1, <2>2, ReturningBalances
<1>6. Running(p, c, g)
  BY <1>1, <1>3, <1>4, <1>5 DEF Running
<1>7. (n = 1 => g = <<>>) /\ (n # 1 => g # <<>>)
  BY <1>2, <1>3
<1> QED
  BY <1>6, <1>7 DEF g

\* What is on disk of a profile
OnDisk(f, lines) == f \in CutShort(lines) \cup {lines \o lines}

\* What is there of the run and of its file, until the profile has been read
BuildInv ==
    /\ program \in Programs
    /\ Running(program, counters, frames)
    /\ stage = "run" => frames # <<>> /\ file = <<>>
    /\ stage = "exit" => frames = <<>> /\ file = <<>>
    /\ stage \in {"load", "annotate"} =>
         file = <<>> \/ (frames = <<>> /\ OnDisk(file, Dump(Records, counters)))
    /\ stage = "annotate" => profile = Parse(file)

\* Before anything is run main is entered, and nothing is in the middle of anything else.
LEMMA MainIsEntered ==
    ASSUME NEW p \in Programs
    PROVE  LET e == Entry(p[1])
               fr == <<[fn |-> 1, block |-> e, calls |-> 0]>>
               c == [x \in Places(p) |-> IF x = <<1, e>> THEN 1 ELSE 0]
           IN Running(p, c, fr) /\ fr # <<>>
<1> DEFINE z == [x \in Places(p) |-> 0]
           e == Entry(p[1])
           f == [fn |-> 1, block |-> e, calls |-> 0]
           fr == <<f>>
           c == [x \in Places(p) |-> IF x = <<1, e>> THEN 1 ELSE 0]
<1>1. 1 \in DOMAIN p
  BY ProgramsAssumption
<1>2. e \in Blocks(Instr(p, 1)) /\ Blocks(Instr(p, 1)) \subseteq Nat /\ 1 \in Nat
  BY <1>1, InstrIs
<1>3. <<1, e>> \in Places(p) /\ e \in Nat
  <2> HIDE DEF e
  <2> QED
    BY <1>1, <1>2 DEF Places
<1>4. f \in Frame /\ f.fn = 1 /\ f.block = e
  BY <1>3 DEF Frame
<1> HIDE DEF f
<1>5. fr \in Seq(Frame) /\ Len(fr) = 1 /\ fr[1] = f /\ fr # <<>>
  BY <1>4
<1>6. IsFrames(p, fr)
  <2>1. <<fr[1].fn, fr[1].block>> \in Places(p)
    BY <1>3, <1>4, <1>5
  <2> HIDE DEF fr
  <2>2. \A j \in 1 .. Len(fr) : j = 1
    BY <1>5
  <2> QED
    BY <1>5, <2>1, <2>2 DEF IsFrames
<1>7. Balanced(p, z, <<>>, 0)
  <2> SUFFICES ASSUME NEW k \in DOMAIN p, NEW b \in Blocks(Instr(p, k))
               PROVE  LET to == Successors(Instr(p, k), b) IN
                      /\ Len(to) = 2 =>
                           z[<<k, to[1]>>] + z[<<k, to[2]>>] + Within(<<>>, 0, k, b) = z[<<k, b>>]
                      /\ Len(to) = 1 => z[<<k, b>>] <= z[<<k, to[1]>>] + Within(<<>>, 0, k, b)
    BY DEF Balanced
  <2> DEFINE to == Successors(Instr(p, k), b)
  <2>1. DOMAIN to = 1 .. Len(to) /\ \A m \in DOMAIN to : to[m] \in Blocks(Instr(p, k))
    BY InstrIs
  <2>2. Within(<<>>, 0, k, b) = 0
    <3>1. {j \in 1 .. 0 : <<>>[j].fn = k /\ <<>>[j].block = b} = {}
      OBVIOUS
    <3> QED
      BY <3>1, FS_EmptySet DEF Within
  <2> HIDE DEF to
  <2>3. \A m \in 1 .. Len(to) : z[<<k, to[m]>>] = 0
    BY <2>1 DEF Places
  <2>4. z[<<k, b>>] = 0
    BY DEF Places
  <2> HIDE DEF z
  <2>5. ASSUME Len(to) = 2 PROVE z[<<k, to[1]>>] + z[<<k, to[2]>>] + Within(<<>>, 0, k, b) = z[<<k, b>>]
    BY <2>2, <2>3, <2>4, <2>5
  <2>6. ASSUME Len(to) = 1 PROVE z[<<k, b>>] <= z[<<k, to[1]>>] + Within(<<>>, 0, k, b)
    BY <2>2, <2>3, <2>4, <2>6
  <2> QED
    BY <2>5, <2>6 DEF to
<1>8. z \in [Places(p) -> Nat] /\ c \in [Places(p) -> Nat]
  OBVIOUS
<1>9. c = [z EXCEPT ![<<1, e>>] = @ + 1]
  <2>1. \A x \in Places(p) : z[x] = 0
    OBVIOUS
  <2>2. z[<<1, e>>] + 1 = 1
    BY <1>3, <2>1
  <2> HIDE DEF e
  <2> QED
    BY <2>2
<1>10. /\ \A j \in 1 .. 0 : fr[j].fn = <<>>[j].fn /\ fr[j].block = <<>>[j].block
       /\ fr[0 + 1].fn = 1 /\ fr[0 + 1].block = Entry(p[1])
  BY <1>4, <1>5
<1> HIDE DEF z, c, fr
<1>11. Balanced(p, [z EXCEPT ![<<1, Entry(p[1])>>] = @ + 1], fr, 0 + 1)
  BY <1>1, <1>7, <1>8, <1>10, EnteringBalances
<1>12. Balanced(p, c, fr, Len(fr))
  BY <1>5, <1>9, <1>11
<1>13. Running(p, c, fr)
  BY <1>6, <1>8, <1>12 DEF Running
<1> QED
  BY <1>5, <1>13, Zenon DEF c, fr, f, e

\* The invariant holds initially,
LEMMA BuildInitInv == BuildInit => BuildInv
<1> SUFFICES ASSUME BuildInit PROVE BuildInv
  OBVIOUS
<1> DEFINE e == Entry(program[1])
<1>1. /\ program \in Programs /\ stage = "run" /\ file = <<>>
      /\ frames = <<[fn |-> 1, block |-> e, calls |-> 0]>>
  BY DEF BuildInit
<1>2. counters = [x \in Places(program) |-> IF x = <<1, e>> THEN 1 ELSE 0]
  <2>1. Places(program) = UNION {{<<k, b>> : b \in Blocks(Measured(k))} : k \in Functions}
    BY Zenon DEF Places, Instr, Measured, Functions
  <2> QED
    BY <2>1, Zenon DEF BuildInit
<1>3. Running(program, counters, frames) /\ frames # <<>>
  BY <1>1, <1>2, MainIsEntered, Zenon
<1> QED
  BY <1>1, <1>3 DEF BuildInv

\* and every step keeps it.
LEMMA BuildNextInv == BuildInv /\ [BuildNext]_buildVars => BuildInv'
<1> SUFFICES ASSUME BuildInv, [BuildNext]_buildVars PROVE BuildInv'
  OBVIOUS
<1> DEFINE k0 == Top.fn
           b0 == Top.block
           p == program
<1>1. /\ p \in Programs /\ Running(p, counters, frames)
      /\ stage = "run" => frames # <<>> /\ file = <<>>
  BY DEF BuildInv
<1>2. ASSUME stage = "run"
      PROVE  /\ Top = frames[Len(frames)] /\ Measured(k0) = Instr(p, k0)
             /\ k0 \in DOMAIN p /\ b0 \in Blocks(Instr(p, k0))
             /\ frames \in Seq(Frame) /\ frames # <<>>
  <2>1. Top = frames[Len(frames)]
    BY DEF Top, Last
  <2>2. frames \in Seq(Frame) /\ frames # <<>> /\ \A j \in 1 .. Len(frames) : <<frames[j].fn, frames[j].block>> \in Places(p)
    BY <1>1, <1>2 DEF Running, IsFrames
  <2>3. Len(frames) \in 1 .. Len(frames)
    BY <2>2
  <2>4. <<k0, b0>> \in Places(p)
    BY <2>1, <2>2, <2>3
  <2>5. k0 \in DOMAIN p /\ b0 \in Blocks(Instr(p, k0))
    <3> HIDE DEF k0, b0
    <3> QED
      BY <2>4 DEF Places
  <2>6. Measured(k0) = Instr(p, k0)
    BY Zenon DEF Measured, Instr
  <2> QED
    BY <2>1, <2>2, <2>5, <2>6
<1>3. CASE Call
  <2> DEFINE callee == Measured(Top.fn).inst[CallsHere[Top.calls + 1]].attr
             g == Append([frames EXCEPT ![Len(frames)].calls = @ + 1],
                         [fn |-> callee, block |-> Entry(program[callee]), calls |-> 0])
  <2>1. /\ stage = "run" /\ Top.calls < Len(CallsHere)
        /\ counters' = [counters EXCEPT ![<<callee, Entry(program[callee])>>] = @ + 1]
        /\ frames' = g
        /\ UNCHANGED <<program, stage, file, profile, build>>
    BY <1>3, Zenon DEF Call, Count
  <2>2. callee \in DOMAIN p
    <3> DEFINE r == CallsIn(Instr(p, k0), b0)
               n == Top.calls
    <3>1. CallsHere = r /\ callee = Instr(p, k0).inst[r[n + 1]].attr
      BY <1>2, <2>1 DEF CallsHere
    <3>2. Len(r) \in Nat /\ \A m \in 1 .. Len(r) : Instr(p, k0).inst[r[m]].attr \in DOMAIN p
      BY <1>1, <1>2, <2>1, CallsAreThere
    <3>3. n \in Nat
      <4>1. frames \in Seq(Frame) /\ frames # <<>> /\ Top = frames[Len(frames)]
        BY <1>2, <2>1
      <4>2. frames[Len(frames)] \in Frame
        BY <4>1
      <4> QED
        BY <4>1, <4>2 DEF Frame
    <3> HIDE DEF r, n, callee, k0
    <3>4. n < Len(r)
      BY <2>1, <3>1 DEF n
    <3>5. n + 1 \in 1 .. Len(r)
      BY <3>2, <3>3, <3>4
    <3> QED
      BY <3>1, <3>2, <3>5
  <2> HIDE DEF callee
  <2>3. Running(p, counters', g) /\ g # <<>>
    BY <1>1, <1>2, <2>1, <2>2, CallGoesOn, Zenon
  <2> HIDE DEF g
  <2> QED
    BY <1>1, <2>1, <2>3 DEF BuildInv
<1>4. CASE GoTo
  <2>1. /\ stage = "run"
        /\ UNCHANGED <<program, stage, file, profile, build>>
    BY <1>4 DEF GoTo
  <2>2. PICK to \in ToSet(Successors(Measured(Top.fn), Top.block)) :
          /\ counters' = [counters EXCEPT ![<<Top.fn, to>>] = @ + 1]
          /\ frames' = [frames EXCEPT ![Len(frames)] = [@ EXCEPT !.block = to, !.calls = 0]]
    BY <1>4, Zenon DEF GoTo, Count
  <2>3. to \in ToSet(Successors(Instr(p, k0), b0))
    BY <1>2, <2>1
  <2>4. k0 = frames[Len(frames)].fn /\ b0 = frames[Len(frames)].block
    BY <1>2, <2>1
  <2>5. counters' = Counted(counters, <<k0, to>>) /\ frames' = Moved(frames, to)
    BY <2>2, Zenon DEF Counted, Moved
  <2> HIDE DEF k0, b0
  <2>6. Running(p, counters', frames') /\ frames' # <<>>
    <3>1. frames # <<>> /\ p \in Programs /\ Running(p, counters, frames)
      BY <1>1, <2>1
    <3> HIDE DEF p
    <3> QED
      BY <2>3, <2>4, <2>5, <3>1, GoToGoesOn
  <2> QED
    BY <1>1, <2>1, <2>6 DEF BuildInv
<1>5. CASE Return
  <2>1. /\ stage = "run" /\ Successors(Measured(Top.fn), Top.block) = <<>>
        /\ frames' = Front(frames)
        /\ stage' = IF Len(frames) = 1 THEN "exit" ELSE stage
        /\ UNCHANGED <<program, counters, file, profile, build>>
    BY <1>5 DEF Return
  <2>2. Successors(Instr(p, frames[Len(frames)].fn), frames[Len(frames)].block) = <<>>
    BY <1>2, <2>1
  <2>3. /\ Running(p, counters, Front(frames))
        /\ Len(frames) = 1 => Front(frames) = <<>>
        /\ Len(frames) # 1 => Front(frames) # <<>>
    BY <1>1, <2>1, <2>2, ReturnGoesOn, Zenon
  <2> DEFINE g == Front(frames)
  <2> HIDE DEF g
  <2>4. /\ Running(p, counters, g) /\ frames' = g
        /\ Len(frames) = 1 => g = <<>>
        /\ Len(frames) # 1 => g # <<>>
    BY <2>1, <2>3, Zenon DEF g
  <2> QED
    BY <1>1, <2>1, <2>4 DEF BuildInv
<1>6. CASE Die
  <2>1. stage = "run" /\ stage' = "load" /\ UNCHANGED <<program, execution, file, profile, build>>
    BY <1>6 DEF Die
  <2> QED
    BY <1>1, <2>1 DEF BuildInv, execution
<1>7. CASE DumpProfile
  <2>1. /\ stage = "exit" /\ stage' = "load"
        /\ file' \in CutShort(Dump(Records, counters)) \cup {Dump(Records, counters) \o Dump(Records, counters)}
        /\ UNCHANGED <<program, execution, profile, build>>
    BY <1>7, Zenon DEF DumpProfile
  <2>2. Dump(Records, counters)' = Dump(Records, counters)
    BY <2>1 DEF Records, Measured, Functions, execution
  <2>3. OnDisk(file, Dump(Records, counters))'
    BY <2>1, <2>2 DEF OnDisk
  <2>4. frames = <<>> /\ frames' = <<>> /\ counters' = counters /\ program' = program
    BY <2>1 DEF BuildInv, execution
  <2> QED
    BY <1>1, <2>1, <2>3, <2>4 DEF BuildInv
<1>8. CASE LoadProfile
  <2>1. /\ stage = "load" /\ stage' = "annotate" /\ profile' = Parse(file)
        /\ UNCHANGED <<program, frames, counters, file>>
    BY <1>8 DEF LoadProfile, execution
  <2>2. OnDisk(file, Dump(Records, counters))' = OnDisk(file, Dump(Records, counters))
    BY <2>1 DEF Records, Measured, Functions
  <2>3. file = <<>> \/ (frames = <<>> /\ OnDisk(file, Dump(Records, counters)))
    BY <2>1 DEF BuildInv
  <2> QED
    BY <1>1, <2>1, <2>2, <2>3 DEF BuildInv
<1>9. CASE AnnotateFirst \/ Inline \/ Unroll \/ DestroySSA \/ AnnotateSecond
  <2>1. /\ stage' \in {"inline", "unroll", "annotate again", "layout"}
        /\ UNCHANGED <<program, frames, counters>>
    <3>1. CASE AnnotateFirst
      BY <3>1 DEF AnnotateFirst, execution
    <3>2. CASE Inline
      BY <3>2 DEF Inline, execution
    <3>3. CASE Unroll
      <4>1. stage = "unroll" /\ UNCHANGED <<program, stage, execution>>
        BY <3>3 DEF Unroll
      <4> QED
        BY <4>1 DEF execution
    <3>4. CASE DestroySSA
      BY <3>4 DEF DestroySSA, execution
    <3>5. CASE AnnotateSecond
      BY <3>5 DEF AnnotateSecond, execution
    <3> QED
      BY <1>9, <3>1, <3>2, <3>3, <3>4, <3>5
  <2> QED
    BY <1>1, <2>1 DEF BuildInv
<1>10. CASE UNCHANGED buildVars
  <2>1. UNCHANGED <<program, stage, frames, counters, file, profile>>
    BY <1>10 DEF buildVars, execution
  <2>2. OnDisk(file, Dump(Records, counters))' = OnDisk(file, Dump(Records, counters))
    BY <2>1 DEF Records, Measured, Functions
  <2> QED
    BY <2>1, <2>2 DEF BuildInv
<1> QED
  BY <1>3, <1>4, <1>5, <1>6, <1>7, <1>8, <1>9, <1>10 DEF BuildNext

\* What the counters say holds at any time.
THEOREM BuildInvariant == BuildSpec => []BuildInv
<1> QED
  BY BuildInitInv, BuildNextInv, PTL DEF BuildSpec

-----------------------------------------------------------------------------
(* The records *)

\* No element twice
Once(r) == \A k, l \in 1 .. Len(r) : r[k] = r[l] => k = l

\* Two sequences, one behind the other: place by place,
LEMMA JoinAt ==
    ASSUME NEW X, NEW u \in Seq(X), NEW v \in Seq(X)
    PROVE  /\ u \o v \in Seq(X) /\ Len(u \o v) = Len(u) + Len(v) /\ Len(u) \in Nat /\ Len(v) \in Nat
           /\ \A i \in 1 .. Len(u) : (u \o v)[i] = u[i]
           /\ \A i \in 1 .. Len(v) : (u \o v)[Len(u) + i] = v[i]
OBVIOUS

\* and as sets.
LEMMA JoinIs ==
    ASSUME NEW X, NEW u \in Seq(X), NEW v \in Seq(X)
    PROVE  /\ u \o v \in Seq(X) /\ ToSet(u \o v) = ToSet(u) \cup ToSet(v)
           /\ Once(u) /\ Once(v) /\ ToSet(u) \cap ToSet(v) = {} => Once(u \o v)
<1> DEFINE w == u \o v
           n == Len(u)
           m == Len(v)
<1>1. /\ w \in Seq(X) /\ Len(w) = n + m /\ n \in Nat /\ m \in Nat
      /\ \A i \in 1 .. n : w[i] = u[i]
      /\ \A i \in 1 .. m : w[n + i] = v[i]
      /\ DOMAIN w = 1 .. n + m /\ DOMAIN u = 1 .. n /\ DOMAIN v = 1 .. m
  OBVIOUS
<1> HIDE DEF w, n, m
<1>2. \A i \in 1 .. n + m : i \in 1 .. n \/ \E j \in 1 .. m : i = n + j
  <2> SUFFICES ASSUME NEW i \in 1 .. n + m, i \notin 1 .. n PROVE \E j \in 1 .. m : i = n + j
    OBVIOUS
  <2>1. i - n \in 1 .. m /\ i = n + (i - n)
    BY <1>1
  <2> QED
    BY <2>1
<1>3. \A i \in 1 .. n : i \in 1 .. n + m /\ w[i] \in ToSet(u)
  <2> SUFFICES ASSUME NEW i \in 1 .. n PROVE i \in 1 .. n + m /\ w[i] \in ToSet(u)
    OBVIOUS
  <2>1. i \in 1 .. n + m
    BY <1>1
  <2>2. i \in DOMAIN u /\ w[i] = u[i]
    BY <1>1
  <2> QED
    BY <2>1, <2>2 DEF ToSet
<1>4. \A j \in 1 .. m : n + j \in 1 .. n + m /\ w[n + j] \in ToSet(v)
  <2> SUFFICES ASSUME NEW j \in 1 .. m PROVE n + j \in 1 .. n + m /\ w[n + j] \in ToSet(v)
    OBVIOUS
  <2>1. n + j \in 1 .. n + m
    BY <1>1
  <2>2. j \in DOMAIN v /\ w[n + j] = v[j]
    BY <1>1
  <2> QED
    BY <2>1, <2>2 DEF ToSet
<1>5. ToSet(w) = ToSet(u) \cup ToSet(v)
  <2>1. ASSUME NEW x \in ToSet(w) PROVE x \in ToSet(u) \cup ToSet(v)
    <3>1. PICK i \in 1 .. n + m : x = w[i]
      BY <1>1 DEF ToSet
    <3> QED
      BY <1>2, <1>3, <1>4, <3>1
  <2>2. ASSUME NEW x \in ToSet(u) PROVE x \in ToSet(w)
    <3>1. PICK i \in 1 .. n : x = u[i]
      BY <1>1 DEF ToSet
    <3> QED
      BY <1>1, <1>3, <3>1 DEF ToSet
  <2>3. ASSUME NEW x \in ToSet(v) PROVE x \in ToSet(w)
    <3>1. PICK j \in 1 .. m : x = v[j]
      BY <1>1 DEF ToSet
    <3> QED
      BY <1>1, <1>4, <3>1 DEF ToSet
  <2> QED
    BY <2>1, <2>2, <2>3
<1>6. ASSUME Once(u), Once(v), ToSet(u) \cap ToSet(v) = {} PROVE Once(w)
  <2> SUFFICES ASSUME NEW k \in 1 .. n + m, NEW l \in 1 .. n + m, w[k] = w[l] PROVE k = l
    BY <1>1 DEF Once
  <2>1. CASE k \in 1 .. n /\ l \in 1 .. n
    BY <1>1, <1>6, <2>1 DEF Once, n
  <2>2. CASE k \notin 1 .. n /\ l \notin 1 .. n
    <3>1. PICK i \in 1 .. m : k = n + i
      BY <1>2, <2>2
    <3>2. PICK j \in 1 .. m : l = n + j
      BY <1>2, <2>2
    <3>3. v[i] = v[j]
      BY <1>1, <3>1, <3>2
    <3>4. i = j
      BY <1>6, <3>3 DEF Once, m
    <3> QED
      BY <3>1, <3>2, <3>4
  <2>3. CASE k \in 1 .. n /\ l \notin 1 .. n
    <3>1. w[k] \in ToSet(u) /\ w[l] \in ToSet(v)
      BY <1>2, <1>3, <1>4, <2>3
    <3> QED
      BY <1>6, <3>1
  <2>4. CASE k \notin 1 .. n /\ l \in 1 .. n
    <3>1. w[l] \in ToSet(u) /\ w[k] \in ToSet(v)
      BY <1>2, <1>3, <1>4, <2>4
    <3> QED
      BY <1>6, <3>1
  <2> QED
    BY <2>1, <2>2, <2>3, <2>4
<1> QED
  BY <1>1, <1>5, <1>6 DEF w

\* One record each for some of the elements of a sequence
OneFor(o, S, rec) == FlattenSeq([n \in DOMAIN o |-> IF o[n] \in S THEN <<rec[o[n]]>> ELSE <<>>])

\* They are told apart where the elements are.
LEMMA SomeAreTold ==
    ASSUME NEW B, NEW o \in Seq(B), o # <<>>, IsInjective(o), NEW S, NEW rec,
           \A x, y \in B : rec[x] = rec[y] => x = y
    PROVE  /\ OneFor(o, S, rec) \in Seq({rec[x] : x \in B}) /\ Once(OneFor(o, S, rec))
           /\ ToSet(OneFor(o, S, rec)) = {rec[x] : x \in ToSet(o) \cap S}
<1> DEFINE size == Len(o)
           X == {rec[x] : x \in B}
           s == [n \in DOMAIN o |-> IF o[n] \in S THEN <<rec[o[n]]>> ELSE <<>>]
           r == FlattenSeq(s)
<1>1. size \in Nat \ {0} /\ DOMAIN o = 1 .. size /\ \A n \in 1 .. size : o[n] \in B
  OBVIOUS
<1>2. s \in [1 .. size -> Seq(X)]
  <2>1. ASSUME NEW x \in B PROVE <<rec[x]>> \in Seq(X) /\ <<>> \in Seq(X)
    <3>1. rec[x] \in X
      OBVIOUS
    <3> HIDE DEF X
    <3> QED
      BY <3>1
  <2> HIDE DEF X
  <2> QED
    BY <1>1, <2>1
<1>3. \A n \in 1 .. size : s[n] = IF o[n] \in S THEN <<rec[o[n]]>> ELSE <<>>
  BY <1>1
<1> HIDE DEF X, s, r
<1>4. r \in Seq(X) /\ IsFlat(r, s, size)
  BY <1>1, <1>2, FlattenIs DEF r
<1>5. ASSUME NEW n \in 1 .. size, NEW j \in 1 .. Len(s[n]) PROVE o[n] \in S /\ j = 1 /\ s[n][j] = rec[o[n]]
  <2>1. CASE o[n] \in S
    <3>1. s[n] = <<rec[o[n]]>>
      BY <1>3, <2>1
    <3>2. Len(s[n]) = 1 /\ s[n][1] = rec[o[n]]
      BY <3>1
    <3> QED
      BY <2>1, <3>2
  <2>2. CASE o[n] \notin S
    <3>1. s[n] = <<>>
      BY <1>3, <2>2
    <3> QED
      BY <3>1
  <2> QED
    BY <2>1, <2>2
<1>6. Once(r)
  <2>1. \A i, j \in 1 .. size : \A k \in 1 .. Len(s[i]) : \A l \in 1 .. Len(s[j]) :
          s[i][k] = s[j][l] => i = j /\ k = l
    <3> SUFFICES ASSUME NEW i \in 1 .. size, NEW j \in 1 .. size, NEW k \in 1 .. Len(s[i]), NEW l \in 1 .. Len(s[j]),
                        s[i][k] = s[j][l]
                 PROVE  i = j /\ k = l
      OBVIOUS
    <3>1. rec[o[i]] = rec[o[j]] /\ k = 1 /\ l = 1
      BY <1>5
    <3>2. o[i] = o[j]
      BY <1>1, <3>1
    <3> QED
      BY <1>1, <3>1, <3>2 DEF IsInjective
  <2> QED
    BY <1>4, <2>1 DEF IsFlat, Once
<1>7. ToSet(r) = {rec[x] : x \in ToSet(o) \cap S}
  <2>1. ASSUME NEW y \in ToSet(r) PROVE \E x \in ToSet(o) \cap S : y = rec[x]
    <3>1. PICK i \in 1 .. size : y \in ToSet(s[i])
      BY <1>4 DEF IsFlat
    <3>2. s[i] \in Seq(X)
      BY <1>2
    <3>3. PICK j \in 1 .. Len(s[i]) : y = s[i][j]
      BY <3>1, <3>2 DEF ToSet
    <3>4. o[i] \in S /\ y = rec[o[i]]
      BY <1>5, <3>3
    <3>5. o[i] \in ToSet(o)
      BY <1>1 DEF ToSet
    <3> QED
      BY <3>4, <3>5
  <2>2. ASSUME NEW x \in ToSet(o) \cap S PROVE rec[x] \in ToSet(r)
    <3>1. PICK i \in 1 .. size : x = o[i]
      BY <1>1 DEF ToSet
    <3>2. s[i] = <<rec[x]>>
      BY <1>3, <3>1
    <3>3. rec[x] \in ToSet(s[i])
      BY <3>2 DEF ToSet
    <3> QED
      BY <1>4, <3>3 DEF IsFlat
  <2> QED
    BY <2>1, <2>2
<1> QED
  BY <1>4, <1>6, <1>7 DEF r, s, X, OneFor

\* What a block of program p is called in the profile
BlockName(p, k, b) == <<k, Labelled(Instr(p, k), "crit.edge", Original(p[k]))[b]>>

\* The headers with a LOOP record, and the block from which the loop is entered
LoopsIn(p, k) ==
    {l \in LoopsOf(Instr(p, k), ImmediateDominators(Instr(p, k))) : l.preheaders # {}}
LoopHeads(p, k) == {h \in Blocks(Instr(p, k)) : \E l \in LoopsIn(p, k) : l.header = h}
EnteredFrom(p, k, h) == CHOOSE q \in (CHOOSE l \in LoopsIn(p, k) : l.header = h).preheaders : TRUE

\* The records of function k of p, by kind
Branches(p, k) == {b \in Blocks(Instr(p, k)) : Len(Successors(Instr(p, k), b)) = 2}
EntryRecord(p, k) == Record("FUNCTION", FunctionName(k), <<k, Entry(Instr(p, k))>>, <<k, Entry(Instr(p, k))>>)
BlockRecord(p, k, b) == Record("BLOCK", BlockName(p, k, b), <<k, b>>, <<k, b>>)
BranchRecord(p, k, b) ==
    Record("BRANCH", BlockName(p, k, b), <<k, Successors(Instr(p, k), b)[1]>>, <<k, Successors(Instr(p, k), b)[2]>>)
LoopRecord(p, k, h) == Record("LOOP", BlockName(p, k, h), <<k, h>>, <<k, EnteredFrom(p, k, h)>>)

BlockRecords(p, k) == {BlockRecord(p, k, b) : b \in Blocks(Instr(p, k))}
BranchesTold(p, k) == {BranchRecord(p, k, b) : b \in Branches(p, k)}
LoopsTold(p, k) == {LoopRecord(p, k, h) : h \in LoopHeads(p, k)}
RecordsIn(p, k) == {EntryRecord(p, k)} \cup BlockRecords(p, k) \cup BranchesTold(p, k) \cup LoopsTold(p, k)

\* A name tells the function and the block.
LEMMA NameTells ==
    ASSUME NEW p, NEW k, NEW b \in Blocks(Instr(p, k))
    PROVE  BlockName(p, k, b)[1] = k /\ BlockName(p, k, b)[2][2] = b
<1> DEFINE M == Instr(p, k)
           old == Original(p[k])
           lab == Labelled(M, "crit.edge", old)
<1>1. \A c \in DOMAIN old : old[c] = <<"block", c>>
  BY DEF Original
<1>2. lab[b] = IF b \in DOMAIN old THEN old[b] ELSE <<"crit.edge", b>>
  BY DEF Labelled
<1>3. lab[b][2] = b
  <2> HIDE DEF lab, old
  <2> QED
    BY <1>1, <1>2
<1>4. BlockName(p, k, b) = <<k, lab[b]>>
  BY DEF BlockName
<1> HIDE DEF lab
<1> QED
  BY <1>3, <1>4

\* A loop is entered from a block whose only way leads to its header.
LEMMA LoopEntryIs ==
    ASSUME NEW p \in Programs, NEW k \in DOMAIN p, NEW h \in LoopHeads(p, k)
    PROVE  LET q == EnteredFrom(p, k, h)
           IN /\ q \in Blocks(Instr(p, k)) /\ h \in Blocks(Instr(p, k))
              /\ Len(Successors(Instr(p, k), q)) = 1 /\ Successors(Instr(p, k), q)[1] = h
<1> DEFINE M == Instr(p, k)
           q == EnteredFrom(p, k, h)
           l == CHOOSE x \in LoopsIn(p, k) : x.header = h
<1>1. l \in LoopsIn(p, k) /\ l.header = h /\ h \in Blocks(M)
  BY DEF LoopHeads
<1>2. l \in LoopsOf(M, ImmediateDominators(M)) /\ l.preheaders # {}
  <2> HIDE DEF l
  <2> QED
    BY <1>1 DEF LoopsIn
<1>3. q \in l.preheaders
  <2> HIDE DEF l
  <2>1. q = CHOOSE x \in l.preheaders : TRUE
    BY Zenon DEF EnteredFrom, l
  <2> HIDE DEF q
  <2> QED
    BY <1>2, <2>1
<1>4. q \in ToSet(M.preds[h]) /\ Len(Successors(M, q)) = 1
  <2> HIDE DEF q, M
  <2> HIDE DEF l
  <2>1. PICK a \in Blocks(M) : \E body, outside :
          l = [header |-> a, body |-> body,
               preheaders |-> {x \in ToSet(M.preds[a]) \ body : Len(outside) = 1 /\ Len(Successors(M, x)) = 1}]
    BY <1>2, Zenon DEF LoopsOf
  <2>2. a = h
    BY <1>1, <2>1
  <2> QED
    BY <1>3, <2>1, <2>2
<1>5. Instrumented(p[k], M)
  BY InstrIs
<1> HIDE DEF M, q, l
<1>6. q \in Blocks(M) /\ h \in ToSet(Successors(M, q))
  BY <1>1, <1>4, <1>5 DEF Instrumented
<1>7. DOMAIN Successors(M, q) = 1 .. Len(Successors(M, q))
  BY <1>6, InstrIs DEF M
<1>8. Successors(M, q)[1] = h
  BY <1>4, <1>6, <1>7 DEF ToSet
<1> QED
  BY <1>1, <1>4, <1>6, <1>8, Zenon DEF M, q

\* Which functions and blocks are told of, and of each kind only once.
LEMMA RecordsAreIn ==
    ASSUME NEW p \in Programs, NEW k \in DOMAIN p
    PROVE  LET r == RecordsOf(k, Instr(p, k), Labelled(Instr(p, k), "crit.edge", Original(p[k])))
           IN r \in Seq(RecordsIn(p, k)) /\ Once(r) /\ r # <<>>
<1> DEFINE M == Instr(p, k)
           lab == Labelled(M, "crit.edge", Original(p[k]))
           o == M.order
           B == Blocks(M)
           E == {EntryRecord(p, k)}
           name == [b \in B |-> BlockName(p, k, b)]
<1>1. /\ o \in Seq(B) /\ o # <<>> /\ ToSet(o) = B /\ IsInjective(o)
  <2>1. Instrumented(p[k], M)
    BY InstrIs
  <2> HIDE DEF M
  <2> QED
    BY <2>1 DEF Instrumented, Formed
<1>2. \A x, y \in B : name[x] = name[y] => x = y
  <2>1. \A x \in B : name[x] = BlockName(p, k, x) /\ name[x][2][2] = x
    BY NameTells
  <2> HIDE DEF name, B
  <2> QED
    BY <2>1
<1>3. \A b \in B : <<k, lab[b]>> = name[b] /\ name[b] = BlockName(p, k, b)
  BY DEF BlockName
<1>4. \A b \in B : /\ BlockRecord(p, k, b).name = name[b] /\ BranchRecord(p, k, b).name = name[b]
                   /\ LoopRecord(p, k, b).name = name[b]
  BY <1>3 DEF BlockRecord, BranchRecord, LoopRecord, Record
<1>5. DOMAIN o = 1 .. Len(o) /\ Len(o) \in Nat \ {0} /\ \A n \in DOMAIN o : o[n] \in B
  <2> HIDE DEF o, B
  <2> QED
    BY <1>1
<1> DEFINE u1 == <<EntryRecord(p, k)>>
           u2 == [n \in DOMAIN o |-> Record("BLOCK", <<k, lab[o[n]]>>, <<k, o[n]>>, <<k, o[n]>>)]
           u3 == BranchRecords(k, M, lab)
           u4 == LoopRecords(k, M, lab)
<1>6. u1 \in Seq(E) /\ Once(u1)
  <2>1. EntryRecord(p, k) \in E
    OBVIOUS
  <2>2. Len(u1) = 1
    OBVIOUS
  <2> HIDE DEF E
  <2>3. u1 \in Seq(E)
    BY <2>1
  <2> HIDE DEF u1
  <2> QED
    BY <2>2, <2>3 DEF Once
<1>7. u2 \in Seq(BlockRecords(p, k)) /\ Once(u2)
  <2>1. \A n \in DOMAIN o : u2[n] = BlockRecord(p, k, o[n])
    BY <1>3, <1>5 DEF BlockRecord
  <2>2. DOMAIN u2 = DOMAIN o
    OBVIOUS
  <2>3. \A n \in DOMAIN o : u2[n] \in BlockRecords(p, k)
    BY <1>5, <2>1 DEF BlockRecords
  <2>4. u2 \in [1 .. Len(o) -> BlockRecords(p, k)]
    <3>1. u2 = [n \in 1 .. Len(o) |-> u2[n]]
      BY <1>5
    <3> HIDE DEF u2
    <3> QED
      BY <1>5, <2>3, <3>1
  <2>5. u2 \in Seq(BlockRecords(p, k)) /\ Len(u2) = Len(o)
    <3> HIDE DEF u2, o
    <3> QED
      BY <1>5, <2>4
  <2>6. ASSUME NEW m \in 1 .. Len(o), NEW n \in 1 .. Len(o), u2[m] = u2[n] PROVE m = n
    <3>1. m \in DOMAIN o /\ n \in DOMAIN o
      BY <1>5
    <3>2. u2[m] = BlockRecord(p, k, o[m]) /\ u2[n] = BlockRecord(p, k, o[n]) /\ o[m] \in B /\ o[n] \in B
      BY <1>5, <2>1, <3>1, Zenon
    <3> HIDE DEF u2, o, B, name
    <3>3. name[o[m]] = name[o[n]]
      <4>1. /\ BlockRecord(p, k, o[m]).name = name[o[m]]
            /\ BlockRecord(p, k, o[n]).name = name[o[n]]
        BY <1>4, <3>2, Zenon
      <4> QED
        BY <2>6, <3>2, <4>1, Zenon
    <3>4. o[m] = o[n]
      BY <1>2, <3>2, <3>3
    <3> QED
      BY <1>1, <3>1, <3>4 DEF IsInjective
  <2> HIDE DEF u2
  <2> QED
    BY <2>5, <2>6 DEF Once
<1>8. u3 \in Seq(BranchesTold(p, k)) /\ Once(u3)
  <2> DEFINE S == Branches(p, k)
             rec == [b \in B |-> BranchRecord(p, k, b)]
             s == [n \in DOMAIN o |-> IF o[n] \in S THEN <<rec[o[n]]>> ELSE <<>>]
             t == [n \in DOMAIN o |->
                    LET b == o[n]
                        to == Successors(M, b)
                    IN IF Len(to) = 2 THEN <<Record("BRANCH", <<k, lab[b]>>, <<k, to[1]>>, <<k, to[2]>>)>>
                       ELSE <<>>]
  <2>1. u3 = FlattenSeq(t)
    BY Zenon DEF BranchRecords
  <2>2. ASSUME NEW n \in DOMAIN o PROVE t[n] = s[n]
    <3>1. o[n] \in B
      BY <1>5
    <3>2. o[n] \in S <=> Len(Successors(M, o[n])) = 2
      BY <3>1 DEF Branches
    <3>3. rec[o[n]] = BranchRecord(p, k, o[n])
      BY <3>1
    <3>4. rec[o[n]] = Record("BRANCH", <<k, lab[o[n]]>>, <<k, Successors(M, o[n])[1]>>, <<k, Successors(M, o[n])[2]>>)
      BY <1>3, <3>1, <3>3 DEF BranchRecord
    <3> HIDE DEF rec, S, lab, o, M
    <3> QED
      BY <3>2, <3>4
  <2>3. t = s
    <3>1. t = [n \in DOMAIN o |-> t[n]] /\ s = [n \in DOMAIN o |-> s[n]]
      OBVIOUS
    <3> HIDE DEF t, s
    <3> QED
      BY <2>2, <3>1
  <2>4. \A x, y \in B : rec[x] = rec[y] => x = y
    <3>1. \A x \in B : rec[x].name = name[x]
      BY <1>4
    <3> HIDE DEF rec, name, B
    <3> QED
      BY <1>2, <3>1
  <2> DEFINE r == OneFor(o, S, rec)
  <2>5. r \in Seq({rec[x] : x \in B}) /\ Once(r) /\ ToSet(r) = {rec[x] : x \in ToSet(o) \cap S}
    <3> HIDE DEF rec, S, B, o
    <3> QED
      BY <1>1, <2>4, SomeAreTold
  <2>6. ToSet(r) \subseteq BranchesTold(p, k)
    <3>1. \A x \in B : rec[x] = BranchRecord(p, k, x)
      OBVIOUS
    <3>2. S \subseteq B
      BY DEF Branches
    <3>3. \A x \in S : rec[x] \in BranchesTold(p, k)
      BY <3>1, <3>2, Zenon DEF BranchesTold
    <3> HIDE DEF rec, S, B, r, o
    <3> QED
      BY <2>5, <3>3
  <2> DEFINE X == {rec[x] : x \in B}
  <2>7. r \in Seq(X) /\ ToSet(r) \subseteq BranchesTold(p, k) /\ Once(r)
    BY <2>5, <2>6
  <2> HIDE DEF r, X
  <2>8. r \in Seq(BranchesTold(p, k))
    BY <2>7 DEF ToSet
  <2> QED
    BY <2>1, <2>3, <2>7, <2>8, Zenon DEF r, OneFor
<1>9. u4 \in Seq(LoopsTold(p, k)) /\ Once(u4)
  <2> DEFINE S == LoopHeads(p, k)
             rec == [b \in B |-> LoopRecord(p, k, b)]
             s == [n \in DOMAIN o |-> IF o[n] \in S THEN <<rec[o[n]]>> ELSE <<>>]
             loops == LoopsIn(p, k)
             before(h) == CHOOSE x \in (CHOOSE l \in loops : l.header = h).preheaders : TRUE
             t == [n \in DOMAIN o |->
                    LET h == o[n]
                    IN IF \E l \in loops : l.header = h
                         THEN <<Record("LOOP", <<k, lab[h]>>, <<k, h>>, <<k, before(h)>>)>>
                         ELSE <<>>]
  <2>1. u4 = FlattenSeq(t)
    BY Zenon DEF LoopRecords, LoopsIn
  <2>2. ASSUME NEW n \in DOMAIN o PROVE t[n] = s[n]
    <3>1. o[n] \in B
      BY <1>5
    <3>2. o[n] \in S <=> \E l \in loops : l.header = o[n]
      BY <3>1, Zenon DEF LoopHeads
    <3>3. rec[o[n]] = LoopRecord(p, k, o[n])
      BY <3>1
    <3>4. rec[o[n]] = Record("LOOP", <<k, lab[o[n]]>>, <<k, o[n]>>, <<k, before(o[n])>>)
      <4>1. <<k, lab[o[n]]>> = BlockName(p, k, o[n])
        BY <1>3, <3>1
      <4>2. before(o[n]) = EnteredFrom(p, k, o[n])
        BY Zenon DEF EnteredFrom
      <4> HIDE DEF rec, lab, o, B, loops
      <4> QED
        BY <3>3, <4>1, <4>2, Zenon DEF LoopRecord
    <3>5. t[n] = IF \E l \in loops : l.header = o[n]
                   THEN <<Record("LOOP", <<k, lab[o[n]]>>, <<k, o[n]>>, <<k, before(o[n])>>)>> ELSE <<>>
      BY Zenon
    <3>6. s[n] = IF o[n] \in S THEN <<rec[o[n]]>> ELSE <<>>
      BY Zenon
    <3> HIDE DEF rec, S, lab, o, M, loops, t, s
    <3> QED
      BY <3>2, <3>4, <3>5, <3>6, Zenon
  <2>3. t = s
    <3>1. t = [n \in DOMAIN o |-> t[n]] /\ s = [n \in DOMAIN o |-> s[n]]
      <4> HIDE DEF rec, S, lab, M, loops
      <4> QED
        OBVIOUS
    <3> HIDE DEF t, s
    <3> QED
      BY <2>2, <3>1
  <2>4. \A x, y \in B : rec[x] = rec[y] => x = y
    <3>1. \A x \in B : rec[x].name = name[x]
      BY <1>4
    <3> HIDE DEF rec, name, B
    <3> QED
      BY <1>2, <3>1
  <2> DEFINE r == OneFor(o, S, rec)
  <2>5. r \in Seq({rec[x] : x \in B}) /\ Once(r) /\ ToSet(r) = {rec[x] : x \in ToSet(o) \cap S}
    <3> HIDE DEF rec, S, B, o
    <3> QED
      BY <1>1, <2>4, SomeAreTold
  <2>6. ToSet(r) \subseteq LoopsTold(p, k)
    <3>1. \A x \in B : rec[x] = LoopRecord(p, k, x)
      OBVIOUS
    <3>2. S \subseteq B
      BY DEF LoopHeads
    <3>3. \A x \in S : rec[x] \in LoopsTold(p, k)
      BY <3>1, <3>2, Zenon DEF LoopsTold
    <3> HIDE DEF rec, S, B, r, o
    <3> QED
      BY <2>5, <3>3
  <2> DEFINE X == {rec[x] : x \in B}
  <2>7. r \in Seq(X) /\ ToSet(r) \subseteq LoopsTold(p, k) /\ Once(r)
    BY <2>5, <2>6
  <2> HIDE DEF r, X
  <2>8. r \in Seq(LoopsTold(p, k))
    BY <2>7 DEF ToSet
  <2> QED
    BY <2>1, <2>3, <2>7, <2>8, Zenon DEF r, OneFor
<1> DEFINE R == RecordsIn(p, k)
<1>10. /\ E \subseteq R /\ BlockRecords(p, k) \subseteq R
       /\ BranchesTold(p, k) \subseteq R /\ LoopsTold(p, k) \subseteq R
  BY DEF RecordsIn
<1>11. /\ \A x \in E : x.kind = "FUNCTION"
       /\ \A x \in BlockRecords(p, k) : x.kind = "BLOCK"
       /\ \A x \in BranchesTold(p, k) : x.kind = "BRANCH"
       /\ \A x \in LoopsTold(p, k) : x.kind = "LOOP"
  BY DEF BlockRecords, BranchesTold, LoopsTold, EntryRecord, BlockRecord, BranchRecord, LoopRecord, Record
<1>12. RecordsOf(k, M, lab) = u1 \o u2 \o u3 \o u4
  BY Zenon DEF RecordsOf, EntryRecord
<1>13. u1 # <<>> /\ Len(u1) = 1
  OBVIOUS
<1> HIDE DEF u1, u2, u3, u4, E, R, M, lab, o, B, name
<1>14. /\ u1 \in Seq(R) /\ u2 \in Seq(R) /\ u3 \in Seq(R) /\ u4 \in Seq(R)
       /\ ToSet(u1) \subseteq E /\ ToSet(u2) \subseteq BlockRecords(p, k)
       /\ ToSet(u3) \subseteq BranchesTold(p, k) /\ ToSet(u4) \subseteq LoopsTold(p, k)
  <2>1. \A X, u : u \in Seq(X) => ToSet(u) \subseteq X
    BY DEF ToSet
  <2>2. \A X, Y, u : u \in Seq(X) /\ X \subseteq Y => u \in Seq(Y)
    OBVIOUS
  <2> QED
    BY <1>6, <1>7, <1>8, <1>9, <1>10, <2>1, <2>2
<1>15. u1 \o u2 \in Seq(R) /\ ToSet(u1 \o u2) = ToSet(u1) \cup ToSet(u2) /\ Once(u1 \o u2)
  <2>1. ToSet(u1) \cap ToSet(u2) = {}
    BY <1>11, <1>14
  <2> QED
    BY <1>6, <1>7, <1>14, <2>1, JoinIs
<1> DEFINE v == u1 \o u2
           w == v \o u3
<1>16. w \in Seq(R) /\ ToSet(w) = ToSet(u1) \cup ToSet(u2) \cup ToSet(u3) /\ Once(w)
  <2>1. v \in Seq(R) /\ ToSet(v) = ToSet(u1) \cup ToSet(u2) /\ Once(v)
    BY <1>15
  <2> HIDE DEF v
  <2>2. ToSet(v) \cap ToSet(u3) = {}
    BY <1>11, <1>14, <2>1
  <2>3. w \in Seq(R) /\ ToSet(w) = ToSet(v) \cup ToSet(u3) /\ Once(w)
    BY <1>8, <1>14, <2>1, <2>2, JoinIs
  <2> HIDE DEF w
  <2> QED
    BY <2>1, <2>3
<1>17. w \o u4 \in Seq(R) /\ Once(w \o u4)
  <2> HIDE DEF w
  <2>1. ToSet(w) \cap ToSet(u4) = {}
    BY <1>11, <1>14, <1>16
  <2> QED
    BY <1>9, <1>14, <1>16, <2>1, JoinIs
<1>18. ((u1 \o u2) \o u3) \o u4 # <<>>
  <2> DEFINE z == ((u1 \o u2) \o u3) \o u4
  <2>1. Len(z) = ((Len(u1) + Len(u2)) + Len(u3)) + Len(u4)
    BY <1>14, <1>15, <1>16
  <2>2. Len(u1) = 1 /\ Len(u2) \in Nat /\ Len(u3) \in Nat /\ Len(u4) \in Nat
    BY <1>13, <1>14
  <2> HIDE DEF z
  <2>3. Len(z) > 0
    BY <2>1, <2>2
  <2>4. z # <<>>
    BY <2>3
  <2> QED
    BY <2>4 DEF z
<1> QED
  BY <1>12, <1>17, <1>18 DEF R, M, lab

\* The table of the records of program p, and what is in it
Table(p) ==
    FlattenSeq([k \in DOMAIN p |->
        RecordsOf(k, Instr(p, k), Labelled(Instr(p, k), "crit.edge", Original(p[k])))])
AllRecords(p) == UNION {RecordsIn(p, k) : k \in DOMAIN p}

\* The kind and the name tell a record.
LEMMA KeysTell ==
    ASSUME NEW p \in Programs
    PROVE  /\ \A k \in DOMAIN p : \A x \in RecordsIn(p, k) :
                x.name[1] = k /\ x.kind \in {"FUNCTION", "BLOCK", "BRANCH", "LOOP"}
           /\ \A x, y \in AllRecords(p) : x.kind = y.kind /\ x.name = y.name => x = y
<1>1. ASSUME NEW k \in DOMAIN p, NEW x \in RecordsIn(p, k)
      PROVE  /\ x.name[1] = k /\ x.kind \in {"FUNCTION", "BLOCK", "BRANCH", "LOOP"}
             /\ x.kind = "FUNCTION" => x = EntryRecord(p, k)
             /\ x.kind = "BLOCK" => x = BlockRecord(p, k, x.name[2][2])
             /\ x.kind = "BRANCH" => x = BranchRecord(p, k, x.name[2][2])
             /\ x.kind = "LOOP" => x = LoopRecord(p, k, x.name[2][2])
  <2>1. CASE x = EntryRecord(p, k)
    <3>1. x.kind = "FUNCTION" /\ x.name = <<k, <<"function", 0>>>>
      BY <2>1 DEF EntryRecord, Record, FunctionName
    <3> QED
      BY <2>1, <3>1
  <2>2. ASSUME NEW b \in Blocks(Instr(p, k)), x = BlockRecord(p, k, b)
        PROVE  x.name[1] = k /\ x.kind = "BLOCK" /\ x.name[2][2] = b
    BY <2>2, NameTells DEF BlockRecord, Record
  <2>3. ASSUME NEW b \in Blocks(Instr(p, k)), x = BranchRecord(p, k, b)
        PROVE  x.name[1] = k /\ x.kind = "BRANCH" /\ x.name[2][2] = b
    BY <2>3, NameTells DEF BranchRecord, Record
  <2>4. ASSUME NEW b \in Blocks(Instr(p, k)), x = LoopRecord(p, k, b)
        PROVE  x.name[1] = k /\ x.kind = "LOOP" /\ x.name[2][2] = b
    BY <2>4, NameTells DEF LoopRecord, Record
  <2>5. \/ x = EntryRecord(p, k)
        \/ \E b \in Blocks(Instr(p, k)) :
             x = BlockRecord(p, k, b) \/ x = BranchRecord(p, k, b) \/ x = LoopRecord(p, k, b)
    BY DEF RecordsIn, BlockRecords, BranchesTold, LoopsTold, Branches, LoopHeads
  <2> QED
    BY <2>1, <2>2, <2>3, <2>4, <2>5
<1>2. ASSUME NEW x \in AllRecords(p), NEW y \in AllRecords(p), x.kind = y.kind, x.name = y.name PROVE x = y
  <2>1. PICK k \in DOMAIN p : x \in RecordsIn(p, k)
    BY DEF AllRecords
  <2>2. PICK l \in DOMAIN p : y \in RecordsIn(p, l)
    BY DEF AllRecords
  <2>3. k = l
    BY <1>1, <1>2, <2>1, <2>2
  <2> QED
    BY <1>1, <1>2, <2>1, <2>2, <2>3
<1> QED
  BY <1>1, <1>2

\* The table tells of nothing twice.
LEMMA TableIs ==
    ASSUME NEW p \in Programs
    PROVE  Table(p) \in Seq(AllRecords(p)) /\ Once(Table(p)) /\ Table(p) # <<>>
<1> DEFINE size == Len(p)
           X == AllRecords(p)
           s == [k \in DOMAIN p |->
                  RecordsOf(k, Instr(p, k), Labelled(Instr(p, k), "crit.edge", Original(p[k])))]
           r == Table(p)
<1>1. size \in Nat \ {0} /\ DOMAIN p = 1 .. size
  BY ProgramsAssumption
<1>2. \A k \in DOMAIN p : s[k] \in Seq(RecordsIn(p, k)) /\ Once(s[k]) /\ s[k] # <<>>
  BY RecordsAreIn
<1>3. DOMAIN s = DOMAIN p /\ s = [k \in 1 .. size |-> s[k]]
  BY <1>1
<1>4. r = FlattenSeq(s)
  BY Zenon DEF Table
<1> HIDE DEF s, r, size, X
<1>5. \A k \in 1 .. size : RecordsIn(p, k) \subseteq X
  BY <1>1 DEF AllRecords, X
<1>6. s \in [1 .. size -> Seq(X)]
  <2>1. \A k \in 1 .. size : s[k] \in Seq(X)
    BY <1>1, <1>2, <1>5
  <2> QED
    BY <1>3, <2>1
<1>7. r \in Seq(X) /\ IsFlat(r, s, size)
  BY <1>1, <1>4, <1>6, FlattenIs
<1>8. \A i \in 1 .. size : \A k \in 1 .. Len(s[i]) : s[i][k] \in RecordsIn(p, i) /\ s[i][k].name[1] = i
  <2> SUFFICES ASSUME NEW i \in 1 .. size, NEW k \in 1 .. Len(s[i])
               PROVE  s[i][k] \in RecordsIn(p, i) /\ s[i][k].name[1] = i
    OBVIOUS
  <2>1. s[i] \in Seq(RecordsIn(p, i)) /\ i \in DOMAIN p
    BY <1>1, <1>2
  <2>2. s[i][k] \in RecordsIn(p, i)
    BY <2>1
  <2> QED
    BY <2>1, <2>2, KeysTell
<1>9. Once(r)
  <2>1. \A i, j \in 1 .. size : \A k \in 1 .. Len(s[i]) : \A l \in 1 .. Len(s[j]) :
          s[i][k] = s[j][l] => i = j /\ k = l
    <3> SUFFICES ASSUME NEW i \in 1 .. size, NEW j \in 1 .. size, NEW k \in 1 .. Len(s[i]), NEW l \in 1 .. Len(s[j]),
                        s[i][k] = s[j][l]
                 PROVE  i = j /\ k = l
      OBVIOUS
    <3>1. i = j
      BY <1>8, SMTT(30)
    <3>2. Once(s[i])
      BY <1>1, <1>2
    <3> QED
      BY <3>1, <3>2 DEF Once
  <2> QED
    BY <1>7, <2>1 DEF IsFlat, Once
<1>10. r # <<>>
  <2>1. 1 \in 1 .. size /\ 1 \in DOMAIN p
    BY <1>1
  <2>2. s[1] \in Seq(X) /\ s[1] # <<>>
    BY <1>2, <1>6, <2>1
  <2>3. s[1][1] \in ToSet(s[1])
    <3> DEFINE t == s[1]
    <3>1. t \in Seq(X) /\ t # <<>>
      BY <2>2
    <3> HIDE DEF t
    <3>2. t[1] \in ToSet(t)
      BY <3>1 DEF ToSet
    <3> QED
      BY <3>2 DEF t
  <2>4. s[1][1] \in ToSet(r)
    BY <1>7, <2>1, <2>3 DEF IsFlat
  <2> QED
    BY <1>7, <2>4 DEF ToSet
<1> QED
  BY <1>7, <1>9, <1>10 DEF r, X

\* The lines of the whole file, when the counters are c
Lines(p, c) == ToSet(Header) \cup {Written(x, c) : x \in AllRecords(p)}
IsDump(p, c, L) ==
    /\ L \in Seq(Lines(p, c)) /\ Len(L) \in Nat /\ Len(L) >= 2
    /\ L[1] = Header[1] /\ L[2] = Header[2]
    /\ \A n \in 3 .. Len(L) : \E x \in AllRecords(p) : L[n] = Written(x, c)
    /\ \A m, n \in 3 .. Len(L) : L[m].kind = L[n].kind /\ L[m].name = L[n].name => m = n

\* A line has the kind and the name of its record.
LEMMA WrittenKeeps ==
    ASSUME NEW x, NEW c
    PROVE  Written(x, c).kind = x.kind /\ Written(x, c).name = x.name
BY DEF Written, Line

\* The runtime writes each record once.
LEMMA DumpIs ==
    ASSUME NEW p \in Programs, NEW c
    PROVE  IsDump(p, c, Dump(Table(p), c))
<1> DEFINE A == AllRecords(p)
           t == Table(p)
           same == [x \in A |-> x]
           group(kind) == FlattenSeq([n \in DOMAIN t |-> IF t[n].kind = kind THEN <<t[n]>> ELSE <<>>])
           s == [n \in DOMAIN Kinds |-> group(Kinds[n])]
           w == FlattenSeq(s)
           v == [n \in DOMAIN w |-> Written(w[n], c)]
           L == Dump(t, c)
<1>1. t \in Seq(A) /\ Once(t) /\ t # <<>>
  BY TableIs
<1>2. IsInjective(t) /\ DOMAIN t = 1 .. Len(t) /\ \A n \in DOMAIN t : t[n] \in A
  <2> HIDE DEF t, A
  <2> QED
    BY <1>1 DEF Once, IsInjective
<1>3. ASSUME NEW kind
      PROVE  /\ group(kind) \in Seq(A) /\ Once(group(kind))
             /\ \A x \in ToSet(group(kind)) : x.kind = kind
  <2> DEFINE S == {x \in A : x.kind = kind}
             r == OneFor(t, S, same)
  <2>1. \A x, y \in A : same[x] = same[y] => x = y
    OBVIOUS
  <2>2. r \in Seq({same[x] : x \in A}) /\ Once(r) /\ ToSet(r) = {same[x] : x \in ToSet(t) \cap S}
    <3>1. t \in Seq(A) /\ t # <<>> /\ IsInjective(t)
      BY <1>1, <1>2
    <3> HIDE DEF t, A, same, S
    <3> QED
      BY <2>1, <3>1, SomeAreTold, SMTT(60)
  <2>3. {same[x] : x \in A} = A /\ \A x \in {same[y] : y \in ToSet(t) \cap S} : x.kind = kind
    OBVIOUS
  <2>4. r = group(kind)
    <3> DEFINE e == [n \in DOMAIN t |-> IF t[n].kind = kind THEN <<t[n]>> ELSE <<>>]
               f == [n \in DOMAIN t |-> IF t[n] \in S THEN <<same[t[n]]>> ELSE <<>>]
    <3>1. \A n \in DOMAIN t : e[n] = f[n]
      <4> HIDE DEF t, A
      <4> QED
        BY <1>2
    <3>2. e = [n \in DOMAIN t |-> e[n]] /\ f = [n \in DOMAIN t |-> f[n]]
      OBVIOUS
    <3>3. e = f
      <4> HIDE DEF e, f
      <4> QED
        BY <3>1, <3>2
    <3> QED
      BY <3>3, Zenon DEF OneFor
  <2> HIDE DEF r, group, same
  <2> QED
    BY <2>2, <2>3, <2>4
<1> HIDE DEF t, A, group
<1>4. /\ DOMAIN Kinds = 1 .. 4 /\ \A m, n \in 1 .. 4 : Kinds[m] = Kinds[n] => m = n
  BY DEF Kinds
<1>5. s \in [1 .. 4 -> Seq(A)] /\ \A n \in 1 .. 4 : s[n] = group(Kinds[n])
  <2>1. \A n \in 1 .. 4 : group(Kinds[n]) \in Seq(A)
    BY <1>3
  <2>2. s = [n \in 1 .. 4 |-> group(Kinds[n])]
    BY <1>4
  <2> QED
    BY <2>1, <2>2
<1> HIDE DEF s, w
<1>6. w \in Seq(A) /\ IsFlat(w, s, 4)
  <2> DEFINE n == 4
  <2>1. n \in Nat \ {0} /\ s \in [1 .. n -> Seq(A)]
    BY <1>5
  <2> HIDE DEF n
  <2>2. w \in Seq(A) /\ IsFlat(w, s, n)
    BY <2>1, FlattenIs DEF w
  <2> QED
    BY <2>2 DEF n
<1>7. Once(w)
  <2>1. \A i, j \in 1 .. 4 : \A k \in 1 .. Len(s[i]) : \A l \in 1 .. Len(s[j]) :
          s[i][k] = s[j][l] => i = j /\ k = l
    <3> SUFFICES ASSUME NEW i \in 1 .. 4, NEW j \in 1 .. 4, NEW k \in 1 .. Len(s[i]), NEW l \in 1 .. Len(s[j]),
                        s[i][k] = s[j][l]
                 PROVE  i = j /\ k = l
      OBVIOUS
    <3>1. \A n \in 1 .. 4 : \A m \in 1 .. Len(s[n]) : s[n][m].kind = Kinds[n]
      <4> SUFFICES ASSUME NEW n \in 1 .. 4, NEW m \in 1 .. Len(s[n]) PROVE s[n][m].kind = Kinds[n]
        OBVIOUS
      <4>1. s[n] \in Seq(A) /\ \A x \in ToSet(s[n]) : x.kind = Kinds[n]
        BY <1>3, <1>5
      <4> QED
        BY <4>1 DEF ToSet
    <3>2. i = j
      <4>1. s[i][k].kind = Kinds[i] /\ s[j][l].kind = Kinds[j]
        BY <3>1
      <4>2. Kinds[i] = Kinds[j]
        BY <4>1
      <4> QED
        BY <1>4, <4>2
    <3>3. Once(s[i])
      BY <1>3, <1>5
    <3> QED
      BY <3>2, <3>3 DEF Once
  <2> QED
    BY <1>6, <2>1 DEF IsFlat, Once
<1> DEFINE size == Len(w)
           H == Header
<1>8. size \in Nat /\ DOMAIN w = 1 .. size /\ \A n \in 1 .. size : w[n] \in A
  BY <1>6
<1>9. v \in Seq(Lines(p, c)) /\ Len(v) = size /\ \A n \in 1 .. size : v[n] = Written(w[n], c)
  <2>1. \A n \in 1 .. size : Written(w[n], c) \in Lines(p, c)
    BY <1>8 DEF Lines, A
  <2>2. v = [n \in 1 .. size |-> Written(w[n], c)]
    BY <1>8
  <2> QED
    BY <1>8, <2>1, <2>2
<1>10. H \in Seq(Lines(p, c)) /\ Len(H) = 2
  <2>1. Len(H) = 2 /\ DOMAIN H = 1 .. 2 /\ H = [n \in 1 .. 2 |-> H[n]]
    BY DEF Header
  <2>2. \A n \in 1 .. 2 : H[n] \in Lines(p, c)
    BY <2>1 DEF Lines, ToSet
  <2> HIDE DEF H
  <2> QED
    BY <2>1, <2>2
<1>11. L = H \o v
  BY Zenon DEF Dump, group, s, w
<1> HIDE DEF v, size, L, H
<1>12. /\ L \in Seq(Lines(p, c)) /\ Len(L) = 2 + size /\ L[1] = H[1] /\ L[2] = H[2]
       /\ \A n \in 1 .. size : L[2 + n] = v[n]
  <2> DEFINE Y == Lines(p, c)
  <2>1. H \in Seq(Y) /\ v \in Seq(Y) /\ Len(H) = 2 /\ Len(v) = size /\ size \in Nat
    BY <1>8, <1>9, <1>10
  <2> HIDE DEF Y
  <2>2. /\ H \o v \in Seq(Y) /\ Len(H \o v) = 2 + size /\ (H \o v)[1] = H[1] /\ (H \o v)[2] = H[2]
        /\ \A n \in 1 .. size : (H \o v)[2 + n] = v[n]
    <3> DEFINE z == H \o v
    <3>1. /\ z \in Seq(Y) /\ Len(z) = Len(H) + Len(v)
          /\ \A i \in 1 .. Len(H) : z[i] = H[i]
          /\ \A i \in 1 .. Len(v) : z[Len(H) + i] = v[i]
      <4>1. /\ H \o v \in Seq(Y) /\ Len(H \o v) = Len(H) + Len(v) /\ Len(H) \in Nat /\ Len(v) \in Nat
            /\ \A i \in 1 .. Len(H) : (H \o v)[i] = H[i]
            /\ \A i \in 1 .. Len(v) : (H \o v)[Len(H) + i] = v[i]
        <5>1. \A q, e \in Seq(Y) :
                /\ q \o e \in Seq(Y) /\ Len(q \o e) = Len(q) + Len(e) /\ Len(q) \in Nat /\ Len(e) \in Nat
                /\ \A i \in 1 .. Len(q) : (q \o e)[i] = q[i]
                /\ \A i \in 1 .. Len(e) : (q \o e)[Len(q) + i] = e[i]
          BY JoinAt
        <5> HIDE DEF H, v
        <5> QED
          BY <2>1, <5>1
      <4> QED
        BY <4>1
    <3> HIDE DEF z
    <3> QED
      BY <2>1, <3>1 DEF z
  <2> QED
    BY <1>11, <2>2 DEF Y
<1>13. ASSUME NEW n \in 3 .. Len(L)
       PROVE  n - 2 \in 1 .. size /\ w[n - 2] \in A /\ L[n] = Written(w[n - 2], c)
  <2>1. n - 2 \in 1 .. size /\ n = 2 + (n - 2)
    BY <1>8, <1>12
  <2> QED
    BY <1>8, <1>9, <1>12, <2>1
<1>14. ASSUME NEW m \in 3 .. Len(L), NEW n \in 3 .. Len(L), L[m].kind = L[n].kind, L[m].name = L[n].name
       PROVE  m = n
  <2> DEFINE x == w[m - 2]
             y == w[n - 2]
  <2>1. m - 2 \in 1 .. size /\ n - 2 \in 1 .. size /\ x \in A /\ y \in A
        /\ L[m] = Written(x, c) /\ L[n] = Written(y, c)
    BY <1>13
  <2>2. x.kind = y.kind /\ x.name = y.name
    <3> HIDE DEF x, y
    <3> QED
      BY <1>14, <2>1, WrittenKeeps
  <2>3. x = y
    BY <2>1, <2>2, KeysTell DEF A
  <2>4. m - 2 = n - 2
    BY <1>7, <2>1, <2>3 DEF Once, size
  <2> QED
    BY <2>4
<1>15. Len(L) \in Nat /\ Len(L) >= 2
  BY <1>8, <1>12
<1>16. \A n \in 3 .. Len(L) : \E x \in A : L[n] = Written(x, c)
  BY <1>13
<1> QED
  BY <1>12, <1>14, <1>15, <1>16 DEF IsDump, L, t, A, H

\* The counters a record names are there.
LEMMA RecordPlaces ==
    ASSUME NEW p \in Programs, NEW k \in DOMAIN p, NEW x \in RecordsIn(p, k)
    PROVE  x.a \in Places(p) /\ x.b \in Places(p)
<1> DEFINE M == Instr(p, k)
           B == Blocks(M)
<1>1. \A b \in B : <<k, b>> \in Places(p)
  BY DEF Places
<1>2. Entry(M) \in B
  <2>1. Instrumented(p[k], M)
    BY InstrIs
  <2> HIDE DEF M
  <2> QED
    BY <2>1, FreshIs DEF Instrumented
<1>3. \A b \in B : /\ DOMAIN Successors(M, b) = 1 .. Len(Successors(M, b))
                   /\ \A m \in DOMAIN Successors(M, b) : Successors(M, b)[m] \in B
  BY InstrIs
<1>4. CASE x = EntryRecord(p, k)
  <2>1. x.a = <<k, Entry(M)>> /\ x.b = <<k, Entry(M)>>
    BY <1>4 DEF EntryRecord, Record
  <2> QED
    BY <1>1, <1>2, <2>1
<1>5. ASSUME NEW b \in B, x = BlockRecord(p, k, b) PROVE x.a \in Places(p) /\ x.b \in Places(p)
  <2>1. x.a = <<k, b>> /\ x.b = <<k, b>>
    BY <1>5 DEF BlockRecord, Record
  <2> QED
    BY <1>1, <2>1
<1>6. ASSUME NEW b \in B, Len(Successors(M, b)) = 2, x = BranchRecord(p, k, b)
      PROVE  x.a \in Places(p) /\ x.b \in Places(p)
  <2>1. x.a = <<k, Successors(M, b)[1]>> /\ x.b = <<k, Successors(M, b)[2]>>
    BY <1>6 DEF BranchRecord, Record
  <2> HIDE DEF M
  <2>2. Successors(M, b)[1] \in B /\ Successors(M, b)[2] \in B
    BY <1>3, <1>6
  <2> QED
    BY <1>1, <2>1, <2>2
<1>7. ASSUME NEW h \in LoopHeads(p, k), x = LoopRecord(p, k, h)
      PROVE  x.a \in Places(p) /\ x.b \in Places(p)
  <2>1. x.a = <<k, h>> /\ x.b = <<k, EnteredFrom(p, k, h)>>
    BY <1>7 DEF LoopRecord, Record
  <2>2. h \in B /\ EnteredFrom(p, k, h) \in B
    BY LoopEntryIs
  <2> QED
    BY <1>1, <2>1, <2>2
<1>8. \/ x = EntryRecord(p, k)
      \/ \E b \in B : x = BlockRecord(p, k, b)
      \/ \E b \in B : Len(Successors(M, b)) = 2 /\ x = BranchRecord(p, k, b)
      \/ \E h \in LoopHeads(p, k) : x = LoopRecord(p, k, h)
  BY DEF RecordsIn, BlockRecords, BranchesTold, LoopsTold, Branches
<1> QED
  BY <1>4, <1>5, <1>6, <1>7, <1>8

\* The numbers of a line are natural.
LEMMA WrittenNumbers ==
    ASSUME NEW p \in Programs, NEW c, c \in [Places(p) -> Nat], NEW x \in AllRecords(p)
    PROVE  Written(x, c).a \in Nat /\ Written(x, c).b \in Nat
<1> DEFINE a == c[x.a]
           b == c[x.b]
<1>1. a \in Nat /\ b \in Nat
  <2>1. x.a \in Places(p) /\ x.b \in Places(p)
    BY RecordPlaces DEF AllRecords
  <2> QED
    BY <2>1
<1>2. Written(x, c) = CASE x.kind = "LOOP" -> Line(x.kind, x.name, b, IF a > b THEN a - b ELSE 0)
                        [] x.kind = "BRANCH" -> Line(x.kind, x.name, a, b)
                        [] OTHER -> Line(x.kind, x.name, a, 0)
  BY DEF Written
<1> HIDE DEF a, b
<1>3. \A u, v : Line(x.kind, x.name, u, v).a = u /\ Line(x.kind, x.name, u, v).b = v
  BY DEF Line
<1>4. (IF a > b THEN a - b ELSE 0) \in Nat
  BY <1>1
<1> QED
  BY <1>1, <1>2, <1>3, <1>4

\* What a branch's sides and a loop's entries and iterations add up to is what the block ran.
LEMMA AddsUp ==
    ASSUME NEW p \in Programs, NEW c, Running(p, c, <<>>),
           NEW x \in AllRecords(p), NEW y \in AllRecords(p),
           x.kind \in {"BRANCH", "LOOP"}, y.kind = "BLOCK", x.name = y.name
    PROVE  Written(x, c).a + Written(x, c).b = Written(y, c).a
<1>1. PICK k \in DOMAIN p : x \in RecordsIn(p, k)
  BY DEF AllRecords
<1>2. y \in RecordsIn(p, k)
  <2>1. PICK l \in DOMAIN p : y \in RecordsIn(p, l)
    BY DEF AllRecords
  <2>2. k = l
    BY <1>1, <2>1, KeysTell
  <2> QED
    BY <2>1, <2>2
<1> DEFINE M == Instr(p, k)
<1>3. c \in [Places(p) -> Nat] /\ \A b \in Blocks(M) :
        LET to == Successors(M, b) IN
        /\ Len(to) = 2 => c[<<k, to[1]>>] + c[<<k, to[2]>>] = c[<<k, b>>]
        /\ Len(to) = 1 => c[<<k, b>>] <= c[<<k, to[1]>>]
  <2>1. c \in [Places(p) -> Nat] /\ Balanced(p, c, <<>>, 0)
    BY DEF Running
  <2> SUFFICES ASSUME NEW b \in Blocks(M)
               PROVE  LET to == Successors(M, b) IN
                      /\ Len(to) = 2 => c[<<k, to[1]>>] + c[<<k, to[2]>>] = c[<<k, b>>]
                      /\ Len(to) = 1 => c[<<k, b>>] <= c[<<k, to[1]>>]
    BY <2>1
  <2> DEFINE to == Successors(M, b)
  <2>2. /\ Len(to) = 2 => c[<<k, to[1]>>] + c[<<k, to[2]>>] + Within(<<>>, 0, k, b) = c[<<k, b>>]
        /\ Len(to) = 1 => c[<<k, b>>] <= c[<<k, to[1]>>] + Within(<<>>, 0, k, b)
    BY <2>1 DEF Balanced
  <2>3. Within(<<>>, 0, k, b) = 0
    <3>1. {j \in 1 .. 0 : <<>>[j].fn = k /\ <<>>[j].block = b} = {}
      OBVIOUS
    <3> QED
      BY <3>1, FS_EmptySet DEF Within
  <2>4. \A m \in 1 .. Len(to) : c[<<k, to[m]>>] \in Nat
    <3>1. DOMAIN to = 1 .. Len(to) /\ \A m \in DOMAIN to : to[m] \in Blocks(M)
      BY InstrIs
    <3> HIDE DEF to
    <3> QED
      BY <2>1, <3>1 DEF Places
  <2> HIDE DEF to
  <2>5. ASSUME Len(to) = 2 PROVE c[<<k, to[1]>>] + c[<<k, to[2]>>] = c[<<k, b>>]
    <3>1. c[<<k, to[1]>>] \in Nat /\ c[<<k, to[2]>>] \in Nat
      BY <2>4, <2>5
    <3>2. c[<<k, to[1]>>] + c[<<k, to[2]>>] + 0 = c[<<k, b>>]
      BY <2>2, <2>3, <2>5
    <3> QED
      BY <3>1, <3>2
  <2>6. ASSUME Len(to) = 1 PROVE c[<<k, b>>] <= c[<<k, to[1]>>]
    <3>1. c[<<k, to[1]>>] \in Nat
      BY <2>4, <2>6
    <3> QED
      BY <2>2, <2>3, <2>6, <3>1
  <2> QED
    BY <2>5, <2>6 DEF to
<1>4. \A u, v, kind, name : Line(kind, name, u, v).a = u /\ Line(kind, name, u, v).b = v
  BY DEF Line
<1>5. PICK b \in Blocks(M) : y = BlockRecord(p, k, b)
  <2>1. y \notin {EntryRecord(p, k)} \cup BranchesTold(p, k) \cup LoopsTold(p, k)
    BY DEF EntryRecord, BranchesTold, LoopsTold, BranchRecord, LoopRecord, Record
  <2> QED
    BY <1>2, <2>1 DEF RecordsIn, BlockRecords
<1>6. Written(y, c).a = c[<<k, b>>] /\ y.name[2][2] = b
  <2>1. y.a = <<k, b>> /\ y.kind = "BLOCK" /\ y.name = BlockName(p, k, b)
    BY <1>5 DEF BlockRecord, Record
  <2>2. Written(y, c) = Line(y.kind, y.name, c[y.a], 0)
    BY <2>1 DEF Written
  <2> QED
    BY <1>4, <2>1, <2>2, NameTells
<1>7. CASE x.kind = "BRANCH"
  <2>1. PICK d \in Branches(p, k) : x = BranchRecord(p, k, d)
    <3>1. x \notin {EntryRecord(p, k)} \cup BlockRecords(p, k) \cup LoopsTold(p, k)
      BY <1>7 DEF EntryRecord, BlockRecords, LoopsTold, BlockRecord, LoopRecord, Record
    <3> QED
      BY <1>1, <3>1 DEF RecordsIn, BranchesTold
  <2>2. d \in Blocks(M) /\ Len(Successors(M, d)) = 2
    BY DEF Branches
  <2>3. /\ x.a = <<k, Successors(M, d)[1]>> /\ x.b = <<k, Successors(M, d)[2]>>
        /\ x.name = BlockName(p, k, d)
    BY <2>1 DEF BranchRecord, Record
  <2>4. d = b
    BY <1>6, <2>2, <2>3, NameTells
  <2>5. Written(x, c) = Line(x.kind, x.name, c[x.a], c[x.b])
    BY <1>7 DEF Written
  <2>6. Written(x, c).a = c[<<k, Successors(M, d)[1]>>] /\ Written(x, c).b = c[<<k, Successors(M, d)[2]>>]
    BY <1>4, <2>3, <2>5
  <2> HIDE DEF M
  <2>7. c[<<k, Successors(M, d)[1]>>] + c[<<k, Successors(M, d)[2]>>] = c[<<k, d>>]
    BY <1>3, <2>2
  <2> QED
    BY <1>6, <2>4, <2>6, <2>7
<1>8. CASE x.kind = "LOOP"
  <2>1. PICK h \in LoopHeads(p, k) : x = LoopRecord(p, k, h)
    <3>1. x \notin {EntryRecord(p, k)} \cup BlockRecords(p, k) \cup BranchesTold(p, k)
      BY <1>8 DEF EntryRecord, BlockRecords, BranchesTold, BlockRecord, BranchRecord, Record
    <3> QED
      BY <1>1, <3>1 DEF RecordsIn, LoopsTold
  <2> DEFINE q == EnteredFrom(p, k, h)
  <2>2. q \in Blocks(M) /\ h \in Blocks(M) /\ Len(Successors(M, q)) = 1 /\ Successors(M, q)[1] = h
    BY LoopEntryIs
  <2>3. x.a = <<k, h>> /\ x.b = <<k, q>> /\ x.name = BlockName(p, k, h)
    BY <2>1 DEF LoopRecord, Record
  <2>4. h = b
    BY <1>6, <2>2, <2>3, NameTells
  <2>5. Written(x, c) = Line(x.kind, x.name, c[x.b], IF c[x.a] > c[x.b] THEN c[x.a] - c[x.b] ELSE 0)
    BY <1>8 DEF Written
  <2> DEFINE s == c[<<k, q>>]
             t == c[<<k, h>>]
  <2>6. Written(x, c).a = s /\ Written(x, c).b = IF t > s THEN t - s ELSE 0
    <3> HIDE DEF q
    <3> QED
      BY <1>4, <2>3, <2>5
  <2> HIDE DEF M, q
  <2>7. s <= t
    BY <1>3, <2>2
  <2>8. s \in Nat /\ t \in Nat
    BY <1>3, <2>2 DEF Places, M
  <2> HIDE DEF s
  <2>9. s + (IF t > s THEN t - s ELSE 0) = t
    <3> HIDE DEF t
    <3> QED
      BY <2>7, <2>8
  <2> QED
    BY <1>6, <2>4, <2>6, <2>9
<1> QED
  BY <1>7, <1>8

\* The lines of a kind with a name, and a file whose numbers are natural
At(F, kind, name) == {n \in DOMAIN F : F[n].kind = kind /\ F[n].name = name}
IsFile(F) ==
    /\ Len(F) \in Nat /\ DOMAIN F = 1 .. Len(F)
    /\ \A n \in DOMAIN F : F[n].a \in Nat /\ F[n].b \in Nat

\* What the compiler adds up for the name of a line of that kind
SumsAre(F, kind, s) ==
    /\ IsFiniteSet(DOMAIN s)
    /\ \A name : name \in DOMAIN s <=> At(F, kind, name) # {}
    /\ \A name \in DOMAIN s : s[name].a \in Nat /\ s[name].b \in Nat
    /\ \A name : \A n : At(F, kind, name) = {n} => s[name].a = F[n].a /\ s[name].b = F[n].b
    /\ \A name : \A m, n \in At(F, kind, name) :
         m # n /\ (\A x \in At(F, kind, name) : x = m \/ x = n) =>
           s[name].a = F[m].a + F[n].a /\ s[name].b = F[m].b + F[n].b

\* The sum of one weight and of two
LEMMA SumOfFew ==
    ASSUME NEW w
    PROVE  /\ \A n : w[n] \in Nat => SumOver({n}, w) = w[n]
           /\ \A m, n : w[m] \in Nat /\ w[n] \in Nat /\ m # n => SumOver({m, n}, w) = w[m] + w[n]
<1>1. ASSUME NEW n, w[n] \in Nat PROVE SumOver({n}, w) = w[n]
  <2>1. Weighed({n}, w) /\ Weighed({}, w)
    BY <1>1, FS_Singleton, FS_EmptySet DEF Weighed
  <2>2. SumOver({n}, w) = w[n] + SumOver({n} \ {n}, w)
    BY <2>1, SumIs
  <2>3. {n} \ {n} = {} /\ SumOver({}, w) = 0
    BY <2>1, SumIs
  <2> QED
    BY <1>1, <2>2, <2>3
<1>2. ASSUME NEW m, NEW n, w[m] \in Nat, w[n] \in Nat, m # n PROVE SumOver({m, n}, w) = w[m] + w[n]
  <2>1. Weighed({m, n}, w)
    <3>1. IsFiniteSet({n}) /\ {m, n} = {n} \cup {m}
      BY FS_Singleton
    <3>2. IsFiniteSet({m, n})
      BY <3>1, FS_AddElement
    <3> QED
      BY <1>2, <3>2 DEF Weighed
  <2>2. SumOver({m, n}, w) = w[m] + SumOver({m, n} \ {m}, w)
    BY <2>1, SumIs
  <2>3. {m, n} \ {m} = {n} /\ SumOver({n}, w) = w[n]
    BY <1>1, <1>2
  <2> QED
    BY <2>2, <2>3
<1> QED
  BY <1>1, <1>2

\* Sums adds up what it says.
LEMMA SumsIs ==
    ASSUME NEW F, IsFile(F), NEW kind
    PROVE  SumsAre(F, kind, Sums(F, kind))
<1> DEFINE at == {n \in DOMAIN F : F[n].kind = kind}
           same(name) == {n \in at : F[n].name = name}
           a == [n \in at |-> F[n].a]
           b == [n \in at |-> F[n].b]
           names == {F[n].name : n \in at}
           s == Sums(F, kind)
<1>1. s = [name \in names |-> [a |-> SumOver(same(name), a), b |-> SumOver(same(name), b)]]
  BY Zenon DEF Sums
<1>2. DOMAIN s = names /\ \A name \in names : s[name].a = SumOver(same(name), a) /\ s[name].b = SumOver(same(name), b)
  <2> HIDE DEF names, same, a, b
  <2> QED
    BY <1>1
<1>3. \A name : same(name) = At(F, kind, name)
  BY DEF At
<1>4. IsFiniteSet(DOMAIN F) /\ IsFiniteSet(at)
  <2>1. Len(F) \in Nat /\ DOMAIN F = 1 .. Len(F)
    BY DEF IsFile
  <2>2. IsFiniteSet(DOMAIN F)
    BY <2>1, FS_Interval
  <2> QED
    BY <2>2, FS_Subset
<1>5. \A n \in at : a[n] = F[n].a /\ b[n] = F[n].b /\ a[n] \in Nat /\ b[n] \in Nat
  BY DEF IsFile
<1>6. IsFiniteSet(names)
  <2> DEFINE f == [n \in at |-> F[n].name]
  <2>1. f \in Surjection(at, names)
    <3>1. f \in [at -> names] /\ \A x \in names : \E n \in at : f[n] = x
      OBVIOUS
    <3> HIDE DEF f, at, names
    <3> QED
      BY <3>1 DEF Surjection
  <2> HIDE DEF at, names, f
  <2> QED
    BY <1>4, <2>1, FS_Surjection
<1>7. \A name : name \in names <=> At(F, kind, name) # {}
  BY DEF At
<1>8. \A name : At(F, kind, name) \subseteq at
  BY DEF At
<1> HIDE DEF at, same, a, b, names, s
<1>9. ASSUME NEW name \in names PROVE s[name].a \in Nat /\ s[name].b \in Nat
  <2>1. IsFiniteSet(At(F, kind, name))
    BY <1>4, <1>8, FS_Subset
  <2>2. Weighed(At(F, kind, name), a) /\ Weighed(At(F, kind, name), b)
    BY <1>5, <1>8, <2>1 DEF Weighed
  <2>3. SumOver(At(F, kind, name), a) \in Nat /\ SumOver(At(F, kind, name), b) \in Nat
    BY <2>2, SumIs
  <2> QED
    BY <1>2, <1>3, <2>3
<1>10. ASSUME NEW name, NEW n, At(F, kind, name) = {n} PROVE s[name].a = F[n].a /\ s[name].b = F[n].b
  <2>1. name \in names /\ n \in at
    BY <1>7, <1>8, <1>10
  <2>2. SumOver({n}, a) = a[n] /\ SumOver({n}, b) = b[n]
    BY <1>5, <2>1, SumOfFew
  <2>3. s[name].a = SumOver({n}, a) /\ s[name].b = SumOver({n}, b)
    BY <1>2, <1>3, <1>10, <2>1
  <2> QED
    BY <1>5, <2>1, <2>2, <2>3
<1>11. ASSUME NEW name, NEW m, NEW n, At(F, kind, name) = {m, n}, m # n
       PROVE  s[name].a = F[m].a + F[n].a /\ s[name].b = F[m].b + F[n].b
  <2>1. name \in names /\ m \in at /\ n \in at
    BY <1>7, <1>8, <1>11
  <2>2. SumOver({m, n}, a) = a[m] + a[n] /\ SumOver({m, n}, b) = b[m] + b[n]
    <3>1. a[m] \in Nat /\ a[n] \in Nat /\ b[m] \in Nat /\ b[n] \in Nat /\ m # n
      BY <1>5, <1>11, <2>1
    <3> QED
      BY <3>1, SumOfFew, Zenon
  <2>3. s[name].a = SumOver({m, n}, a) /\ s[name].b = SumOver({m, n}, b)
    BY <1>2, <1>3, <1>11, <2>1
  <2>4. a[m] = F[m].a /\ a[n] = F[n].a /\ b[m] = F[m].b /\ b[n] = F[n].b
    BY <1>5, <2>1
  <2> QED
    BY <2>2, <2>3, <2>4
<1>12. IsFiniteSet(DOMAIN s) /\ DOMAIN s = names
  BY <1>2, <1>6
<1>13. SumsAre(F, kind, s)
  <2>1. \A name : name \in DOMAIN s <=> At(F, kind, name) # {}
    BY <1>7, <1>12
  <2>2. \A name \in DOMAIN s : s[name].a \in Nat /\ s[name].b \in Nat
    BY <1>9, <1>12
  <2>3. \A name : \A n : At(F, kind, name) = {n} => s[name].a = F[n].a /\ s[name].b = F[n].b
    BY <1>10, Zenon
  <2>4. \A name : \A m, n \in At(F, kind, name) :
          m # n /\ (\A x \in At(F, kind, name) : x = m \/ x = n) =>
            s[name].a = F[m].a + F[n].a /\ s[name].b = F[m].b + F[n].b
    <3> SUFFICES ASSUME NEW name, NEW m \in At(F, kind, name), NEW n \in At(F, kind, name),
                        m # n, \A x \in At(F, kind, name) : x = m \/ x = n
                 PROVE  s[name].a = F[m].a + F[n].a /\ s[name].b = F[m].b + F[n].b
      OBVIOUS
    <3>1. At(F, kind, name) = {m, n}
      OBVIOUS
    <3> QED
      BY <1>11, <3>1
  <2> QED
    BY <1>12, <2>1, <2>2, <2>3, <2>4, Zenon DEF SumsAre
<1> QED
  BY <1>13 DEF s

\* Two lines of a name are added up.
LEMMA PairAdds ==
    ASSUME NEW F, NEW kind, NEW s, SumsAre(F, kind, s), NEW name, NEW m \in At(F, kind, name), NEW n \in At(F, kind, name),
           m # n, \A x \in At(F, kind, name) : x = m \/ x = n
    PROVE  s[name].a = F[m].a + F[n].a /\ s[name].b = F[m].b + F[n].b
<1> DEFINE A == At(F, kind, name)
<1>1. \A k, l \in A : k # l /\ (\A x \in A : x = k \/ x = l) =>
           s[name].a = F[k].a + F[l].a /\ s[name].b = F[k].b + F[l].b
  BY Zenon DEF SumsAre
<1> HIDE DEF A
<1>2. m \in A /\ n \in A /\ \A x \in A : x = m \/ x = n
  BY DEF A
<1> QED
  BY <1>1, <1>2

\* A line of the whole file, by its kind
LEMMA DumpLines ==
    ASSUME NEW p \in Programs, NEW c, c \in [Places(p) -> Nat], NEW L, IsDump(p, c, L)
    PROVE  /\ IsFile(L)
           /\ \A n \in 1 .. Len(L) : L[n].kind \in {"FUNCTION", "BLOCK", "BRANCH", "LOOP"} =>
                n >= 3 /\ \E x \in AllRecords(p) : L[n] = Written(x, c) /\ x.kind = L[n].kind /\ x.name = L[n].name
           /\ \A n \in 1 .. Len(L) : n < 3 => L[n].kind \in {"OPTIFORGE_PROFILE", "SRCHASH"}
<1>1. /\ L \in Seq(Lines(p, c)) /\ Len(L) \in Nat /\ Len(L) >= 2
      /\ L[1] = Header[1] /\ L[2] = Header[2]
      /\ \A n \in 3 .. Len(L) : \E x \in AllRecords(p) : L[n] = Written(x, c)
  BY DEF IsDump
<1>2. /\ Header[1].kind = "OPTIFORGE_PROFILE" /\ Header[2].kind = "SRCHASH"
      /\ Header[1].a = 1 /\ Header[1].b = 0 /\ Header[2].a = 0 /\ Header[2].b = 0
  BY DEF Header, Line
<1>3. DOMAIN L = 1 .. Len(L)
  BY <1>1
<1>4. ASSUME NEW n \in 1 .. Len(L) PROVE n = 1 \/ n = 2 \/ n \in 3 .. Len(L)
  BY <1>1
<1>5. ASSUME NEW n \in 3 .. Len(L)
      PROVE  /\ L[n].a \in Nat /\ L[n].b \in Nat /\ n >= 3
             /\ \E x \in AllRecords(p) : L[n] = Written(x, c) /\ x.kind = L[n].kind /\ x.name = L[n].name
  <2>1. PICK x \in AllRecords(p) : L[n] = Written(x, c)
    BY <1>1
  <2>2. Written(x, c).a \in Nat /\ Written(x, c).b \in Nat
    BY WrittenNumbers
  <2>3. x.kind = L[n].kind /\ x.name = L[n].name
    BY <2>1, WrittenKeeps
  <2> QED
    BY <2>1, <2>2, <2>3
<1>6. IsFile(L)
  <2>1. \A n \in 1 .. Len(L) : L[n].a \in Nat /\ L[n].b \in Nat
    <3> SUFFICES ASSUME NEW n \in 1 .. Len(L) PROVE L[n].a \in Nat /\ L[n].b \in Nat
      OBVIOUS
    <3> QED
      BY <1>1, <1>2, <1>4, <1>5
  <2> QED
    BY <1>1, <1>3, <2>1 DEF IsFile
<1>7. ASSUME NEW n \in 1 .. Len(L), n < 3 PROVE L[n].kind \in {"OPTIFORGE_PROFILE", "SRCHASH"}
  BY <1>1, <1>2, <1>4, <1>7
<1>8. ASSUME NEW n \in 1 .. Len(L), L[n].kind \in {"FUNCTION", "BLOCK", "BRANCH", "LOOP"} PROVE n \in 3 .. Len(L)
  BY <1>1, <1>2, <1>4, <1>8
<1> QED
  BY <1>5, <1>6, <1>7, <1>8

\* In the file of one run each name is there once, in the file of two it is there twice.
LEMMA FoundAt ==
    ASSUME NEW p \in Programs, NEW c, c \in [Places(p) -> Nat], NEW L, IsDump(p, c, L),
           NEW kind \in {"FUNCTION", "BLOCK", "BRANCH", "LOOP"}, NEW name
    PROVE  /\ IsFile(L \o L)
           /\ \A n \in 1 .. Len(L) : L[n].kind = kind /\ L[n].name = name =>
                At(L, kind, name) = {n} /\ At(L \o L, kind, name) = {n, Len(L) + n}
           /\ \A n \in 1 .. Len(L) : (L \o L)[n] = L[n] /\ (L \o L)[Len(L) + n] = L[n]
           /\ At(L, kind, name) # {} \/ At(L \o L, kind, name) # {} =>
                \E n \in 1 .. Len(L) : L[n].kind = kind /\ L[n].name = name
<1> DEFINE size == Len(L)
           W == L \o L
<1>1. /\ L \in Seq(Lines(p, c)) /\ size \in Nat /\ DOMAIN L = 1 .. size
      /\ \A m, n \in 3 .. size : L[m].kind = L[n].kind /\ L[m].name = L[n].name => m = n
  BY DEF IsDump
<1>2. /\ W \in Seq(Lines(p, c)) /\ Len(W) = size + size
      /\ \A n \in 1 .. size : W[n] = L[n] /\ W[size + n] = L[n]
  BY <1>1, JoinAt
<1>3. DOMAIN W = 1 .. Len(W)
  BY <1>2
<1>4. IsFile(L) /\ \A n \in 1 .. size : L[n].kind = kind => n \in 3 .. size
  <2>1. IsFile(L) /\ \A n \in 1 .. size : L[n].kind \in {"FUNCTION", "BLOCK", "BRANCH", "LOOP"} => n >= 3
    BY DumpLines
  <2> QED
    BY <2>1
<1> HIDE DEF size, W
<1>5. \A n \in 1 .. Len(W) : n \in 1 .. size \/ \E i \in 1 .. size : n = size + i
  <2> SUFFICES ASSUME NEW n \in 1 .. Len(W), n \notin 1 .. size PROVE \E i \in 1 .. size : n = size + i
    OBVIOUS
  <2>1. n - size \in 1 .. size /\ n = size + (n - size)
    BY <1>1, <1>2
  <2> QED
    BY <2>1
<1>6. \A n \in 1 .. size : n \in 1 .. Len(W) /\ size + n \in 1 .. Len(W)
  BY <1>1, <1>2
<1>7. IsFile(W)
  <2>1. \A n \in 1 .. size : L[n].a \in Nat /\ L[n].b \in Nat
    BY <1>1, <1>4 DEF IsFile
  <2>2. \A n \in 1 .. Len(W) : W[n].a \in Nat /\ W[n].b \in Nat
    BY <1>2, <1>5, <2>1
  <2>3. Len(W) \in Nat
    BY <1>1, <1>2
  <2> QED
    BY <1>3, <2>2, <2>3 DEF IsFile
<1>8. ASSUME NEW n \in 1 .. size, L[n].kind = kind, L[n].name = name
      PROVE  At(L, kind, name) = {n} /\ At(W, kind, name) = {n, size + n}
  <2>1. \A m \in 1 .. size : L[m].kind = kind /\ L[m].name = name => m = n
    BY <1>1, <1>4, <1>8
  <2>2. At(L, kind, name) = {n}
    BY <1>1, <1>8, <2>1 DEF At
  <2>3. ASSUME NEW m \in At(W, kind, name) PROVE m \in {n, size + n}
    <3>1. m \in 1 .. Len(W) /\ W[m].kind = kind /\ W[m].name = name
      BY <1>3 DEF At
    <3>2. CASE m \in 1 .. size
      BY <1>2, <2>1, <3>1, <3>2
    <3>3. CASE \E i \in 1 .. size : m = size + i
      BY <1>2, <2>1, <3>1, <3>3
    <3> QED
      BY <1>5, <3>1, <3>2, <3>3
  <2>4. n \in At(W, kind, name) /\ size + n \in At(W, kind, name)
    BY <1>2, <1>3, <1>6, <1>8 DEF At
  <2> QED
    BY <2>2, <2>3, <2>4
<1>9. ASSUME At(L, kind, name) # {} \/ At(W, kind, name) # {}
      PROVE  \E n \in 1 .. size : L[n].kind = kind /\ L[n].name = name
  <2>1. CASE At(L, kind, name) # {}
    BY <1>1, <2>1 DEF At
  <2>2. CASE At(W, kind, name) # {}
    <3>1. PICK m \in 1 .. Len(W) : W[m].kind = kind /\ W[m].name = name
      BY <1>3, <2>2 DEF At
    <3> QED
      BY <1>2, <1>5, <3>1
  <2> QED
    BY <1>9, <2>1, <2>2
<1> QED
  BY <1>2, <1>7, <1>8, <1>9 DEF size, W

\* What a file of one run or of two says of a block is what it says of its parts.
LEMMA PartsAddUp ==
    ASSUME NEW p \in Programs, NEW c, Running(p, c, <<>>), NEW L, IsDump(p, c, L), NEW F, F = L \/ F = L \o L,
           NEW kind, kind = "BRANCH" \/ kind = "LOOP", NEW name,
           name \in DOMAIN Sums(F, kind), name \in DOMAIN Sums(F, "BLOCK")
    PROVE  Sums(F, kind)[name].a + Sums(F, kind)[name].b = Sums(F, "BLOCK")[name].a
<1> DEFINE s == Sums(F, kind)
           t == Sums(F, "BLOCK")
           size == Len(L)
<1>1. c \in [Places(p) -> Nat]
  BY DEF Running
<1>2. IsFile(L) /\ IsFile(L \o L) /\ size \in Nat
  <2>1. IsFile(L) /\ IsFile(L \o L)
    BY <1>1, DumpLines, FoundAt
  <2> QED
    BY <2>1 DEF IsFile
<1>3. SumsAre(F, kind, s) /\ SumsAre(F, "BLOCK", t)
  BY <1>2, SumsIs
<1> HIDE DEF s, t
<1>4. At(F, kind, name) # {} /\ At(F, "BLOCK", name) # {}
  BY <1>3 DEF SumsAre, s, t
<1>5. PICK m \in 1 .. size : L[m].kind = kind /\ L[m].name = name
  <2>1. At(L, kind, name) # {} \/ At(L \o L, kind, name) # {}
    BY <1>4
  <2> QED
    BY <1>1, <2>1, FoundAt
<1>6. PICK n \in 1 .. size : L[n].kind = "BLOCK" /\ L[n].name = name
  <2>1. At(L, "BLOCK", name) # {} \/ At(L \o L, "BLOCK", name) # {}
    BY <1>4
  <2> QED
    BY <1>1, <2>1, FoundAt
<1>7. L[m].a + L[m].b = L[n].a
  <2>1. PICK x \in AllRecords(p) : L[m] = Written(x, c) /\ x.kind = kind /\ x.name = name
    BY <1>1, <1>5, DumpLines
  <2>2. PICK y \in AllRecords(p) : L[n] = Written(y, c) /\ y.kind = "BLOCK" /\ y.name = name
    BY <1>1, <1>6, DumpLines
  <2>3. Written(x, c).a + Written(x, c).b = Written(y, c).a
    BY <2>1, <2>2, AddsUp
  <2> QED
    BY <2>1, <2>2, <2>3
<1>8. L[m].a \in Nat /\ L[m].b \in Nat /\ L[n].a \in Nat
  BY <1>2, <1>5, <1>6 DEF IsFile
<1>9. CASE F = L
  <2>1. At(F, kind, name) = {m} /\ At(F, "BLOCK", name) = {n}
    BY <1>1, <1>5, <1>6, <1>9, FoundAt
  <2>2. s[name].a = F[m].a /\ s[name].b = F[m].b /\ t[name].a = F[n].a
    BY <1>3, <2>1, Z3T(30) DEF SumsAre
  <2> QED
    BY <1>7, <1>9, <2>2 DEF s, t
<1>10. CASE F = L \o L
  <2>1. /\ At(F, kind, name) = {m, size + m} /\ At(F, "BLOCK", name) = {n, size + n}
        /\ F[m] = L[m] /\ F[size + m] = L[m] /\ F[n] = L[n] /\ F[size + n] = L[n]
    <3>1. /\ At(L \o L, kind, name) = {m, size + m}
          /\ (L \o L)[m] = L[m] /\ (L \o L)[size + m] = L[m]
      BY <1>1, <1>5, FoundAt
    <3>2. /\ At(L \o L, "BLOCK", name) = {n, size + n}
          /\ (L \o L)[n] = L[n] /\ (L \o L)[size + n] = L[n]
      BY <1>1, <1>6, FoundAt
    <3> QED
      BY <1>10, <3>1, <3>2
  <2>2. m # size + m /\ n # size + n
    BY <1>2
  <2>3. /\ s[name].a = F[m].a + F[size + m].a /\ s[name].b = F[m].b + F[size + m].b
        /\ t[name].a = F[n].a + F[size + n].a
    <3> DEFINE mm == size + m
               nn == size + n
               S == At(F, kind, name)
               T == At(F, "BLOCK", name)
    <3>1. /\ m \in S /\ mm \in S /\ m # mm /\ \A x \in S : x = m \/ x = mm
          /\ n \in T /\ nn \in T /\ n # nn /\ \A x \in T : x = n \/ x = nn
      BY <2>1, <2>2
    <3> HIDE DEF mm, nn
    <3>2. s[name].a = F[m].a + F[mm].a /\ s[name].b = F[m].b + F[mm].b
      BY <1>3, <3>1, PairAdds
    <3>3. t[name].a = F[n].a + F[nn].a
      BY <1>3, <3>1, PairAdds
    <3> QED
      BY <3>2, <3>3 DEF mm, nn
  <2>4. s[name].a = L[m].a + L[m].a /\ s[name].b = L[m].b + L[m].b /\ t[name].a = L[n].a + L[n].a
    BY <2>1, <2>3
  <2> DEFINE u == L[m].a
             v == L[m].b
             w == L[n].a
  <2>5. u \in Nat /\ v \in Nat /\ w \in Nat /\ u + v = w
    BY <1>7, <1>8
  <2>6. s[name].a = u + u /\ s[name].b = v + v /\ t[name].a = w + w
    BY <2>4
  <2> HIDE DEF u, v, w
  <2>7. (u + u) + (v + v) = w + w
    BY <2>5
  <2>8. s[name].a + s[name].b = t[name].a
    BY <2>6, <2>7
  <2> QED
    BY <2>8 DEF s, t
<1> QED
  BY <1>9, <1>10

\* What was written is there, and begins as a profile.
LEMMA DumpBegins ==
    ASSUME NEW p, NEW c, NEW L, IsDump(p, c, L), NEW F, F = L \/ F = L \o L
    PROVE  F # <<>> /\ F[1].kind = "OPTIFORGE_PROFILE"
<1>1. /\ L \in Seq(Lines(p, c)) /\ Len(L) >= 2 /\ Len(L) \in Nat /\ L[1] = Header[1]
  BY DEF IsDump
<1>2. Header[1].kind = "OPTIFORGE_PROFILE"
  BY DEF Header, Line
<1>3. L # <<>>
  BY <1>1
<1>4. L \o L # <<>> /\ (L \o L)[1] = L[1]
  <2> DEFINE W == L \o L
  <2>1. /\ L \o L \in Seq(Lines(p, c)) /\ Len(L \o L) = Len(L) + Len(L)
        /\ \A n \in 1 .. Len(L) : (L \o L)[n] = L[n]
    BY <1>1, JoinAt
  <2>2. 1 \in 1 .. Len(L)
    BY <1>1
  <2>3. W \in Seq(Lines(p, c)) /\ Len(W) = Len(L) + Len(L) /\ W[1] = L[1]
    BY <2>1, <2>2
  <2> HIDE DEF W
  <2>4. W # <<>> /\ W[1] = L[1]
    BY <1>1, <2>3
  <2> QED
    BY <2>4 DEF W
<1>5. F # <<>> /\ F[1] = L[1]
  BY <1>3, <1>4
<1> QED
  BY <1>1, <1>2, <1>5

\* So the compiler finds nothing that contradicts itself in it.
LEMMA NothingContradicts ==
    ASSUME NEW p \in Programs, NEW c, Running(p, c, <<>>), NEW L, IsDump(p, c, L), NEW F, F = L \/ F = L \o L
    PROVE  Parse(F).violations = {}
<1> DEFINE valid == F # <<>> /\ F[1].kind = "OPTIFORGE_PROFILE"
           lines == IF valid THEN F ELSE <<>>
           blocks == First(Sums(lines, "BLOCK"))
           branches == Sums(lines, "BRANCH")
           loops == Sums(lines, "LOOP")
<1>1. Parse(F).violations = FlowViolations(branches, blocks) \cup FlowViolations(loops, blocks)
  BY Zenon DEF Parse
<1>2. \A parts : FlowViolations(parts, blocks) =
        {name \in DOMAIN parts \cap DOMAIN blocks : parts[name].a + parts[name].b # blocks[name]}
  BY DEF FlowViolations
<1>3. lines = F
  <2>1. F # <<>> /\ F[1].kind = "OPTIFORGE_PROFILE"
    BY DumpBegins
  <2> QED
    BY <2>1
<1>4. /\ \A name \in DOMAIN blocks : name \in DOMAIN Sums(F, "BLOCK") /\ blocks[name] = Sums(F, "BLOCK")[name].a
      /\ branches = Sums(F, "BRANCH") /\ loops = Sums(F, "LOOP")
  <2> HIDE DEF lines
  <2> QED
    BY <1>3 DEF First
<1> HIDE DEF blocks, branches, loops
<1>5. ASSUME NEW kind, kind = "BRANCH" \/ kind = "LOOP" PROVE FlowViolations(Sums(F, kind), blocks) = {}
  <2>1. ASSUME NEW name, name \in DOMAIN Sums(F, kind), name \in DOMAIN blocks
        PROVE  Sums(F, kind)[name].a + Sums(F, kind)[name].b = blocks[name]
    <3>1. name \in DOMAIN Sums(F, "BLOCK") /\ blocks[name] = Sums(F, "BLOCK")[name].a
      BY <1>4, <2>1
    <3>2. Sums(F, kind)[name].a + Sums(F, kind)[name].b = Sums(F, "BLOCK")[name].a
      BY <1>5, <2>1, <3>1, PartsAddUp
    <3> QED
      BY <3>1, <3>2
  <2> QED
    BY <1>2, <2>1
<1> QED
  BY <1>1, <1>4, <1>5

\* What is dumped is the table of the program.
LEMMA RecordsAre == Records = Table(program)
  BY Zenon DEF Records, Table, Measured, Instr, Functions

\* The file of a whole run, or of two
LEMMA RunsTell ==
    ASSUME Runs > 0
    PROVE  \/ file = Dump(Records, counters)
           \/ file = Dump(Records, counters) \o Dump(Records, counters)
<1> DEFINE L == Dump(Records, counters)
           r == IF file = L THEN 1 ELSE IF file = L \o L THEN 2 ELSE 0
<1>1. Runs = CHOOSE n \in 0 .. 2 : \E lines \in {L} :
               n = IF file = lines THEN 1 ELSE IF file = lines \o lines THEN 2 ELSE 0
  BY DEF Runs
<1> HIDE DEF L
<1>2. r \in 0 .. 2 /\ \E lines \in {L} :
               r = IF file = lines THEN 1 ELSE IF file = lines \o lines THEN 2 ELSE 0
  OBVIOUS
<1>3. \E lines \in {L} : Runs = IF file = lines THEN 1 ELSE IF file = lines \o lines THEN 2 ELSE 0
  BY <1>1, <1>2
<1>4. Runs = r
  BY <1>3
<1>5. file = L \/ file = L \o L
  BY <1>4
<1> QED
  BY <1>5 DEF L

\* The profile of a run that ended contradicts itself nowhere, for every program: the counts
\* are those of the blocks, yet what a branch's sides and a loop's entries and iterations
\* add up to is what the block ran.
THEOREM FlowStaysConserved == BuildSpec => []FlowConserved
<1>1. BuildInv => FlowConserved
  <2> SUFFICES ASSUME BuildInv, stage = "annotate", Runs > 0 PROVE profile.violations = {}
    BY DEF FlowConserved
  <2> DEFINE L == Dump(Records, counters)
  <2>1. file = L \/ file = L \o L
    BY RunsTell
  <2>2. program \in Programs /\ Running(program, counters, frames) /\ profile = Parse(file)
        /\ (file = <<>> \/ frames = <<>>)
    BY DEF BuildInv
  <2>3. IsDump(program, counters, L)
    <3>1. counters \in [Places(program) -> Nat]
      BY <2>2 DEF Running
    <3>2. L = Dump(Table(program), counters)
      BY RecordsAre
    <3> HIDE DEF L
    <3> QED
      BY <2>2, <3>1, <3>2, DumpIs
  <2> HIDE DEF L
  <2>4. file # <<>>
    BY <2>1, <2>3, DumpBegins
  <2>5. Running(program, counters, <<>>)
    BY <2>2, <2>4
  <2>6. Parse(file).violations = {}
    BY <2>1, <2>2, <2>3, <2>5, NothingContradicts
  <2> QED
    BY <2>2, <2>6
<1> QED
  BY <1>1, BuildInvariant, PTL

\* A line that names what there is in program p, if it names a function or a block
Names(p, l) ==
    /\ l = Line(l.kind, l.name, l.a, l.b) /\ l.a \in Nat /\ l.b \in Nat
    /\ l.kind = "BLOCK" => \E k \in DOMAIN p : \E b \in Blocks(Instr(p, k)) : l.name = BlockName(p, k, b)
    /\ l.kind = "FUNCTION" => \E k \in DOMAIN p : l.name = FunctionName(k)
Readable(p, F) ==
    /\ Len(F) \in Nat /\ DOMAIN F = 1 .. Len(F)
    /\ \A n \in DOMAIN F : Names(p, F[n])

\* A line that was written does,
LEMMA WrittenReads ==
    ASSUME NEW p \in Programs, NEW c, c \in [Places(p) -> Nat], NEW l \in Lines(p, c)
    PROVE  Names(p, l)
<1>1. CASE l \in ToSet(Header)
  <2> DEFINE h1 == Line("OPTIFORGE_PROFILE", <<>>, 1, 0)
             h2 == Line("SRCHASH", <<>>, 0, 0)
  <2>1. l = h1 \/ l = h2
    <3>1. Header = <<h1, h2>>
      BY DEF Header
    <3> HIDE DEF h1, h2
    <3>2. DOMAIN Header = {1, 2} /\ Header[1] = h1 /\ Header[2] = h2
      BY <3>1
    <3> QED
      BY <1>1, <3>2 DEF ToSet
  <2> QED
    BY <2>1 DEF Names, Line
<1>2. ASSUME NEW x \in AllRecords(p), l = Written(x, c) PROVE Names(p, l)
  <2>1. l.a \in Nat /\ l.b \in Nat
    BY <1>2, WrittenNumbers
  <2>2. l.kind = x.kind /\ l.name = x.name
    BY <1>2, WrittenKeeps
  <2>3. l = Line(l.kind, l.name, l.a, l.b)
    BY <1>2 DEF Written, Line
  <2>4. PICK k \in DOMAIN p : x \in RecordsIn(p, k)
    BY DEF AllRecords
  <2>5. \/ x.kind = "FUNCTION" /\ x.name = FunctionName(k)
        \/ \E b \in Blocks(Instr(p, k)) : x.kind # "FUNCTION" /\ x.name = BlockName(p, k, b)
    <3>1. CASE x = EntryRecord(p, k)
      BY <3>1 DEF EntryRecord, Record
    <3>2. ASSUME NEW b \in Blocks(Instr(p, k)),
                 x = BlockRecord(p, k, b) \/ x = BranchRecord(p, k, b) \/ x = LoopRecord(p, k, b)
          PROVE  x.kind # "FUNCTION" /\ x.name = BlockName(p, k, b)
      BY <3>2 DEF BlockRecord, BranchRecord, LoopRecord, Record
    <3>3. \/ x = EntryRecord(p, k)
          \/ \E b \in Blocks(Instr(p, k)) :
               x = BlockRecord(p, k, b) \/ x = BranchRecord(p, k, b) \/ x = LoopRecord(p, k, b)
      BY <2>4 DEF RecordsIn, BlockRecords, BranchesTold, LoopsTold, Branches, LoopHeads
    <3> QED
      BY <3>1, <3>2, <3>3
  <2> QED
    BY <2>1, <2>2, <2>3, <2>5 DEF Names
<1> QED
  BY <1>1, <1>2 DEF Lines

\* and so does what a cut leaves of it.
LEMMA CutReads ==
    ASSUME NEW p, NEW l, Names(p, l), NEW d \in Cut(l)
    PROVE  Names(p, d)
<1>1. CASE d = Malformed
  BY <1>1 DEF Names, Malformed, Line
<1>2. ASSUME NEW n \in Nat, d = [l EXCEPT !.a = n] \/ d = [l EXCEPT !.b = n] PROVE Names(p, d)
  <2> DEFINE k == l.kind
             m == l.name
             a == l.a
             b == l.b
  <2>1. l = [kind |-> k, name |-> m, a |-> a, b |-> b] /\ a \in Nat /\ b \in Nat
    BY DEF Names, Line
  <2> HIDE DEF k, m, a, b
  <2>2. /\ d = [kind |-> k, name |-> m, a |-> d.a, b |-> d.b]
        /\ d.a \in Nat /\ d.b \in Nat /\ d.kind = k /\ d.name = m
    BY <1>2, <2>1
  <2> QED
    BY <2>2 DEF Names, Line, k, m
<1>3. d = Malformed \/ \E n \in Nat : d = [l EXCEPT !.a = n] \/ d = [l EXCEPT !.b = n]
  <2>1. l.a \in Nat /\ l.b \in Nat
    BY DEF Names
  <2>2. Shortened(l.a) \subseteq Nat /\ Shortened(l.b) \subseteq Nat
    BY <2>1 DEF Shortened
  <2>3. d \in {Malformed} \cup {[l EXCEPT !.a = n] : n \in Shortened(l.a)}
                          \cup {[l EXCEPT !.b = n] : n \in Shortened(l.b)}
    BY DEF Cut
  <2> QED
    BY <2>2, <2>3
<1> QED
  BY <1>1, <1>2, <1>3

\* So the compiler can read whatever it finds.
LEMMA FileReads ==
    ASSUME NEW p \in Programs, NEW c, c \in [Places(p) -> Nat], NEW L, IsDump(p, c, L), NEW F,
           F = <<>> \/ OnDisk(F, L)
    PROVE  Readable(p, F)
<1> DEFINE X == Lines(p, c) \cup UNION {Cut(l) : l \in Lines(p, c)}
<1>1. \A l \in X : Names(p, l)
  BY WrittenReads, CutReads
<1>2. L \in Seq(Lines(p, c)) /\ L \in Seq(X) /\ \A l \in Lines(p, c) : Cut(l) \subseteq X
  <2>1. L \in Seq(Lines(p, c)) /\ Lines(p, c) \subseteq X /\ \A l \in Lines(p, c) : Cut(l) \subseteq X
    BY DEF IsDump
  <2> HIDE DEF X
  <2> QED
    BY <2>1
<1> HIDE DEF X
<1>3. L \o L \in Seq(X) /\ <<>> \in Seq(X)
  BY <1>2
<1>4. ASSUME NEW n \in 0 .. Len(L) PROVE SubSeq(L, 1, n) \in Seq(X)
  BY <1>2
<1>5. ASSUME NEW n \in 0 .. Len(L), n # Len(L), NEW d \in Cut(L[n + 1]) PROVE Append(SubSeq(L, 1, n), d) \in Seq(X)
  <2>1. L[n + 1] \in Lines(p, c)
    BY <1>2, <1>5
  <2>2. d \in X
    BY <1>2, <2>1
  <2> DEFINE S == SubSeq(L, 1, n)
  <2>3. S \in Seq(X)
    BY <1>4
  <2> HIDE DEF S
  <2>4. Append(S, d) \in Seq(X)
    BY <2>2, <2>3
  <2> QED
    BY <2>4 DEF S
<1>6. F \in Seq(X)
  <2>1. CASE F \in CutShort(L)
    <3>1. PICK n \in 0 .. Len(L) :
            \/ F = SubSeq(L, 1, n)
            \/ \E d \in (IF n = Len(L) THEN {} ELSE Cut(L[n + 1])) : F = Append(SubSeq(L, 1, n), d)
      BY <2>1, Zenon DEF CutShort
    <3>2. F = SubSeq(L, 1, n) \/ (n # Len(L) /\ \E d \in Cut(L[n + 1]) : F = Append(SubSeq(L, 1, n), d))
      BY <3>1, Zenon
    <3> QED
      BY <1>4, <1>5, <3>2, Zenon
  <2> QED
    BY <1>3, <2>1 DEF OnDisk
<1>7. Len(F) \in Nat /\ DOMAIN F = 1 .. Len(F) /\ \A n \in 1 .. Len(F) : F[n] \in X
  BY <1>6
<1> QED
  BY <1>1, <1>7 DEF Readable

\* What is read of the blocks can be classified,
LEMMA BlocksAreWeighed ==
    ASSUME NEW p \in Programs, NEW F, Readable(p, F)
    PROVE  LET w == First(Sums(F, "BLOCK"))
           IN /\ Weighed(DOMAIN w, w) /\ Told(DOMAIN w)
              /\ \A x \in DOMAIN w : x[1] \in DOMAIN p
<1> DEFINE s == Sums(F, "BLOCK")
           w == First(s)
<1>1. IsFile(F)
  BY DEF Readable, IsFile, Names
<1>2. SumsAre(F, "BLOCK", s)
  BY <1>1, SumsIs
<1>3. IsFiniteSet(DOMAIN s) /\ (\A x \in DOMAIN s : s[x].a \in Nat /\ At(F, "BLOCK", x) # {})
  BY <1>2, Zenon DEF SumsAre
<1> HIDE DEF s
<1>4. DOMAIN w = DOMAIN s /\ \A x \in DOMAIN w : w[x] = s[x].a
  BY DEF First
<1>5. Weighed(DOMAIN w, w)
  BY <1>3, <1>4 DEF Weighed
<1>6. ASSUME NEW x \in DOMAIN w
      PROVE  \E k \in DOMAIN p : \E b \in Blocks(Instr(p, k)) :
               /\ x = BlockName(p, k, b) /\ x[1] = k /\ x[2][2] = b /\ k \in Nat /\ b \in Nat
  <2>1. PICK n \in DOMAIN F : F[n].kind = "BLOCK" /\ F[n].name = x
    BY <1>3, <1>4 DEF At
  <2>2. PICK k \in DOMAIN p : \E b \in Blocks(Instr(p, k)) : x = BlockName(p, k, b)
    BY <2>1 DEF Readable, Names
  <2>3. PICK b \in Blocks(Instr(p, k)) : x = BlockName(p, k, b)
    BY <2>2
  <2>4. k \in Nat /\ b \in Nat
    BY InstrIs
  <2> QED
    BY <2>3, <2>4, NameTells
<1> HIDE DEF w
<1>7. Told(DOMAIN w)
  <2>1. \A x \in DOMAIN w : x[1] \in Int /\ x[2][2] \in Int
    BY <1>6
  <2>2. ASSUME NEW x \in DOMAIN w, NEW y \in DOMAIN w, x[1] = y[1], x[2][2] = y[2][2] PROVE x = y
    <3>1. x = BlockName(p, x[1], x[2][2]) /\ y = BlockName(p, y[1], y[2][2])
      BY <1>6, Zenon
    <3> QED
      BY <2>2, <3>1
  <2> QED
    BY <2>1, <2>2 DEF Told
<1>8. \A x \in DOMAIN w : x[1] \in DOMAIN p
  BY <1>6
<1> QED
  BY <1>5, <1>7, <1>8 DEF w, s

\* and so can what is made of it for the functions.
LEMMA WorkIsWeighed ==
    ASSUME NEW p \in Programs, NEW F, Readable(p, F)
    PROVE  LET w == Executions(First(Sums(F, "FUNCTION")), First(Sums(F, "BLOCK")))
           IN Weighed(DOMAIN w, w) /\ Told(DOMAIN w)
<1> DEFINE u == Sums(F, "FUNCTION")
           calls == First(u)
           blocks == First(Sums(F, "BLOCK"))
           w == Executions(calls, blocks)
           f == [x \in DOMAIN blocks |-> <<x[1], <<"function", 0>>>>]
           B == {<<x[1], <<"function", 0>>>> : x \in DOMAIN blocks}
           inside(g) == {x \in DOMAIN blocks : x[1] = g[1]}
<1>1. IsFile(F)
  BY DEF Readable, IsFile, Names
<1>2. SumsAre(F, "FUNCTION", u)
  BY <1>1, SumsIs
<1>3. Weighed(DOMAIN blocks, blocks) /\ \A x \in DOMAIN blocks : x[1] \in DOMAIN p
  BY BlocksAreWeighed
<1>4. IsFiniteSet(DOMAIN u) /\ \A x \in DOMAIN u : At(F, "FUNCTION", x) # {}
  BY <1>2, Zenon DEF SumsAre
<1> HIDE DEF u
<1>5. DOMAIN calls = DOMAIN u
  BY DEF First
<1>6. DOMAIN w = B \cup DOMAIN calls /\ \A g \in DOMAIN w : w[g] = SumOver(inside(g), blocks)
  BY DEF Executions
<1> HIDE DEF calls, blocks, w
<1>7. IsFiniteSet(B)
  <2>1. f \in Surjection(DOMAIN blocks, B)
    <3>1. f \in [DOMAIN blocks -> B] /\ \A g \in B : \E x \in DOMAIN blocks : f[x] = g
      OBVIOUS
    <3> HIDE DEF f, B
    <3> QED
      BY <3>1 DEF Surjection
  <2> HIDE DEF f, B
  <2> QED
    BY <1>3, <2>1, FS_Surjection DEF Weighed
<1>8. IsFiniteSet(DOMAIN w)
  <2> HIDE DEF B
  <2> QED
    BY <1>4, <1>5, <1>6, <1>7, FS_Union
<1>9. ASSUME NEW g \in DOMAIN w PROVE w[g] \in Nat
  <2>1. inside(g) \subseteq DOMAIN blocks
    OBVIOUS
  <2> HIDE DEF inside
  <2>2. Weighed(inside(g), blocks)
    BY <1>3, <2>1, FS_Subset DEF Weighed
  <2>3. SumOver(inside(g), blocks) \in Nat
    BY <2>2, SumIs
  <2> QED
    BY <1>6, <2>3
<1>10. ASSUME NEW g \in DOMAIN w PROVE \E k \in DOMAIN p : g = <<k, <<"function", 0>>>> /\ k \in Nat
  <2>1. CASE g \in B
    <3>1. PICK x \in DOMAIN blocks : g = <<x[1], <<"function", 0>>>>
      BY <2>1
    <3> QED
      BY <1>3, <3>1, InstrIs
  <2>2. CASE g \in DOMAIN calls
    <3>1. PICK n \in DOMAIN F : F[n].kind = "FUNCTION" /\ F[n].name = g
      BY <1>4, <1>5, <2>2 DEF At
    <3>2. PICK k \in DOMAIN p : g = FunctionName(k)
      BY <3>1 DEF Readable, Names
    <3> QED
      BY <3>2, InstrIs DEF FunctionName
  <2> QED
    BY <1>6, <2>1, <2>2
<1>11. Told(DOMAIN w)
  <2> HIDE DEF B, f, inside
  <2>1. ASSUME NEW g \in DOMAIN w PROVE g[1] \in Int /\ g[2][2] \in Int /\ g = <<g[1], <<"function", 0>>>>
    BY <1>10
  <2>2. ASSUME NEW g \in DOMAIN w, NEW h \in DOMAIN w, g[1] = h[1] PROVE g = h
    BY <2>1, <2>2
  <2> QED
    BY <2>1, <2>2 DEF Told
<1>12. Weighed(DOMAIN w, w)
  BY <1>8, <1>9 DEF Weighed
<1> QED
  BY <1>11, <1>12 DEF w, calls, blocks, u

\* The heat of blocks and functions is the shortest prefix that reaches the threshold, for
\* every program, whatever was left of its profile.
THEOREM HeatStaysDefined == BuildSpec => []HeatFollowsTheDefinition
<1>1. BuildInv => HeatFollowsTheDefinition
  <2> SUFFICES ASSUME BuildInv, stage = "annotate",
                      NEW group \in {<<profile.work, profile.functionHeat>>, <<profile.blocks, profile.blockHeat>>}
               PROVE  FollowsTheDefinition(group[1], group[2])
    BY Zenon DEF HeatFollowsTheDefinition, FollowsTheDefinition
  <2> DEFINE L == Dump(Records, counters)
             valid == file # <<>> /\ file[1].kind = "OPTIFORGE_PROFILE"
             lines == IF valid THEN file ELSE <<>>
             calls == First(Sums(lines, "FUNCTION"))
             blocks == First(Sums(lines, "BLOCK"))
             work == Executions(calls, blocks)
  <2>1. program \in Programs /\ Running(program, counters, frames) /\ profile = Parse(file)
        /\ (file = <<>> \/ OnDisk(file, L))
    BY DEF BuildInv
  <2>2. counters \in [Places(program) -> Nat]
    BY <2>1 DEF Running
  <2>3. IsDump(program, counters, L)
    <3>1. L = Dump(Table(program), counters)
      BY RecordsAre
    <3> HIDE DEF L
    <3> QED
      BY <2>1, <3>1, DumpIs
  <2> HIDE DEF L
  <2>4. Readable(program, lines)
    <3>1. Readable(program, file)
      BY <2>1, <2>2, <2>3, FileReads
    <3>2. Readable(program, <<>>)
      BY DEF Readable
    <3> QED
      BY <3>1, <3>2
  <2>5. /\ profile.work = work /\ profile.functionHeat = Classify(work)
        /\ profile.blocks = blocks /\ profile.blockHeat = Classify(blocks)
    BY <2>1, Zenon DEF Parse
  <2> HIDE DEF lines
  <2>6. Weighed(DOMAIN blocks, blocks) /\ Told(DOMAIN blocks)
    BY <2>1, <2>4, BlocksAreWeighed
  <2>7. Weighed(DOMAIN work, work) /\ Told(DOMAIN work)
    BY <2>1, <2>4, WorkIsWeighed
  <2> HIDE DEF blocks, work
  <2>8. FollowsTheDefinition(blocks, Classify(blocks)) /\ FollowsTheDefinition(work, Classify(work))
    BY <2>6, <2>7, HeatIsTheShortestPrefix
  <2>9. group = <<work, Classify(work)>> \/ group = <<blocks, Classify(blocks)>>
    BY <2>5
  <2> QED
    BY <2>8, <2>9
<1> QED
  BY <1>1, BuildInvariant, PTL
==============================================================================
