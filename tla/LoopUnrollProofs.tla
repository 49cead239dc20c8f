-------------------------- MODULE LoopUnrollProofs --------------------------
(***************************************************************************)
(* Proofs about LoopUnroll, for any loop describe() accepts, any factor    *)
(* factorFor() chooses and any number of iterations: nothing is read       *)
(* before it is computed, and a loop whose header computes only its test   *)
(* keeps its values.                                                       *)
(***************************************************************************)
EXTENDS LoopUnroll, Induction

-----------------------------------------------------------------------------
(* The values of the original loop: the recursion has a solution *)

\* The least element of a set of integers is what Least picks.
LEMMA LeastIs ==
    ASSUME NEW S \in SUBSET Int, NEW m \in S, \A n \in S : m <= n
    PROVE  Least(S) = m
<1>1. \E k \in S : \A n \in S : k <= n
  OBVIOUS
<1> DEFINE k == Least(S)
<1>2. k \in S /\ \A n \in S : k <= n
  BY <1>1 DEF Least
<1> HIDE DEF k
<1>3. k <= m /\ m <= k /\ k \in Int /\ m \in Int
  BY <1>2
<1>4. k = m
  BY <1>3
<1> QED
  BY <1>4 DEF k

\* Least of a non-empty set of natural numbers is one of them.
LEMMA LeastOf ==
    ASSUME NEW S \in SUBSET Nat, S # {}
    PROVE  Least(S) \in S /\ \A n \in S : Least(S) <= n
<1>1. \E k \in S : \A n \in S : k <= n
  BY LeastNatural
<1> QED
  BY <1>1 DEF Least

\* The equations of one row of the table, for a row given as a function on Names
IsRow(l, n, earlier, value) ==
    /\ value = [v \in Names |-> value[v]]
    /\ \A v \in Names : value[v] = Computed(l, n, earlier, value, v)

\* The iterations in which an instruction is seen with given operands
Alike(l, n, earlier, value, v) ==
    {n} \cup {m \in 0 .. n - 1 : \A o \in l.reads[v] : earlier[m][o] = value[o]}

\* Two rows agree on a set of values
AgreeOn(X, a, b) == \A v \in X : a[v] = b[v]

\* A row solves the equations of a block
SolvesBlock(l, n, earlier, value, B) ==
    \A v \in B : value[v] = Computed(l, n, earlier, value, v)

\* The instructions of a block read what is above the block or above them
ReadsAbove(l, B, above) ==
    \A v \in B : l.reads[v] \subseteq above \cup {c \in B : c < v}

\* A row, with the values of a block given by their iterations
Filled(B, f, given) == [o \in Names |-> IF o \in B THEN <<o, f[o]>> ELSE given[o]]

\* What a row says of an instruction that is not a phi names that instruction
\* and an iteration up to the row's.
LEMMA OpValues ==
    ASSUME NEW l, NEW n \in Nat, NEW earlier, NEW value, NEW v \in Ops
    PROVE  /\ Computed(l, n, earlier, value, v) = <<v, Least(Alike(l, n, earlier, value, v))>>
           /\ Least(Alike(l, n, earlier, value, v)) \in 0 .. n
<1>1. v \notin Phis
  BY LoopAssumption
<1>2. Alike(l, n, earlier, value, v) \in SUBSET (0 .. n) /\ n \in Alike(l, n, earlier, value, v)
  BY DEF Alike
<1>3. Least(Alike(l, n, earlier, value, v)) \in Alike(l, n, earlier, value, v)
  <2>1. Alike(l, n, earlier, value, v) \in SUBSET Nat /\ Alike(l, n, earlier, value, v) # {}
    BY <1>2
  <2> QED
    BY <2>1, LeastOf
<1> QED
  BY <1>1, <1>2, <1>3 DEF Computed, Alike

\* A phi is what the iteration before brought it.
LEMMA PhiValues ==
    ASSUME NEW l, NEW n, NEW earlier, NEW value, NEW p \in Phis
    PROVE  Computed(l, n, earlier, value, p)
               = IF n = 0 THEN <<p, -1>> ELSE earlier[n - 1][l.latch[p]]
BY Zenon DEF Computed

\* An instruction is computed from its operands alone.
LEMMA OperandsDecide ==
    ASSUME NEW l, NEW n \in Nat, NEW earlier, NEW a, NEW b, NEW v \in Ops,
           AgreeOn(l.reads[v], a, b)
    PROVE  Computed(l, n, earlier, a, v) = Computed(l, n, earlier, b, v)
<1>1. Alike(l, n, earlier, a, v) = Alike(l, n, earlier, b, v)
  BY DEF Alike, AgreeOn
<1> QED
  BY <1>1, OpValues

\* The instructions of one block, each reading what is above it, have values.
LEMMA BlockExists ==
    ASSUME NEW l, NEW n \in Nat, NEW earlier, NEW given,
           NEW B \in SUBSET Ops, NEW above \in SUBSET (Names \ B), ReadsAbove(l, B, above)
    PROVE  \E f \in [B -> Nat] : SolvesBlock(l, n, earlier, Filled(B, f, given), B)
<1> DEFINE Total(f) == Filled(B, f, given)
           E == [v \in B |-> [f \in [B -> Nat] |-> Least(Alike(l, n, earlier, Total(f), v))]]
<1>0. B \subseteq Names
  BY DEF Names
<1>1. B \in SUBSET Nat
  BY LoopAssumption DEF Ops, Names
<1>2. ASSUME NEW v \in B, NEW f PROVE Least(Alike(l, n, earlier, Total(f), v)) \in Nat
  <2> HIDE DEF Total
  <2> QED
    BY OpValues
<1>3. E \in [B -> [[B -> Nat] -> Nat]]
  <2> HIDE DEF Total
  <2> QED
    BY <1>2
<1>4. ASSUME NEW v \in B, NEW f \in [B -> Nat], NEW g \in [B -> Nat],
             \A w \in B : w < v => f[w] = g[w]
      PROVE  E[v][f] = E[v][g]
  <2>1. \A o \in l.reads[v] : Total(f)[o] = Total(g)[o]
    <3> SUFFICES ASSUME NEW o \in l.reads[v] PROVE Total(f)[o] = Total(g)[o]
      OBVIOUS
    <3>1. o \in Names /\ (o \in B => o < v)
      BY <1>0 DEF ReadsAbove
    <3>2. CASE o \in B
      BY <1>4, <3>1, <3>2 DEF Filled
    <3>3. CASE o \notin B
      BY <3>1, <3>3 DEF Filled
    <3> QED
      BY <3>2, <3>3
  <2>2. Alike(l, n, earlier, Total(f), v) = Alike(l, n, earlier, Total(g), v)
    <3> HIDE DEF Total
    <3> QED
      BY <2>1 DEF Alike
  <2> HIDE DEF Total
  <2> QED
    BY <2>2
<1>5. PICK f \in [B -> Nat] : \A v \in B : f[v] = E[v][f]
  <2>1. 0 \in Nat
    OBVIOUS
  <2> HIDE DEF E, Total
  <2>2. \A v \in B : \A f, g \in [B -> Nat] :
            (\A w \in B : w < v => f[w] = g[w]) => E[v][f] = E[v][g]
    BY <1>4
  <2>3. IsRecursion(E, B, Nat)
    BY <1>1, <1>3, <2>1, <2>2 DEF IsRecursion
  <2> QED
    BY <2>3, RecursionExists
<1>6. ASSUME NEW v \in B PROVE Total(f)[v] = Computed(l, n, earlier, Total(f), v)
  <2>1. f[v] = Least(Alike(l, n, earlier, Total(f), v))
    <3> HIDE DEF Total
    <3> QED
      BY <1>5
  <2>2. Total(f)[v] = <<v, f[v]>>
    BY <1>0 DEF Filled
  <2> HIDE DEF Total
  <2> QED
    BY <2>1, <2>2, OpValues
<1> QED
  BY <1>6 DEF SolvesBlock
\* Every row has values: the phis', then the header's, then the body's.
LEMMA RowExists ==
    ASSUME NEW l \in Loops, WellFormed(l), NEW n \in Nat, NEW earlier
    PROVE  \E value : /\ IsRow(l, n, earlier, value)
                      /\ \A v \in Ops : value[v] \in Names \X Nat
<1>1. /\ Ops \subseteq Names /\ Phis \subseteq Names /\ Phis \cap Ops = {}
      /\ HeaderOps \cap BodyOps = {} /\ Names \subseteq Nat
      /\ HeaderOps \subseteq Ops /\ BodyOps \subseteq Ops
      /\ \A v \in Ops : l.reads[v] \in SUBSET Names
  BY LoopAssumption DEF Names, Ops
<1>2. /\ \A h \in HeaderOps : l.reads[h] \subseteq Phis \cup {g \in HeaderOps : g < h}
      /\ \A b \in BodyOps : l.reads[b] \subseteq Phis \cup HeaderOps \cup {c \in BodyOps : c < b}
  BY DEF WellFormed
<1> DEFINE phi == [p \in Names |-> IF n = 0 THEN <<p, -1>> ELSE earlier[n - 1][l.latch[p]]]
<1>3. PICK f \in [HeaderOps -> Nat] :
          SolvesBlock(l, n, earlier, Filled(HeaderOps, f, phi), HeaderOps)
  <2>1. ReadsAbove(l, HeaderOps, Phis) /\ Phis \in SUBSET (Names \ HeaderOps)
    BY <1>1, <1>2 DEF ReadsAbove
  <2> HIDE DEF phi
  <2> QED
    BY <1>1, <2>1, BlockExists
<1> DEFINE header == Filled(HeaderOps, f, phi)
<1>4. PICK g \in [BodyOps -> Nat] :
          SolvesBlock(l, n, earlier, Filled(BodyOps, g, header), BodyOps)
  <2> DEFINE above == Phis \cup HeaderOps
  <2>1. ReadsAbove(l, BodyOps, above) /\ above \in SUBSET (Names \ BodyOps)
    BY <1>1, <1>2 DEF ReadsAbove
  <2> HIDE DEF header, above
  <2> QED
    BY <1>1, <2>1, BlockExists
<1> DEFINE value == Filled(BodyOps, g, header)
<1>5. value = [v \in Names |-> value[v]]
  BY DEF Filled
<1>6. ASSUME NEW v \in Phis PROVE value[v] = Computed(l, n, earlier, value, v)
  <2>1. v \in Names /\ v \notin HeaderOps /\ v \notin BodyOps
    BY <1>1
  <2>2. value[v] = phi[v]
    BY <2>1 DEF Filled
  <2>3. phi[v] = IF n = 0 THEN <<v, -1>> ELSE earlier[n - 1][l.latch[v]]
    BY <2>1
  <2> HIDE DEF value, phi
  <2> QED
    BY <2>2, <2>3 DEF Computed
<1>7. ASSUME NEW v \in HeaderOps
      PROVE  /\ value[v] = Computed(l, n, earlier, value, v)
             /\ value[v] \in Names \X Nat
  <2>1. v \in Names /\ v \in Ops /\ v \notin BodyOps
    BY <1>1
  <2>2. value[v] = <<v, f[v]>> /\ header[v] = <<v, f[v]>>
    BY <2>1 DEF Filled
  <2>3. AgreeOn(l.reads[v], header, value)
    BY <1>1, <1>2 DEF Filled, AgreeOn
  <2>4. Computed(l, n, earlier, header, v) = Computed(l, n, earlier, value, v)
    <3> HIDE DEF value, header
    <3> QED
      BY <2>1, <2>3, OperandsDecide
  <2>5. header[v] = Computed(l, n, earlier, header, v)
    BY <1>3 DEF SolvesBlock
  <2>6. <<v, f[v]>> \in Names \X Nat
    BY <2>1
  <2> HIDE DEF value, header
  <2> QED
    BY <2>2, <2>4, <2>5, <2>6
<1>8. ASSUME NEW v \in BodyOps
      PROVE  /\ value[v] = Computed(l, n, earlier, value, v)
             /\ value[v] \in Names \X Nat
  <2>1. v \in Names
    BY <1>1
  <2>2. value[v] = <<v, g[v]>>
    BY <2>1 DEF Filled
  <2>3. value[v] = Computed(l, n, earlier, value, v)
    BY <1>4 DEF SolvesBlock
  <2>4. <<v, g[v]>> \in Names \X Nat
    BY <2>1
  <2> HIDE DEF value
  <2> QED
    BY <2>2, <2>3, <2>4
<1> HIDE DEF value
<1>9. \A v \in Names : v \in Phis \/ v \in HeaderOps \/ v \in BodyOps
  BY DEF Names, Ops
<1>10. \A v \in Ops : v \in HeaderOps \/ v \in BodyOps
  BY DEF Ops
<1> QED
  BY <1>5, <1>6, <1>7, <1>8, <1>9, <1>10 DEF IsRow

\* A block has at most one solution over what is above it.
LEMMA BlockUnique ==
    ASSUME NEW l, NEW n \in Nat, NEW earlier, NEW a, NEW b,
           NEW B \in SUBSET Ops, NEW above,
           AgreeOn(above, a, b), ReadsAbove(l, B, above),
           SolvesBlock(l, n, earlier, a, B), SolvesBlock(l, n, earlier, b, B)
    PROVE  AgreeOn(B, a, b)
<1> DEFINE T == {v \in B : a[v] # b[v]}
<1> SUFFICES ASSUME T # {} PROVE FALSE
  BY DEF AgreeOn
<1>1. T \in SUBSET Nat
  BY LoopAssumption DEF Names, Ops
<1>2. PICK m \in T : \A v \in T : m <= v
  <2> HIDE DEF T
  <2> QED
    BY <1>1, LeastNatural
<1>3. AgreeOn(l.reads[m], a, b)
  <2> SUFFICES ASSUME NEW o \in l.reads[m] PROVE a[o] = b[o]
    BY DEF AgreeOn
  <2>1. o \in above \/ (o \in B /\ o < m)
    BY DEF ReadsAbove
  <2>2. CASE o \in B /\ o < m
    <3>1. o \in Nat /\ m \in Nat
      BY <1>1, <2>2, LoopAssumption DEF Names, Ops
    <3> QED
      BY <1>2, <2>2, <3>1
  <2> QED
    BY <2>1, <2>2 DEF AgreeOn
<1>4. Computed(l, n, earlier, a, m) = Computed(l, n, earlier, b, m)
  <2>1. m \in Ops
    OBVIOUS
  <2> HIDE DEF T
  <2> QED
    BY <1>3, <2>1, OperandsDecide
<1> QED
  BY <1>4 DEF SolvesBlock

\* There is one such row.
LEMMA RowUnique ==
    ASSUME NEW l \in Loops, WellFormed(l), NEW n \in Nat, NEW earlier,
           NEW a, IsRow(l, n, earlier, a), NEW b, IsRow(l, n, earlier, b)
    PROVE  a = b
<1>1. /\ \A h \in HeaderOps : l.reads[h] \subseteq Phis \cup {g \in HeaderOps : g < h}
      /\ \A c \in BodyOps : l.reads[c] \subseteq (Phis \cup HeaderOps) \cup {d \in BodyOps : d < c}
  BY DEF WellFormed
<1>2. /\ HeaderOps \in SUBSET Ops /\ BodyOps \in SUBSET Ops
      /\ \A v \in Names : v \in Phis \/ v \in HeaderOps \/ v \in BodyOps
      /\ Ops \subseteq Names /\ Phis \subseteq Names
  BY DEF Ops, Names
<1>3. \A v \in Names : /\ a[v] = Computed(l, n, earlier, a, v)
                       /\ b[v] = Computed(l, n, earlier, b, v)
  BY DEF IsRow
<1>4. AgreeOn(Phis, a, b)
  <2> SUFFICES ASSUME NEW p \in Phis PROVE a[p] = b[p]
    BY DEF AgreeOn
  <2> DEFINE kept == IF n = 0 THEN <<p, -1>> ELSE earlier[n - 1][l.latch[p]]
  <2>1. Computed(l, n, earlier, a, p) = kept /\ Computed(l, n, earlier, b, p) = kept
    BY Zenon DEF Computed
  <2>2. p \in Names
    BY <1>2
  <2> HIDE DEF kept
  <2> QED
    BY <1>3, <2>1, <2>2
<1>5. /\ SolvesBlock(l, n, earlier, a, HeaderOps) /\ SolvesBlock(l, n, earlier, b, HeaderOps)
      /\ SolvesBlock(l, n, earlier, a, BodyOps) /\ SolvesBlock(l, n, earlier, b, BodyOps)
      /\ ReadsAbove(l, HeaderOps, Phis) /\ ReadsAbove(l, BodyOps, Phis \cup HeaderOps)
  <2>1. HeaderOps \subseteq Names /\ BodyOps \subseteq Names
    BY <1>2
  <2>2. \A B : B \subseteq Names =>
            SolvesBlock(l, n, earlier, a, B) /\ SolvesBlock(l, n, earlier, b, B)
    BY <1>3 DEF SolvesBlock
  <2>3. ReadsAbove(l, HeaderOps, Phis)
    BY <1>1 DEF ReadsAbove
  <2>4. ReadsAbove(l, BodyOps, Phis \cup HeaderOps)
    BY <1>1 DEF ReadsAbove
  <2> QED
    BY <2>1, <2>2, <2>3, <2>4
<1>6. AgreeOn(HeaderOps, a, b)
  BY <1>2, <1>4, <1>5, BlockUnique
<1>7. AgreeOn(Phis \cup HeaderOps, a, b)
  BY <1>4, <1>6 DEF AgreeOn
<1>8. AgreeOn(BodyOps, a, b)
  BY <1>2, <1>5, <1>7, BlockUnique
<1> QED
  BY <1>2, <1>7, <1>8 DEF IsRow, AgreeOn

\* The row that ValueTable takes, from the rows before it
RowOf(l, n, earlier) ==
    LET value[v \in Names] == Computed(l, n, earlier, value, v) IN value

\* It solves the equations.
LEMMA RowOfIsRow ==
    ASSUME NEW l \in Loops, WellFormed(l), NEW n \in Nat, NEW earlier
    PROVE  /\ IsRow(l, n, earlier, RowOf(l, n, earlier))
           /\ \A v \in Ops : RowOf(l, n, earlier)[v] \in Names \X Nat
<1> DEFINE value[v \in Names] == Computed(l, n, earlier, value, v)
<1>1. RowOf(l, n, earlier) = value
  BY DEF RowOf
<1>2. PICK h : /\ IsRow(l, n, earlier, h)
               /\ \A v \in Ops : h[v] \in Names \X Nat
  BY RowExists
<1>3. h = [v \in Names |-> Computed(l, n, earlier, h, v)]
  BY <1>2 DEF IsRow
<1>4. value = [v \in Names |-> Computed(l, n, earlier, value, v)]
  BY <1>3, Zenon
<1> HIDE DEF value
<1>5. IsRow(l, n, earlier, value)
  <2>1. \A v \in Names : value[v] = Computed(l, n, earlier, value, v)
    BY <1>4
  <2>2. value = [v \in Names |-> value[v]]
    BY <1>4
  <2> QED
    BY <2>1, <2>2 DEF IsRow
<1>6. value = h
  BY <1>2, <1>5, RowUnique
<1> QED
  BY <1>1, <1>2, <1>5, <1>6

\* A row depends on the rows before it alone.
LEMMA RowLooksBack ==
    ASSUME NEW l \in Loops, WellFormed(l), NEW n \in Nat, NEW e1, NEW e2,
           \A m \in 0 .. n - 1 : e1[m] = e2[m]
    PROVE  RowOf(l, n, e1) = RowOf(l, n, e2)
<1> DEFINE a == RowOf(l, n, e1)
           b == RowOf(l, n, e2)
<1>1. IsRow(l, n, e1, a) /\ IsRow(l, n, e2, b)
  BY RowOfIsRow
<1> HIDE DEF a, b
<1>2. ASSUME NEW v \in Names PROVE Computed(l, n, e1, b, v) = Computed(l, n, e2, b, v)
  <2>1. CASE v \in Phis
    <3>1. n # 0 => e1[n - 1] = e2[n - 1]
      OBVIOUS
    <3> DEFINE kept(e) == IF n = 0 THEN <<v, -1>> ELSE e[n - 1][l.latch[v]]
    <3>2. Computed(l, n, e1, b, v) = kept(e1) /\ Computed(l, n, e2, b, v) = kept(e2)
      BY <2>1, Zenon DEF Computed
    <3>3. kept(e1) = kept(e2)
      BY <3>1
    <3> QED
      BY <3>2, <3>3
  <2>2. CASE v \notin Phis
    <3>1. v \in Ops
      BY <2>2 DEF Names
    <3>2. Alike(l, n, e1, b, v) = Alike(l, n, e2, b, v)
      BY DEF Alike
    <3> QED
      BY <3>1, <3>2, OpValues
  <2> QED
    BY <2>1, <2>2
<1>3. IsRow(l, n, e1, b)
  BY <1>1, <1>2 DEF IsRow
<1>4. a = b
  BY <1>1, <1>3, RowUnique
<1> QED
  BY <1>4 DEF a, b

\* The table of a loop's values solves the equations of every iteration.
LEMMA TableEquations ==
    ASSUME NEW l \in Loops, WellFormed(l), NEW n \in Iterations
    PROVE  IsRow(l, n, ValueTable(l), ValueTable(l)[n])
<1> DEFINE row[i \in Iterations] == RowOf(l, i, row)
           Row == [Names -> Names \X Int]
           E == [i \in Iterations |-> [f \in [Iterations -> Row] |-> RowOf(l, i, f)]]
<1>1. ValueTable(l) = row
  BY DEF ValueTable, RowOf, Iterations
<1>2. Iterations \subseteq Nat /\ \A i \in Iterations : \A m \in 0 .. i - 1 : m \in Iterations /\ m < i
  BY LoopAssumption DEF Iterations
<1>3. ASSUME NEW i \in Iterations, NEW f \in [Iterations -> Row] PROVE RowOf(l, i, f) \in Row
  <2> DEFINE r == RowOf(l, i, f)
  <2>1. IsRow(l, i, f, r) /\ \A v \in Ops : r[v] \in Names \X Nat
    BY <1>2, RowOfIsRow
  <2> HIDE DEF r
  <2>2. ASSUME NEW p \in Phis PROVE r[p] \in Names \X Int
    <3>1. p \in Names /\ l.latch[p] \in Names
      BY LoopAssumption DEF Names
    <3>2. r[p] = IF i = 0 THEN <<p, -1>> ELSE f[i - 1][l.latch[p]]
      <4>1. r[p] = Computed(l, i, f, r, p)
        BY <2>1, <3>1 DEF IsRow
      <4>2. Computed(l, i, f, r, p) = IF i = 0 THEN <<p, -1>> ELSE f[i - 1][l.latch[p]]
        BY Zenon DEF Computed
      <4> QED
        BY <4>1, <4>2
    <3>3. CASE i = 0
      BY <3>1, <3>2, <3>3
    <3>4. CASE i # 0
      <4>1. i - 1 \in Iterations
        BY <1>2, <3>4
      <4> QED
        BY <3>1, <3>2, <3>4, <4>1
    <3> QED
      BY <3>3, <3>4
  <2>3. \A v \in Names : r[v] \in Names \X Int
    BY <2>1, <2>2 DEF Names
  <2>4. r = [v \in Names |-> r[v]]
    BY <2>1 DEF IsRow
  <2> QED
    BY <2>3, <2>4 DEF r
<1>4. IsRecursion(E, Iterations, Row)
  <2> HIDE DEF Row
  <2>1. E \in [Iterations -> [[Iterations -> Row] -> Row]]
    BY <1>3
  <2>2. ASSUME NEW i \in Iterations, NEW f \in [Iterations -> Row], NEW g \in [Iterations -> Row],
               \A w \in Iterations : w < i => f[w] = g[w]
        PROVE  E[i][f] = E[i][g]
    <3>1. \A m \in 0 .. i - 1 : f[m] = g[m]
      BY <1>2, <2>2
    <3>2. RowOf(l, i, f) = RowOf(l, i, g)
      BY <1>2, <3>1, RowLooksBack
    <3> QED
      BY <3>2
  <2>3. Row # {}
    <3>1. [v \in Names |-> <<v, 0>>] \in Row
      BY DEF Row
    <3> QED
      BY <3>1
  <2> HIDE DEF E
  <2>4. \A i \in Iterations : \A f, g \in [Iterations -> Row] :
            (\A w \in Iterations : w < i => f[w] = g[w]) => E[i][f] = E[i][g]
    BY <2>2
  <2> QED
    BY <1>2, <2>1, <2>3, <2>4 DEF IsRecursion
<1>5. \E h : h = [i \in Iterations |-> RowOf(l, i, h)]
  <2>1. PICK h \in [Iterations -> Row] : \A i \in Iterations : h[i] = E[i][h]
    <3> HIDE DEF E, Row
    <3> QED
      BY <1>4, RecursionExists
  <2>2. \A i \in Iterations : h[i] = RowOf(l, i, h)
    <3> HIDE DEF Row
    <3> QED
      BY <2>1
  <2>3. h = [i \in Iterations |-> h[i]]
    <3> HIDE DEF Row
    <3> QED
      BY <2>1
  <2>4. h = [i \in Iterations |-> RowOf(l, i, h)]
    BY <2>2, <2>3
  <2> QED
    BY <2>4
<1>6. row = [i \in Iterations |-> RowOf(l, i, row)]
  BY <1>5, Zenon
<1> HIDE DEF row
<1>7. row[n] = RowOf(l, n, row)
  BY <1>6
<1>8. IsRow(l, n, row, RowOf(l, n, row))
  BY <1>2, RowOfIsRow
<1> QED
  BY <1>1, <1>7, <1>8

-----------------------------------------------------------------------------
(* The inductive invariant *)

\* Where the value of v is at the end of copy c: the copies of the header's
\* instructions are not what a body reads
Location(v, c) ==
    IF v \in Phis THEN phiValues[c][v] ELSE IF v \in BodyOps THEN <<v, c>> ELSE <<v, 0>>

\* Where the copy of i in copy c finds its operand o
OperandAt(i, o, c) ==
    IF i \in HeaderOps /\ o \notin Phis THEN <<o, c>> ELSE Location(o, c)

\* What has been computed whenever copy c is entered
Available(c) == (Phis \X {0}) \cup (Ops \X (0 .. c - 1))

Made == 0 .. copies - 1

LoopOK ==
    /\ loop \in Loops /\ WellFormed(loop) /\ Described(loop)
    /\ original = ValueTable(loop)
    /\ factor \in Nat /\ factor >= 2 /\ copies \in 1 .. factor

\* The maps the copies are made with lead to available values
MapsOK ==
    /\ DOMAIN phiValues = Made
    /\ \A c \in Made : \A v \in Names : Translate(phiValues[c], v) = Location(v, c)
    /\ \A c \in Made : \A p \in Phis :
          /\ phiValues[c][p] = IF c = 0 THEN <<p, 0>> ELSE Location(loop.latch[p], c - 1)
          /\ phiValues[c][p] \in Available(c)

CodeOK ==
    /\ DOMAIN code = Ops \X Made
    /\ \A i \in Ops : \A c \in Made : \A o \in loop.reads[i] :
          code[<<i, c>>][o] = OperandAt(i, o, c)

TestsOK ==
    /\ DOMAIN tests = Made
    /\ \A c \in Made :
          tests[c] = IF loop.test \in Phis THEN phiValues[c][loop.test] ELSE <<loop.test, c>>

\* The closed loop brings round, and leaves behind, what the maps say
ClosedOK ==
    phase # "replicate" =>
        /\ copies = factor
        /\ \A p \in Phis :
              /\ carried[p] = Location(loop.latch[p], factor - 1)
              /\ \A c \in Made : merged[p][c] = phiValues[c][p]

ControlOK ==
    /\ phase \in {"replicate", "test", "body", "left"}
    /\ copy \in Nat /\ copy < factor /\ iteration \in Iterations
    /\ phase = "replicate" => copy = 0
    /\ phase # "body" => toRun \subseteq HeaderOps
    /\ phase = "body" => toRun \subseteq BodyOps /\ iteration < MaxIterations
    /\ phase = "left" => toRun = {}

\* Every value that is available, or that the current copy has computed, is held
EnvOK ==
    /\ Available(copy) \subseteq DOMAIN env
    /\ (HeaderOps \ toRun) \X {copy} \subseteq DOMAIN env
    /\ phase = "body" => (BodyOps \ toRun) \X {copy} \subseteq DOMAIN env

\* What is held is what the original loop computes in that iteration
ValuesOK ==
    HeaderOnlyTests =>
        /\ \A p \in Phis : Holds(phiValues[copy][p]) = original[iteration][p]
        /\ phase # "body" => \A h \in HeaderOps \ toRun :
                                Holds(<<h, copy>>) = original[iteration][h]
        /\ phase = "body" => \A b \in BodyOps \ toRun :
                                Holds(<<b, copy>>) = original[iteration][b]
        /\ phase = "left" => \A v \in loop.after : seen[v] = original[iteration][v]

IInv == /\ LoopOK /\ MapsOK /\ CodeOK /\ TestsOK /\ ClosedOK
        /\ ControlOK /\ EnvOK /\ ValuesOK

\* What a budget allows of a factor is a natural number.
LEMMA FittingType ==
    ASSUME NEW f \in Nat, NEW size \in Nat
    PROVE  Fitting(f, size) \in Nat
<1> DEFINE D == 0 .. f
           Halved(n, h) == IF n > 1 /\ size * n > kUnrolledSizeBudget THEN h[n \div 2] ELSE n
           g[n \in D] == Halved(n, g)
           E == [n \in D |-> [h \in [D -> Nat] |-> Halved(n, h)]]
<1>1. Fitting(f, size) = g[f]
  BY DEF Fitting
<1>2. /\ D \subseteq Nat /\ f \in D
      /\ \A n \in D : n > 1 => n \div 2 \in D /\ n \div 2 < n
  OBVIOUS
<1>3. \A n \in D : \A h \in [D -> Nat] : Halved(n, h) \in Nat
  <2> HIDE DEF D
  <2> SUFFICES ASSUME NEW n \in D, NEW h \in [D -> Nat] PROVE Halved(n, h) \in Nat
    OBVIOUS
  <2>1. n > 1 => h[n \div 2] \in Nat
    BY <1>2
  <2>2. n \in Nat
    BY <1>2
  <2> QED
    BY <2>1, <2>2
<1>4. IsRecursion(E, D, Nat)
  <2> HIDE DEF D
  <2>1. E \in [D -> [[D -> Nat] -> Nat]]
    <3> HIDE DEF Halved
    <3> QED
      BY <1>3
  <2>2. ASSUME NEW n \in D, NEW h1 \in [D -> Nat], NEW h2 \in [D -> Nat],
               \A w \in D : w < n => h1[w] = h2[w]
        PROVE  E[n][h1] = E[n][h2]
    <3>1. n > 1 => h1[n \div 2] = h2[n \div 2]
      BY <1>2, <2>2
    <3>2. Halved(n, h1) = Halved(n, h2)
      BY <3>1
    <3> HIDE DEF Halved
    <3> QED
      BY <3>2
  <2> HIDE DEF E
  <2>3. \A n \in D : \A h1, h2 \in [D -> Nat] :
            (\A w \in D : w < n => h1[w] = h2[w]) => E[n][h1] = E[n][h2]
    BY <2>2
  <2> QED
    BY <1>2, <2>1, <2>3 DEF IsRecursion
<1>5. \E h : h = [n \in D |-> Halved(n, h)]
  <2> HIDE DEF D
  <2>1. PICK h \in [D -> Nat] : \A n \in D : h[n] = E[n][h]
    <3> HIDE DEF E
    <3> QED
      BY <1>4, RecursionExists
  <2> HIDE DEF Halved
  <2>2. h = [n \in D |-> h[n]] /\ \A n \in D : h[n] = Halved(n, h)
    BY <2>1
  <2> QED
    BY <2>2
<1>6. g = [n \in D |-> Halved(n, g)]
  BY <1>5, Zenon
<1> HIDE DEF g
<1> DEFINE T == {n \in D : g[n] \notin Nat}
<1>7. T = {}
  <2> SUFFICES ASSUME T # {} PROVE FALSE
    OBVIOUS
  <2>1. PICK m \in T : \A n \in T : m <= n
    <3>1. T \in SUBSET Nat
      BY <1>2
    <3> HIDE DEF T
    <3> QED
      BY <3>1, LeastNatural
  <2>2. g[m] = Halved(m, g) /\ m \in D
    BY <1>6
  <2>3. m > 1 => g[m \div 2] \in Nat
    <3> HIDE DEF D
    <3> SUFFICES ASSUME m > 1 PROVE g[m \div 2] \in Nat
      OBVIOUS
    <3>1. m \div 2 \in D /\ m \div 2 < m /\ m \div 2 \in Nat /\ m \in Nat
      BY <1>2, <2>2
    <3> QED
      BY <2>1, <3>1
  <2> QED
    BY <2>2, <2>3
<1> QED
  BY <1>1, <1>2, <1>7

\* So is what factorFor chooses.
LEMMA FactorType ==
    ASSUME NEW trips \in Nat, NEW size \in Nat
    PROVE  FactorFor(trips, size) \in Nat
<1>1. /\ Fitting(2, size) \in Nat /\ Fitting(4, size) \in Nat /\ Fitting(8, size) \in Nat
  BY FittingType
<1>2. \/ trips < 2 \/ trips = 2 \/ trips \in 3 .. 4 \/ trips \in 5 .. 7 \/ trips \in 8 .. 31
      \/ trips >= 32
  OBVIOUS
<1> QED
  BY <1>1, <1>2 DEF FactorFor

\* The sets of instructions, and the operands of the loop
Shape ==
    /\ Names \subseteq Nat \ {0} /\ Names = Phis \cup Ops /\ Ops = HeaderOps \cup BodyOps
    /\ \A v \in HeaderOps : v \notin Phis /\ v \notin BodyOps
    /\ \A v \in BodyOps : v \notin Phis /\ v \notin HeaderOps
    /\ \A p \in Phis : p \notin Ops /\ loop.latch[p] \in Names
    /\ loop.test \in Phis \cup HeaderOps
    /\ loop.after \subseteq Phis \cup HeaderOps
    /\ \A h \in HeaderOps : loop.reads[h] \subseteq Phis \cup {g \in HeaderOps : g < h}
    /\ \A b \in BodyOps : loop.reads[b] \subseteq Phis \cup HeaderOps \cup {c \in BodyOps : c < b}

\* What describe has accepted has this shape.
LEMMA LoopShape == LoopOK => Shape
<1> SUFFICES ASSUME LoopOK PROVE Shape
  OBVIOUS
<1>1. /\ loop \in [reads : [Ops -> SUBSET Names], latch : [Phis -> Names], test : Names,
                   after : SUBSET Names, size : Nat]
  BY LoopAssumption DEF LoopOK
<1>2. /\ Names \subseteq Nat \ {0} /\ Phis \cap Ops = {} /\ HeaderOps \cap BodyOps = {}
  BY LoopAssumption
<1>3. loop.after \subseteq Phis \cup HeaderOps
  BY <1>1 DEF LoopOK, Described, Names, Ops
<1>4. \A p \in Phis : loop.latch[p] \in Names
  BY <1>1
<1> QED
  BY <1>2, <1>3, <1>4 DEF LoopOK, WellFormed, Shape, Names, Ops

\* The invariant holds before the first copy is made.
LEMMA InitIInv == Init => IInv
<1> SUFFICES ASSUME Init PROVE IInv
  OBVIOUS
<1>1. LoopOK
  <2>1. loop \in Loops /\ loop.size \in Nat
    BY LoopAssumption DEF Init
  <2>2. PICK t \in TripCounts : factor = FactorFor(t, loop.size)
    BY DEF Init
  <2>3. factor \in Nat /\ factor >= 2
    BY <2>1, <2>2, FactorType, LoopAssumption DEF Init
  <2> QED
    BY <2>3 DEF Init, LoopOK
<1>2. Shape
  BY <1>1, LoopShape
<1>3. /\ copies = 1 /\ Made = {0} /\ copy = 0 /\ iteration = 0 /\ toRun = HeaderOps
      /\ phase = "replicate" /\ 0 .. -1 = {}
  BY DEF Init, Made
<1>4. /\ DOMAIN phiValues = {0} /\ DOMAIN phiValues[0] = Phis
      /\ \A p \in Phis : phiValues[0][p] = <<p, 0>>
  BY DEF Init
<1>5. MapsOK
  <2>1. \A v \in Names : Translate(phiValues[0], v) = Location(v, 0)
    BY <1>4 DEF Translate, Location
  <2>2. \A p \in Phis : <<p, 0>> \in Available(0)
    BY DEF Available
  <2> QED
    BY <1>3, <1>4, <2>1, <2>2 DEF MapsOK
<1>6. CodeOK
  <2>1. /\ DOMAIN code = Ops \X {0}
        /\ \A i \in Ops : \A o \in loop.reads[i] : code[<<i, 0>>][o] = <<o, 0>>
    BY DEF Init
  <2>2. \A i \in Ops : \A o \in loop.reads[i] : OperandAt(i, o, 0) = <<o, 0>>
    BY <1>4 DEF OperandAt, Location
  <2> QED
    BY <1>3, <2>1, <2>2 DEF CodeOK
<1>7. TestsOK
  BY <1>3, <1>4 DEF Init, TestsOK
<1>8. ClosedOK /\ ControlOK
  BY <1>1, <1>3, LoopAssumption DEF ClosedOK, ControlOK, Iterations, LoopOK
<1>9. /\ DOMAIN env = Phis \X {0}
      /\ \A p \in Phis : env[<<p, 0>>] = <<p, -1>>
  BY DEF Init
<1>10. EnvOK
  <2>1. Available(0) = Phis \X {0}
    BY <1>3 DEF Available
  <2> QED
    BY <1>3, <1>9, <2>1 DEF EnvOK
<1>11. ValuesOK
  <2>1. ASSUME NEW p \in Phis PROVE Holds(phiValues[0][p]) = original[0][p]
    <3>1. 0 \in Iterations /\ p \in Names
      BY <1>2, LoopAssumption DEF Iterations, Shape
    <3>2. original[0][p] = Computed(loop, 0, original, original[0], p)
      BY <1>1, <3>1, TableEquations DEF LoopOK, IsRow
    <3>3. original[0][p] = <<p, -1>>
      BY <3>2 DEF Computed
    <3>4. <<p, 0>> \in DOMAIN env
      BY <1>9
    <3> QED
      BY <1>4, <1>9, <3>3, <3>4 DEF Holds
  <2> QED
    BY <1>3, <2>1 DEF ValuesOK
<1> QED
  BY <1>1, <1>5, <1>6, <1>7, <1>8, <1>10, <1>11 DEF IInv
\* The static parts say nothing of what the execution changes.
LEMMA StaticStep ==
    ASSUME IInv, UNCHANGED unrolled, phase # "replicate" \/ phase' = phase
    PROVE  /\ LoopOK' /\ MapsOK' /\ CodeOK' /\ TestsOK' /\ Made' = Made
           /\ ClosedOK'
<1>1. /\ loop' = loop /\ factor' = factor /\ copies' = copies /\ phiValues' = phiValues
      /\ code' = code /\ tests' = tests /\ carried' = carried /\ merged' = merged
      /\ original' = original
  BY DEF unrolled
<1>2. Made' = Made
  BY <1>1 DEF Made
<1>3. \A v, c : Location(v, c)' = Location(v, c)
  BY <1>1 DEF Location
<1>4. \A i, o, c : OperandAt(i, o, c)' = OperandAt(i, o, c)
  BY <1>3 DEF OperandAt
<1>5. LoopOK'
  BY <1>1 DEF IInv, LoopOK
<1>6. MapsOK'
  BY <1>1, <1>2, <1>3 DEF IInv, MapsOK
<1>7. CodeOK'
  BY <1>1, <1>2, <1>4 DEF IInv, CodeOK
<1>8. TestsOK'
  BY <1>1, <1>2 DEF IInv, TestsOK
<1>9. ClosedOK'
  BY <1>1, <1>2, <1>3 DEF IInv, ClosedOK
<1> QED
  BY <1>2, <1>5, <1>6, <1>7, <1>8, <1>9

\* At the end of a copy every value of the loop is available to the next.
LEMMA LocationAvailable ==
    ASSUME IInv, NEW c \in Made, NEW v \in Names
    PROVE  Location(v, c) \in Available(c + 1)
<1>1. Shape /\ c \in Nat
  BY LoopShape DEF IInv, Made, LoopOK
<1>2. CASE v \in Phis
  <2>1. Location(v, c) \in Available(c)
    BY <1>2 DEF IInv, MapsOK, Location
  <2>2. Available(c) \subseteq Available(c + 1)
    BY <1>1 DEF Available
  <2> QED
    BY <2>1, <2>2
<1>3. CASE v \in BodyOps
  BY <1>1, <1>3 DEF Shape, Location, Available
<1>4. CASE v \in HeaderOps
  BY <1>1, <1>4 DEF Shape, Location, Available
<1> QED
  BY <1>1, <1>2, <1>3, <1>4 DEF Shape

\* A copy is made with the values the previous one leaves.
LEMMA ReplicateIInv == IInv /\ Replicate => IInv'
<1> SUFFICES ASSUME IInv, Replicate PROVE IInv'
  OBVIOUS
<1>0. PICK n \in Nat : n = copies
  BY DEF IInv, LoopOK
<1> DEFINE testMap == Cloned(HeaderOps, Incoming(n), n)
           bodyMap == Cloned(BodyOps, Incoming(n), n)
<1>1. /\ Shape /\ n \in Nat \ {0} /\ n - 1 \in Made /\ n \notin Made /\ factor \in Nat
      /\ n < factor /\ copies' = n + 1 /\ Made' = Made \cup {n} /\ Made \subseteq Nat
      /\ copy \in Made /\ phase = "replicate"
  BY <1>0, LoopShape DEF IInv, LoopOK, Replicate, Made, ControlOK
<1>2. /\ UNCHANGED <<original, loop, factor, carried, merged, phase>>
      /\ UNCHANGED <<copy, iteration, toRun, env, seen>>
      /\ code' = Join(code, Join(Code(HeaderOps, testMap, n), Code(BodyOps, bodyMap, n)))
      /\ tests' = Join(tests, [c \in {n} |-> Translate(testMap, loop.test)])
      /\ phiValues' = Join(phiValues, [c \in {n} |-> bodyMap])
  BY <1>0 DEF Replicate, execution
<1>3. /\ DOMAIN phiValues' = Made' /\ phiValues'[n] = bodyMap
      /\ \A c \in Made : phiValues'[c] = phiValues[c]
  BY <1>1, <1>2 DEF Join, IInv, MapsOK
<1>4. /\ \A v \in Names : Translate(phiValues[n - 1], v) = Location(v, n - 1)
      /\ \A p \in Phis : Incoming(n)[p] = Location(loop.latch[p], n - 1)
  BY <1>1 DEF IInv, MapsOK, Incoming, Shape
<1>5. /\ DOMAIN testMap = HeaderOps \cup Phis /\ DOMAIN bodyMap = BodyOps \cup Phis
      /\ \A p \in Phis : testMap[p] = Incoming(n)[p] /\ bodyMap[p] = Incoming(n)[p]
      /\ \A h \in HeaderOps : testMap[h] = <<h, n>>
      /\ \A b \in BodyOps : bodyMap[b] = <<b, n>>
  BY <1>1 DEF Cloned, Shape
<1> HIDE DEF testMap, bodyMap
<1>6. /\ \A v \in Names : \A c \in Made : Location(v, c)' = Location(v, c)
      /\ \A v \in Names : Translate(bodyMap, v) = Location(v, n)'
  BY <1>1, <1>3, <1>5 DEF Location, Translate, Shape
<1>7. LoopOK'
  BY <1>1, <1>2 DEF IInv, LoopOK
<1>8. MapsOK'
  <2>1. \A c \in Made' : \A v \in Names : Translate(phiValues'[c], v) = Location(v, c)'
    BY <1>1, <1>3, <1>6 DEF IInv, MapsOK
  <2>2. ASSUME NEW c \in Made, NEW p \in Phis
        PROVE  /\ phiValues'[c][p] = IF c = 0 THEN <<p, 0>> ELSE Location(loop.latch[p], c - 1)'
               /\ phiValues'[c][p] \in Available(c)
    <3>1. /\ phiValues[c][p] = IF c = 0 THEN <<p, 0>> ELSE Location(loop.latch[p], c - 1)
          /\ phiValues[c][p] \in Available(c)
      BY DEF IInv, MapsOK
    <3>2. c # 0 => Location(loop.latch[p], c - 1)' = Location(loop.latch[p], c - 1)
      <4>1. c # 0 => c - 1 \in Made
        BY <1>1 DEF Made
      <4>2. loop.latch[p] \in Names /\ loop' = loop
        BY <1>1, <1>2 DEF Shape
      <4> QED
        BY <1>6, <4>1, <4>2
    <3> QED
      BY <1>2, <1>3, <3>1, <3>2
  <2>3. ASSUME NEW p \in Phis
        PROVE  /\ phiValues'[n][p] = Location(loop.latch[p], n - 1)'
               /\ phiValues'[n][p] \in Available(n)
    <3>1. phiValues'[n][p] = Location(loop.latch[p], n - 1)
      BY <1>3, <1>4, <1>5
    <3>2. loop.latch[p] \in Names /\ loop' = loop
      BY <1>1, <1>2 DEF Shape
    <3>3. Location(loop.latch[p], n - 1)' = Location(loop.latch[p], n - 1)
      BY <1>1, <1>6, <3>2
    <3>4. Location(loop.latch[p], n - 1) \in Available(n - 1 + 1)
      BY <1>1, <3>2, LocationAvailable
    <3>5. n - 1 + 1 = n
      BY <1>1
    <3> QED
      BY <3>1, <3>3, <3>4, <3>5
  <2>4. \A c : Available(c)' = Available(c)
    BY DEF Available
  <2> QED
    BY <1>1, <1>2, <1>3, <2>1, <2>2, <2>3, <2>4 DEF MapsOK
<1>9. CodeOK'
  <2> DEFINE fresh == Join(Code(HeaderOps, testMap, n), Code(BodyOps, bodyMap, n))
  <2>1. /\ DOMAIN fresh = Ops \X {n}
        /\ \A h \in HeaderOps : \A o \in loop.reads[h] : fresh[<<h, n>>][o] = Translate(testMap, o)
        /\ \A b \in BodyOps : \A o \in loop.reads[b] : fresh[<<b, n>>][o] = Translate(bodyMap, o)
    <3>1. /\ DOMAIN Code(HeaderOps, testMap, n) = HeaderOps \X {n}
          /\ DOMAIN Code(BodyOps, bodyMap, n) = BodyOps \X {n}
          /\ \A h \in HeaderOps : \A o \in loop.reads[h] :
                Code(HeaderOps, testMap, n)[<<h, n>>][o] = Translate(testMap, o)
          /\ \A b \in BodyOps : \A o \in loop.reads[b] :
                Code(BodyOps, bodyMap, n)[<<b, n>>][o] = Translate(bodyMap, o)
      BY DEF Code
    <3>2. DOMAIN fresh = Ops \X {n}
      BY <1>1, <3>1 DEF Join, Shape
    <3>3. \A h \in HeaderOps : fresh[<<h, n>>] = Code(HeaderOps, testMap, n)[<<h, n>>]
      BY <1>1, <3>1 DEF Join, Shape
    <3>4. \A b \in BodyOps : fresh[<<b, n>>] = Code(BodyOps, bodyMap, n)[<<b, n>>]
      BY <1>1, <3>1 DEF Join, Shape
    <3> QED
      BY <3>1, <3>2, <3>3, <3>4
  <2> HIDE DEF fresh
  <2>2. code' = Join(code, fresh)
    BY <1>2 DEF fresh
  <2>3. /\ DOMAIN code' = Ops \X Made'
        /\ \A i \in Ops : \A c \in Made : code'[<<i, c>>] = code[<<i, c>>]
        /\ \A i \in Ops : code'[<<i, n>>] = fresh[<<i, n>>]
    BY <1>1, <2>1, <2>2 DEF Join, IInv, CodeOK
  <2>4. ASSUME NEW i \in Ops, NEW c \in Made, NEW o \in loop.reads[i]
        PROVE  code'[<<i, c>>][o] = OperandAt(i, o, c)'
    <3>1. o \in Names
      BY <1>1 DEF Shape
    <3>2. OperandAt(i, o, c)' = OperandAt(i, o, c)
      BY <1>6, <3>1 DEF OperandAt
    <3> QED
      BY <2>3, <3>2 DEF IInv, CodeOK
  <2>5. ASSUME NEW i \in Ops, NEW o \in loop.reads[i]
        PROVE  code'[<<i, n>>][o] = OperandAt(i, o, n)'
    <3>1. o \in Names
      BY <1>1 DEF Shape
    <3>2. CASE i \in HeaderOps
      <4>1. o \in Phis \/ o \in HeaderOps
        BY <1>1, <3>2 DEF Shape
      <4>2. Translate(testMap, o) = IF o \in Phis THEN Location(o, n)' ELSE <<o, n>>
        BY <1>1, <1>3, <1>5, <4>1 DEF Translate, Shape, Location
      <4> QED
        BY <2>1, <2>3, <3>2, <4>2 DEF OperandAt
    <3>3. CASE i \in BodyOps
      <4>1. i \notin HeaderOps
        BY <1>1, <3>3 DEF Shape
      <4> QED
        BY <1>6, <2>1, <2>3, <3>1, <3>3, <4>1 DEF OperandAt
    <3> QED
      BY <1>1, <3>2, <3>3 DEF Shape
  <2> QED
    BY <1>1, <1>2, <2>3, <2>4, <2>5 DEF CodeOK
<1>10. TestsOK'
  <2>1. /\ DOMAIN tests' = Made' /\ tests'[n] = Translate(testMap, loop.test)
        /\ \A c \in Made : tests'[c] = tests[c]
    BY <1>1, <1>2 DEF Join, IInv, TestsOK
  <2>2. Translate(testMap, loop.test) =
            IF loop.test \in Phis THEN phiValues'[n][loop.test] ELSE <<loop.test, n>>
    BY <1>1, <1>3, <1>5 DEF Translate, Shape
  <2> QED
    BY <1>1, <1>2, <1>3, <2>1, <2>2 DEF IInv, TestsOK
<1>11. ClosedOK' /\ ControlOK'
  BY <1>1, <1>2 DEF IInv, ClosedOK, ControlOK
<1>12. EnvOK'
  BY <1>2 DEF IInv, EnvOK, Available
<1>13. ValuesOK'
  <2>1. phiValues'[copy] = phiValues[copy]
    BY <1>1, <1>3
  <2>2. (\A x : Holds(x)' = Holds(x)) /\ HeaderOnlyTests' = HeaderOnlyTests
    BY <1>2 DEF Holds, HeaderOnlyTests
  <2> QED
    BY <1>2, <2>1, <2>2 DEF IInv, ValuesOK
<1> QED
  BY <1>7, <1>8, <1>9, <1>10, <1>11, <1>12, <1>13 DEF IInv
\* The loop is closed with what the last copy leaves.
LEMMA CloseIInv == IInv /\ Close => IInv'
<1> SUFFICES ASSUME IInv, Close PROVE IInv'
  OBVIOUS
<1>1. /\ Shape /\ copies = factor /\ factor \in Nat /\ factor >= 2 /\ factor - 1 \in Made
      /\ Made = 0 .. factor - 1
  BY LoopShape DEF IInv, LoopOK, Close, Made
<1>2. /\ phase = "replicate" /\ phase' = "test"
      /\ UNCHANGED <<original, loop, factor, copies, phiValues, code, tests>>
      /\ UNCHANGED <<copy, iteration, toRun, env, seen>>
  BY DEF Close, execution
<1>3. Made' = Made /\ (\A v, c : Location(v, c)' = Location(v, c))
      /\ (\A i, o, c : OperandAt(i, o, c)' = OperandAt(i, o, c))
  BY <1>2 DEF Made, Location, OperandAt
<1>4. LoopOK' /\ TestsOK'
  BY <1>2, <1>3 DEF IInv, LoopOK, TestsOK
<1>5. MapsOK'
  BY <1>2, <1>3 DEF IInv, MapsOK
<1>6. CodeOK'
  BY <1>2, <1>3 DEF IInv, CodeOK
<1>7. ClosedOK'
  <2>1. ASSUME NEW p \in Phis
        PROVE  /\ carried'[p] = Location(loop.latch[p], factor - 1)
               /\ \A c \in Made : merged'[p][c] = phiValues[c][p]
    <3>1. loop.latch[p] \in Names
      BY <1>1 DEF Shape
    <3>2. carried'[p] = Location(loop.latch[p], factor - 1)
      BY <1>1, <3>1 DEF Close, IInv, MapsOK
    <3>3. ASSUME NEW c \in Made PROVE merged'[p][c] = phiValues[c][p]
      <4>1. merged'[p][c] = Escaping(p, c)
        BY <1>1 DEF Close
      <4>2. CASE c = 0
        BY <4>1, <4>2 DEF Escaping, IInv, MapsOK
      <4>3. CASE c # 0
        <5>1. c - 1 \in Made
          BY <1>1, <4>3
        <5>2. Escaping(p, c) = Location(loop.latch[p], c - 1)
          BY <3>1, <4>3, <5>1 DEF Escaping, IInv, MapsOK
        <5> QED
          BY <4>1, <4>3, <5>2 DEF IInv, MapsOK
      <4> QED
        BY <4>2, <4>3
    <3> QED
      BY <3>2, <3>3
  <2> QED
    BY <1>1, <1>2, <1>3, <2>1 DEF ClosedOK
<1>8. ControlOK' /\ EnvOK'
  BY <1>2 DEF IInv, ControlOK, EnvOK, Available
<1>9. ValuesOK'
  <2>1. (\A x : Holds(x)' = Holds(x)) /\ HeaderOnlyTests' = HeaderOnlyTests
    BY <1>2 DEF Holds, HeaderOnlyTests
  <2> QED
    BY <1>2, <2>1 DEF IInv, ValuesOK
<1> QED
  BY <1>4, <1>5, <1>6, <1>7, <1>8, <1>9 DEF IInv

\* The operands of the next instruction are computed, and where its copy looks
\* for them.
LEMMA OperandsThere ==
    ASSUME IInv, phase \in {"test", "body"}, NEW i \in toRun, NEW o \in loop.reads[i]
    PROVE  /\ code[<<i, copy>>][o] = OperandAt(i, o, copy)
           /\ o \in toRun \/ OperandAt(i, o, copy) \in DOMAIN env
<1>1. /\ Shape /\ copy \in Made /\ copy \in Nat /\ i \in Ops
      /\ (phase = "test" => i \in HeaderOps) /\ (phase = "body" => i \in BodyOps)
  <2>1. Shape /\ copies = factor /\ copy \in Nat /\ copy < factor /\ factor \in Nat
    BY LoopShape DEF IInv, LoopOK, ControlOK, ClosedOK
  <2> QED
    BY <2>1 DEF IInv, ControlOK, Made, Shape
<1>2. code[<<i, copy>>][o] = OperandAt(i, o, copy)
  BY <1>1 DEF IInv, CodeOK
<1>3. CASE o \in Phis
  <2>1. OperandAt(i, o, copy) \in Available(copy)
    BY <1>1, <1>3 DEF OperandAt, Location, IInv, MapsOK
  <2> QED
    BY <1>2, <2>1 DEF IInv, EnvOK
<1>4. CASE o \notin Phis /\ phase = "test"
  <2>1. o \in HeaderOps /\ OperandAt(i, o, copy) = <<o, copy>>
    BY <1>1, <1>4 DEF Shape, OperandAt
  <2>2. o \notin toRun => <<o, copy>> \in (HeaderOps \ toRun) \X {copy}
    BY <2>1
  <2> QED
    BY <1>2, <2>1, <2>2 DEF IInv, EnvOK
<1>5. CASE o \in HeaderOps /\ phase = "body"
  <2>1. OperandAt(i, o, copy) = <<o, 0>> /\ o \notin toRun
    BY <1>1, <1>5 DEF Shape, OperandAt, Location, IInv, ControlOK
  <2>2. CASE copy = 0
    <3>1. <<o, copy>> \in (HeaderOps \ toRun) \X {copy}
      BY <1>5, <2>1
    <3> QED
      BY <1>2, <2>1, <2>2, <3>1 DEF IInv, EnvOK
  <2>3. CASE copy # 0
    <3>1. o \in Ops /\ 0 \in 0 .. copy - 1
      BY <1>1, <1>5, <2>3 DEF Shape
    <3>2. <<o, 0>> \in Available(copy)
      BY <3>1 DEF Available
    <3> QED
      BY <1>2, <2>1, <3>2 DEF IInv, EnvOK
  <2> QED
    BY <2>2, <2>3
<1>6. CASE o \in BodyOps /\ phase = "body"
  <2>1. OperandAt(i, o, copy) = <<o, copy>>
    BY <1>1, <1>6 DEF Shape, OperandAt, Location
  <2>2. o \notin toRun => <<o, copy>> \in (BodyOps \ toRun) \X {copy}
    BY <1>6
  <2> QED
    BY <1>2, <1>6, <2>1, <2>2 DEF IInv, EnvOK
<1> QED
  BY <1>1, <1>3, <1>4, <1>5, <1>6 DEF Shape

\* The copy of the next instruction yields what the instruction does in the
\* original loop: it is given the same operands.
LEMMA YieldsTheOriginal ==
    ASSUME IInv, HeaderOnlyTests, phase \in {"test", "body"},
           NEW i \in toRun, \A j \in toRun : i <= j
    PROVE  Yields(i, copy) = original[iteration][i]
<1>1. /\ Shape /\ copy \in Made /\ i \in Ops /\ iteration \in Iterations
      /\ (phase = "test" => i \in HeaderOps) /\ (phase = "body" => i \in BodyOps)
      /\ Iterations \subseteq Nat /\ Names \subseteq Nat /\ i \in Names
  <2>1. Shape /\ copies = factor /\ copy \in Nat /\ copy < factor /\ factor \in Nat
    BY LoopShape DEF IInv, LoopOK, ControlOK, ClosedOK
  <2> QED
    BY <2>1, LoopAssumption DEF IInv, ControlOK, Made, Shape, Iterations
<1>2. ASSUME NEW o \in loop.reads[i]
      PROVE  Holds(code[<<i, copy>>][o]) = original[iteration][o]
  <2>1. code[<<i, copy>>][o] = OperandAt(i, o, copy)
    BY OperandsThere
  <2>2. CASE o \in Phis
    <3>1. OperandAt(i, o, copy) = phiValues[copy][o]
      BY <2>2 DEF OperandAt, Location
    <3> QED
      BY <2>1, <2>2, <3>1 DEF IInv, ValuesOK
  <2>3. CASE o \notin Phis /\ phase = "test"
    <3>1. o \in HeaderOps /\ o < i /\ OperandAt(i, o, copy) = <<o, copy>>
      BY <1>1, <2>3 DEF Shape, OperandAt
    <3>2. o \notin toRun
      BY <1>1, <3>1 DEF Shape
    <3> QED
      BY <2>1, <2>3, <3>1, <3>2 DEF IInv, ValuesOK
  <2>4. CASE o \notin Phis /\ phase = "body"
    <3>1. o \notin HeaderOps
      BY <1>1, <2>4 DEF HeaderOnlyTests
    <3>2. o \in BodyOps /\ o < i /\ OperandAt(i, o, copy) = <<o, copy>>
      BY <1>1, <2>4, <3>1 DEF Shape, OperandAt, Location
    <3>3. o \notin toRun
      BY <1>1, <3>2 DEF Shape
    <3> QED
      BY <2>1, <2>4, <3>2, <3>3 DEF IInv, ValuesOK
  <2> QED
    BY <2>2, <2>3, <2>4
<1> DEFINE row == original[iteration]
           alike == {n \in Iterations : \A o \in loop.reads[i] :
                                           Holds(code[<<i, copy>>][o]) = original[n][o]}
           before == Alike(loop, iteration, original, row, i)
<1>3. alike = {n \in Iterations : \A o \in loop.reads[i] : row[o] = original[n][o]}
  BY <1>2
<1>4. before \subseteq alike /\ iteration \in before /\ before \subseteq 0 .. iteration
  <2>1. before \subseteq 0 .. iteration /\ iteration \in before
    BY <1>1 DEF Alike
  <2>2. before \subseteq Iterations
    BY <1>1, <2>1, LoopAssumption DEF Iterations
  <2>3. \A n \in before : \A o \in loop.reads[i] : original[n][o] = row[o]
    BY DEF Alike
  <2> HIDE DEF alike, before, row
  <2> QED
    BY <1>3, <2>1, <2>2, <2>3
<1>5. \A n \in alike : n <= iteration => n \in before
  <2> SUFFICES ASSUME NEW n \in alike, n <= iteration PROVE n \in before
    OBVIOUS
  <2>1. n = iteration \/ n \in 0 .. iteration - 1
    BY <1>1, <1>3
  <2>2. \A o \in loop.reads[i] : original[n][o] = row[o]
    BY <1>3
  <2> QED
    BY <2>1, <2>2 DEF Alike
<1>6. alike \in SUBSET Nat /\ before \in SUBSET Nat /\ before # {}
  BY <1>1, <1>3, <1>4
<1> HIDE DEF alike, before
<1>7. PICK m \in before : \A n \in before : m <= n
  BY <1>6, LeastNatural
<1>8. \A n \in alike : m <= n
  <2> SUFFICES ASSUME NEW n \in alike PROVE m <= n
    OBVIOUS
  <2>1. n \in Nat /\ m \in Nat /\ m <= iteration /\ iteration \in Nat
    BY <1>1, <1>4, <1>6, <1>7
  <2> QED
    BY <1>5, <1>7, <2>1
<1>9. Least(alike) = m /\ Least(before) = m
  <2>1. alike \in SUBSET Int /\ before \in SUBSET Int /\ m \in alike
    BY <1>4, <1>6, <1>7
  <2> QED
    BY <1>7, <1>8, <2>1, LeastIs
<1>10. Yields(i, copy) = <<i, Least(alike)>>
  <2>1. alike # {}
    BY <1>4
  <2> QED
    BY <2>1 DEF Yields, alike
<1>11. row[i] = <<i, Least(before)>>
  <2>1. row[i] = Computed(loop, iteration, original, row, i)
    BY <1>1, TableEquations DEF IInv, LoopOK, IsRow
  <2>2. Computed(loop, iteration, original, row, i) = <<i, Least(before)>>
    BY <1>1, OpValues DEF before
  <2> QED
    BY <2>1, <2>2
<1> QED
  BY <1>9, <1>10, <1>11
\* One more instruction is computed where the next ones look for it.
LEMMA ExecuteIInv == IInv /\ Execute => IInv'
<1> SUFFICES ASSUME IInv, Execute PROVE IInv'
  OBVIOUS
<1>1. PICK i \in toRun : /\ \A j \in toRun : i <= j
                         /\ env' = Join(env, [n \in {<<i, copy>>} |-> Yields(i, copy)])
                         /\ toRun' = toRun \ {i}
  BY DEF Execute
<1>2. /\ phase \in {"test", "body"} /\ UNCHANGED <<unrolled, phase, copy, iteration, seen>>
  BY DEF Execute
<1>3. LoopOK' /\ MapsOK' /\ CodeOK' /\ TestsOK' /\ ClosedOK'
  BY <1>2, StaticStep
<1>4. /\ Shape /\ copy \in Made /\ copy \in Nat
      /\ (phase = "test" => i \in HeaderOps) /\ (phase = "body" => i \in BodyOps)
      /\ i \in Ops
  <2>1. Shape /\ copies = factor /\ copy \in Nat /\ copy < factor /\ factor \in Nat
    BY <1>2, LoopShape DEF IInv, LoopOK, ControlOK, ClosedOK
  <2> QED
    BY <1>2, <2>1 DEF IInv, ControlOK, Made, Shape
<1>5. ControlOK'
  BY <1>1, <1>2 DEF IInv, ControlOK, unrolled
<1>6. /\ DOMAIN env' = DOMAIN env \cup {<<i, copy>>} /\ env'[<<i, copy>>] = Yields(i, copy)
      /\ \A x \in DOMAIN env : x # <<i, copy>> => env'[x] = env[x]
  BY <1>1 DEF Join
<1>7. EnvOK'
  <2>1. Available(copy)' = Available(copy)
    BY <1>2 DEF Available
  <2>2. (HeaderOps \ toRun') \X {copy} \subseteq DOMAIN env'
    BY <1>1, <1>6 DEF IInv, EnvOK
  <2>3. phase = "body" => (BodyOps \ toRun') \X {copy} \subseteq DOMAIN env'
    BY <1>1, <1>6 DEF IInv, EnvOK
  <2>4. Available(copy) \subseteq DOMAIN env'
    BY <1>6 DEF IInv, EnvOK
  <2> QED
    BY <1>2, <2>1, <2>2, <2>3, <2>4 DEF EnvOK
<1>8. ValuesOK'
  <2>1. HeaderOnlyTests' = HeaderOnlyTests /\ original' = original /\ phiValues' = phiValues
        /\ loop' = loop
    BY <1>2 DEF unrolled, HeaderOnlyTests
  <2> SUFFICES ASSUME HeaderOnlyTests PROVE ValuesOK'
    BY <2>1 DEF ValuesOK
  <2>2. Yields(i, copy) = original[iteration][i]
    BY <1>1, <1>2, YieldsTheOriginal
  <2>3. \A x : x # <<i, copy>> => Holds(x)' = Holds(x)
    BY <1>6 DEF Holds
  <2>4. Holds(<<i, copy>>)' = original[iteration][i]
    BY <1>2, <1>6, <2>2 DEF Holds
  <2>5. ASSUME NEW p \in Phis PROVE Holds(phiValues[copy][p])' = original[iteration][p]
    <3>1. <<i, copy>> \notin Available(copy)
      BY <1>4 DEF Available, Shape
    <3>2. phiValues[copy][p] # <<i, copy>>
      BY <1>4, <3>1 DEF IInv, MapsOK
    <3>3. Holds(phiValues[copy][p]) = original[iteration][p]
      BY DEF IInv, ValuesOK
    <3> QED
      BY <1>2, <2>1, <2>3, <3>2, <3>3 DEF Holds
  <2>6. ASSUME phase # "body", NEW h \in HeaderOps \ toRun'
        PROVE  Holds(<<h, copy>>)' = original[iteration][h]
    <3>1. CASE h = i
      BY <2>4, <3>1
    <3>2. CASE h # i
      <4>1. h \in HeaderOps \ toRun /\ <<h, copy>> # <<i, copy>>
        BY <1>1, <3>2
      <4>2. Holds(<<h, copy>>) = original[iteration][h]
        BY <2>6, <4>1 DEF IInv, ValuesOK
      <4> QED
        BY <1>2, <2>3, <4>1, <4>2 DEF Holds
    <3> QED
      BY <3>1, <3>2
  <2>7. ASSUME phase = "body", NEW b \in BodyOps \ toRun'
        PROVE  Holds(<<b, copy>>)' = original[iteration][b]
    <3>1. CASE b = i
      BY <2>4, <3>1
    <3>2. CASE b # i
      <4>1. b \in BodyOps \ toRun /\ <<b, copy>> # <<i, copy>>
        BY <1>1, <3>2
      <4>2. Holds(<<b, copy>>) = original[iteration][b]
        BY <2>7, <4>1 DEF IInv, ValuesOK
      <4> QED
        BY <1>2, <2>3, <4>1, <4>2 DEF Holds
    <3> QED
      BY <3>1, <3>2
  <2> QED
    BY <1>2, <2>1, <2>5, <2>6, <2>7 DEF ValuesOK
<1> QED
  BY <1>3, <1>5, <1>7, <1>8 DEF IInv
\* The body follows its test.
LEMMA EnterIInv == IInv /\ Enter => IInv'
<1> SUFFICES ASSUME IInv, Enter PROVE IInv'
  OBVIOUS
<1>1. /\ phase = "test" /\ phase' = "body" /\ toRun = {} /\ toRun' = BodyOps
      /\ iteration < MaxIterations /\ UNCHANGED <<unrolled, copy, iteration, env, seen>>
  BY DEF Enter
<1>2. LoopOK' /\ MapsOK' /\ CodeOK' /\ TestsOK' /\ ClosedOK'
  BY <1>1, StaticStep
<1>3. ControlOK' /\ EnvOK'
  BY <1>1 DEF IInv, ControlOK, EnvOK, Available, unrolled
<1>4. ValuesOK'
  <2>1. (\A x : Holds(x)' = Holds(x)) /\ HeaderOnlyTests' = HeaderOnlyTests
    BY <1>1 DEF Holds, HeaderOnlyTests, unrolled
  <2> QED
    BY <1>1, <2>1 DEF IInv, ValuesOK, unrolled
<1> QED
  BY <1>2, <1>3, <1>4 DEF IInv

\* At the end of a body what the next iteration's phis take is in its place.
LEMMA NextPhis ==
    ASSUME IInv, Advance, NEW p \in Phis
    PROVE  /\ Location(loop.latch[p], copy) \in DOMAIN env
           /\ HeaderOnlyTests =>
                  Holds(Location(loop.latch[p], copy)) = original[iteration + 1][p]
<1> DEFINE v == loop.latch[p]
<1>1. /\ Shape /\ copy \in Made /\ copy \in Nat /\ v \in Names /\ p \in Names
      /\ iteration \in Nat /\ iteration < MaxIterations /\ MaxIterations \in Nat
      /\ phase = "body" /\ toRun = {}
  <2>1. phase = "body" /\ toRun = {}
    BY DEF Advance
  <2>2. Shape /\ copies = factor /\ copy \in Nat /\ copy < factor /\ factor \in Nat
    BY <2>1, LoopShape DEF IInv, LoopOK, ControlOK, ClosedOK
  <2> QED
    BY <2>1, <2>2, LoopAssumption DEF IInv, ControlOK, Made, Shape, Iterations
<1>2. Location(v, copy) \in DOMAIN env
  <2>1. CASE v \in Phis
    <3>1. Location(v, copy) \in Available(copy)
      BY <1>1, <2>1 DEF Location, IInv, MapsOK
    <3> QED
      BY <3>1 DEF IInv, EnvOK
  <2>2. CASE v \in BodyOps
    <3>1. Location(v, copy) = <<v, copy>> /\ <<v, copy>> \in (BodyOps \ toRun) \X {copy}
      BY <1>1, <2>2 DEF Location, Shape
    <3> QED
      BY <1>1, <3>1 DEF IInv, EnvOK
  <2>3. CASE v \in HeaderOps
    <3>1. Location(v, copy) = <<v, 0>> /\ v \notin toRun /\ v \in Ops
      BY <1>1, <2>3 DEF Location, Shape
    <3>2. CASE copy = 0
      <4>1. <<v, copy>> \in (HeaderOps \ toRun) \X {copy}
        BY <2>3, <3>1
      <4> QED
        BY <3>1, <3>2, <4>1 DEF IInv, EnvOK
    <3>3. CASE copy # 0
      <4>1. 0 \in 0 .. copy - 1
        BY <1>1, <3>3
      <4>2. <<v, 0>> \in Available(copy)
        BY <3>1, <4>1 DEF Available
      <4> QED
        BY <3>1, <4>2 DEF IInv, EnvOK
    <3> QED
      BY <3>2, <3>3
  <2> QED
    BY <1>1, <2>1, <2>2, <2>3 DEF Shape
<1>3. ASSUME HeaderOnlyTests PROVE Holds(Location(v, copy)) = original[iteration + 1][p]
  <2>1. Holds(Location(v, copy)) = original[iteration][v]
    <3>1. v \in Phis \/ v \in BodyOps
      BY <1>1, <1>3 DEF HeaderOnlyTests, Shape
    <3>2. CASE v \in Phis
      BY <1>3, <3>2 DEF Location, IInv, ValuesOK
    <3>3. CASE v \in BodyOps
      <4>1. Location(v, copy) = <<v, copy>> /\ v \in BodyOps \ toRun
        BY <1>1, <3>3 DEF Location, Shape
      <4> QED
        BY <1>1, <1>3, <4>1 DEF IInv, ValuesOK
    <3> QED
      BY <3>1, <3>2, <3>3
  <2>2. original[iteration + 1][p] = original[iteration][v]
    <3>1. PICK n \in Iterations : n = iteration + 1
      BY <1>1 DEF Iterations
    <3>2. original[n][p] = Computed(loop, n, original, original[n], p)
      BY <1>1, TableEquations DEF IInv, LoopOK, IsRow
    <3>3. Computed(loop, n, original, original[n], p)
              = IF n = 0 THEN <<p, -1>> ELSE original[n - 1][v]
      BY PhiValues
    <3>4. n # 0 /\ n - 1 = iteration
      BY <1>1, <3>1
    <3> HIDE DEF v
    <3> QED
      BY <3>1, <3>2, <3>3, <3>4
  <2> QED
    BY <2>1, <2>2
<1> QED
  BY <1>2, <1>3

\* The next copy, or the header again, finds its phis and all before it.
LEMMA AdvanceIInv == IInv /\ Advance => IInv'
<1> SUFFICES ASSUME IInv, Advance PROVE IInv'
  OBVIOUS
<1>1. /\ phase = "body" /\ phase' = "test" /\ toRun = {} /\ toRun' = HeaderOps
      /\ iteration' = iteration + 1 /\ UNCHANGED <<unrolled, seen>>
      /\ HeaderOps \ toRun' = {}
  BY DEF Advance
<1>2. /\ Shape /\ copies = factor /\ copy \in Nat /\ copy < factor /\ factor \in Nat
      /\ factor >= 2 /\ copy \in Made /\ Made = 0 .. factor - 1
      /\ iteration \in Nat /\ iteration < MaxIterations /\ MaxIterations \in Nat
  BY <1>1, LoopShape, LoopAssumption DEF IInv, LoopOK, ControlOK, ClosedOK, Made, Iterations
<1>3. LoopOK' /\ MapsOK' /\ CodeOK' /\ TestsOK' /\ ClosedOK'
  BY <1>1, StaticStep
<1>4. /\ original' = original /\ phiValues' = phiValues /\ loop' = loop /\ factor' = factor
      /\ HeaderOnlyTests' = HeaderOnlyTests
  BY <1>1 DEF unrolled, HeaderOnlyTests
<1>5. CASE copy + 1 < factor
  <2>1. copy' = copy + 1 /\ env' = env
    BY <1>5 DEF Advance
  <2>2. ControlOK'
    BY <1>1, <1>2, <1>4, <1>5, <2>1 DEF ControlOK, Iterations
  <2>3. EnvOK'
    <3>1. ASSUME NEW x \in Available(copy + 1) PROVE x \in DOMAIN env
      <4>1. x \in Available(copy) \/ x \in Ops \X {copy}
        BY <1>2 DEF Available
      <4>2. x \in Ops \X {copy} => x \in DOMAIN env
        BY <1>1, <1>2 DEF IInv, EnvOK, Shape
      <4> QED
        BY <4>1, <4>2 DEF IInv, EnvOK
    <3>2. Available(copy)' = Available(copy + 1)
      BY <2>1 DEF Available
    <3> QED
      BY <1>1, <2>1, <3>1, <3>2 DEF EnvOK
  <2>4. ValuesOK'
    <3>0. PICK n \in Nat : n = copy + 1
      BY <1>2
    <3> SUFFICES ASSUME HeaderOnlyTests, NEW p \in Phis
                 PROVE  Holds(phiValues[n][p])' = original[iteration + 1][p]
      BY <1>1, <1>4, <2>1, <3>0 DEF ValuesOK
    <3>1. phiValues[n][p] = Location(loop.latch[p], copy)
      <4>1. n \in Made /\ n # 0 /\ n - 1 = copy
        BY <1>2, <1>5, <3>0
      <4>2. phiValues[n][p] = Location(loop.latch[p], n - 1)
        BY <4>1 DEF IInv, MapsOK
      <4> QED
        BY <4>1, <4>2
    <3>2. Holds(Location(loop.latch[p], copy)) = original[iteration + 1][p]
      BY NextPhis
    <3>3. Holds(phiValues[n][p])' = Holds(phiValues[n][p])
      BY <1>4, <2>1 DEF Holds
    <3> QED
      BY <3>1, <3>2, <3>3
  <2> QED
    BY <1>3, <2>2, <2>3, <2>4 DEF IInv
<1>6. CASE ~(copy + 1 < factor)
  <2>1. /\ copy' = 0 /\ copy = factor - 1
        /\ env' = Join(env, [n \in Phis \X {0} |-> Holds(carried[n[1]])])
    BY <1>2, <1>6 DEF Advance
  <2>2. ControlOK'
    BY <1>1, <1>2, <1>4, <2>1 DEF ControlOK, Iterations
  <2>3. /\ Phis \X {0} \subseteq DOMAIN env'
        /\ \A p \in Phis : env'[<<p, 0>>] = Holds(carried[p])
    BY <2>1 DEF Join
  <2>4. EnvOK'
    <3>1. Available(copy)' = Phis \X {0}
      BY <2>1 DEF Available
    <3> QED
      BY <1>1, <2>3, <3>1 DEF EnvOK
  <2>5. ValuesOK'
    <3> SUFFICES ASSUME HeaderOnlyTests, NEW p \in Phis
                 PROVE  Holds(phiValues[0][p])' = original[iteration + 1][p]
      BY <1>1, <1>4, <2>1 DEF ValuesOK
    <3>1. phiValues[0][p] = <<p, 0>>
      <4>1. 0 \in Made
        BY <1>2
      <4> QED
        BY <4>1 DEF IInv, MapsOK
    <3>2. carried[p] = Location(loop.latch[p], copy)
      BY <1>1, <2>1 DEF IInv, ClosedOK
    <3>3. Holds(carried[p]) = original[iteration + 1][p]
      BY <3>2, NextPhis
    <3> QED
      BY <1>4, <2>3, <3>1, <3>3 DEF Holds
  <2> QED
    BY <1>3, <2>2, <2>4, <2>5 DEF IInv
<1> QED
  BY <1>5, <1>6

\* The merges take what the phis hold at the test that failed.
LEMMA LeaveIInv == IInv /\ Leave => IInv'
<1> SUFFICES ASSUME IInv, Leave PROVE IInv'
  OBVIOUS
<1>1. /\ phase = "test" /\ phase' = "left" /\ toRun = {} /\ toRun' = {}
      /\ UNCHANGED <<unrolled, copy, iteration, env>>
      /\ seen' = [v \in loop.after |->
                     Holds(IF v \in Phis THEN merged[v][copy] ELSE <<v, 0>>)]
  BY DEF Leave
<1>2. /\ Shape /\ copies = factor /\ copy \in Made
  BY <1>1, LoopShape DEF IInv, LoopOK, ControlOK, ClosedOK, Made
<1>3. LoopOK' /\ MapsOK' /\ CodeOK' /\ TestsOK' /\ ClosedOK'
  BY <1>1, StaticStep
<1>4. ControlOK' /\ EnvOK'
  BY <1>1 DEF IInv, ControlOK, EnvOK, Available, unrolled
<1>5. ValuesOK'
  <2>1. (\A x : Holds(x)' = Holds(x)) /\ HeaderOnlyTests' = HeaderOnlyTests
    BY <1>1 DEF Holds, HeaderOnlyTests, unrolled
  <2>2. ASSUME HeaderOnlyTests, NEW v \in loop.after PROVE seen'[v] = original[iteration][v]
    <3>1. v \in Phis
      BY <1>2, <2>2 DEF HeaderOnlyTests, Shape
    <3>2. merged[v][copy] = phiValues[copy][v]
      BY <1>1, <1>2, <3>1 DEF IInv, ClosedOK
    <3>3. seen'[v] = Holds(phiValues[copy][v])
      BY <1>1, <3>1, <3>2
    <3> QED
      BY <2>2, <3>1, <3>3 DEF IInv, ValuesOK
  <2> QED
    BY <1>1, <2>1, <2>2 DEF IInv, ValuesOK, unrolled
<1> QED
  BY <1>3, <1>4, <1>5 DEF IInv

\* Every step keeps the invariant.
LEMMA NextIInv == IInv /\ [Next]_vars => IInv'
<1> SUFFICES ASSUME IInv, UNCHANGED vars PROVE IInv'
  BY ReplicateIInv, CloseIInv, ExecuteIInv, EnterIInv, AdvanceIInv, LeaveIInv DEF Next
<1>1. UNCHANGED unrolled /\ UNCHANGED phase /\ UNCHANGED <<copy, iteration, toRun, env, seen>>
  BY DEF vars, execution
<1>2. LoopOK' /\ MapsOK' /\ CodeOK' /\ TestsOK' /\ ClosedOK'
  BY <1>1, StaticStep
<1>3. ControlOK' /\ EnvOK'
  BY <1>1 DEF IInv, ControlOK, EnvOK, Available, unrolled
<1>4. ValuesOK'
  <2>1. (\A x : Holds(x)' = Holds(x)) /\ HeaderOnlyTests' = HeaderOnlyTests
    BY <1>1 DEF Holds, HeaderOnlyTests, unrolled
  <2> QED
    BY <1>1, <2>1 DEF IInv, ValuesOK, unrolled
<1> QED
  BY <1>2, <1>3, <1>4 DEF IInv

\* The copies, the maps they are made with and the execution stay related as
\* above, for every loop that is accepted and every factor.
THEOREM Invariant == Spec => []IInv
BY InitIInv, NextIInv, PTL DEF Spec

-----------------------------------------------------------------------------
(* What it gives *)

\* The invariant rules out a read of what has not been computed.
LEMMA IInvDefined == IInv => DefinedBeforeUse
<1> SUFFICES ASSUME IInv PROVE DefinedBeforeUse
  OBVIOUS
<1>1. ASSUME phase \in {"test", "body"}, NEW i \in toRun, NEW o \in loop.reads[i]
      PROVE  code[<<i, copy>>][o] \in DOMAIN env \/ o \in toRun
  BY <1>1, OperandsThere
<1>2. ASSUME phase = "test", toRun = {}, NEW p \in Phis
      PROVE  tests[copy] \in DOMAIN env /\ merged[p][copy] \in DOMAIN env
  <2>1. Shape /\ copies = factor /\ copy \in Made
    BY <1>2, LoopShape DEF IInv, LoopOK, ControlOK, ClosedOK, Made
  <2>2. \A q \in Phis : phiValues[copy][q] \in DOMAIN env
    BY <2>1 DEF IInv, MapsOK, EnvOK
  <2>3. merged[p][copy] \in DOMAIN env
    BY <1>2, <2>1, <2>2 DEF IInv, ClosedOK
  <2>4. CASE loop.test \in Phis
    BY <2>1, <2>2, <2>3, <2>4 DEF IInv, TestsOK
  <2>5. CASE loop.test \notin Phis
    <3>1. tests[copy] = <<loop.test, copy>>
      BY <2>1, <2>5 DEF IInv, TestsOK
    <3>2. <<loop.test, copy>> \in (HeaderOps \ toRun) \X {copy}
      BY <1>2, <2>1, <2>5 DEF Shape
    <3> QED
      BY <2>3, <3>1, <3>2 DEF IInv, EnvOK
  <2> QED
    BY <2>3, <2>4, <2>5
<1> QED
  BY <1>1, <1>2 DEF DefinedBeforeUse

\* On every path through the copies and the merge, nothing is read before it is
\* computed.
THEOREM NothingIsReadTooEarly == Spec => []DefinedBeforeUse
BY IInvDefined, Invariant, PTL

\* The invariant says what every test, body and merge computes.
LEMMA IInvAgrees == IInv => PlainLoopsAgree
<1> SUFFICES ASSUME IInv, HeaderOnlyTests PROVE Agrees
  BY DEF PlainLoopsAgree
<1>1. ASSUME phase = "test", toRun = {}
      PROVE  Holds(tests[copy]) = original[iteration][loop.test]
  <2>1. Shape /\ copies = factor /\ copy \in Made
    BY <1>1, LoopShape DEF IInv, LoopOK, ControlOK, ClosedOK, Made
  <2>2. CASE loop.test \in Phis
    BY <2>1, <2>2 DEF IInv, TestsOK, ValuesOK
  <2>3. CASE loop.test \notin Phis
    <3>1. tests[copy] = <<loop.test, copy>> /\ loop.test \in HeaderOps \ toRun
      BY <1>1, <2>1, <2>3 DEF IInv, TestsOK, Shape
    <3> QED
      BY <1>1, <3>1 DEF IInv, ValuesOK
  <2> QED
    BY <2>2, <2>3
<1>2. ASSUME phase = "body", toRun = {}, NEW b \in BodyOps
      PROVE  env[<<b, copy>>] = original[iteration][b]
  <2>1. b \in BodyOps \ toRun /\ <<b, copy>> \in (BodyOps \ toRun) \X {copy}
    BY <1>2
  <2>2. <<b, copy>> \in DOMAIN env
    BY <1>2, <2>1 DEF IInv, EnvOK
  <2>3. Holds(<<b, copy>>) = original[iteration][b]
    BY <1>2, <2>1 DEF IInv, ValuesOK
  <2> QED
    BY <2>2, <2>3 DEF Holds
<1>3. phase = "left" => \A v \in loop.after : seen[v] = original[iteration][v]
  BY DEF IInv, ValuesOK
<1> QED
  BY <1>1, <1>2, <1>3 DEF Agrees

\* A loop whose header computes nothing but its test keeps its values in every
\* copy and wherever it is left from.
THEOREM UnrollingKeepsValues == Spec => []PlainLoopsAgree
BY IInvAgrees, Invariant, PTL
=============================================================================
