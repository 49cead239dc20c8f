------------------------------ MODULE Induction ------------------------------
(***************************************************************************)
(* Induction over an interval of the natural numbers, for the proofs about *)
(* the loops of the program: a loop that computes a value in n rounds is a *)
(* function on 0 .. n defined by recursion on its argument.                *)
(*                                                                         *)
(* The property that is carried along is given as the set of the rounds at *)
(* which it holds, and the loop's body as a function of the round and of   *)
(* what the previous round left, so that every statement is first-order.   *)
(***************************************************************************)
EXTENDS Integers, FiniteSetTheorems, TLAPS

\* Every non-empty set of natural numbers has a least element.
LEMMA LeastNatural ==
    ASSUME NEW T \in SUBSET Nat, T # {}
    PROVE  \E m \in T : \A n \in T : m <= n
<1> DEFINE R == StrictSubsetOrdering(Nat)
           F == {0 .. n : n \in T}
<1>1. \A n \in T : 0 .. n \in FiniteSubsetsOf(Nat)
  BY FS_Interval DEF FiniteSubsetsOf
<1>2. F \subseteq FiniteSubsetsOf(Nat) /\ F # {}
  BY <1>1
<1>3. IsWellFoundedOn(R, FiniteSubsetsOf(Nat))
  BY FS_StrictSubsetOrderingWellFounded
<1> HIDE DEF F, R
<1>4. PICK x \in F : \A y \in F : <<y, x>> \notin R
  BY <1>2, <1>3, WFMin
<1> USE DEF F, R
<1>5. PICK m \in T : x = 0 .. m
  BY <1>4
<1>6. ASSUME NEW n \in T PROVE m <= n
  <2> SUFFICES ASSUME n < m PROVE FALSE
    OBVIOUS
  <2>1. m \in 0 .. m /\ m \notin 0 .. n
    OBVIOUS
  <2>2. 0 .. n \subseteq 0 .. m /\ 0 .. n # 0 .. m /\ 0 .. n \in F
    BY <2>1
  <2>3. <<0 .. n, x>> \in R
    BY <1>5, <2>2 DEF StrictSubsetOrdering
  <2> QED
    BY <1>4, <2>2, <2>3
<1> QED
  BY <1>6

\* What holds before the first round and is kept by each holds after any.
LEMMA Rounds ==
    ASSUME NEW n \in Nat, NEW S, 0 \in S,
           \A i \in 1 .. n : i - 1 \in S => i \in S
    PROVE  \A i \in 0 .. n : i \in S
<1> DEFINE T == {i \in 0 .. n : i \notin S}
<1> SUFFICES ASSUME T # {} PROVE FALSE
  OBVIOUS
<1>0. T \in SUBSET Nat
  OBVIOUS
<1>1. PICK m \in T : \A i \in T : m <= i
  <2> HIDE DEF T
  <2> QED
    BY <1>0, LeastNatural
<1>2. m \in 1 .. n /\ m - 1 \notin T
  BY <1>1
<1> QED
  BY <1>1, <1>2

\* What is computed in n rounds from init, round i turning what it finds into
\* F[i] of it
IsLoop(h, n, D, init, F) ==
    /\ h \in [0 .. n -> D]
    /\ h[0] = init
    /\ \A i \in 1 .. n : h[i] = F[i][h[i - 1]]

\* A loop body given as a function can be iterated.
LEMMA LoopExists ==
    ASSUME NEW n \in Nat, NEW D, NEW init \in D, NEW F, F \in [1 .. n -> [D -> D]]
    PROVE  \E h : IsLoop(h, n, D, init, F)
<1> DEFINE Upto(k, h) == h[0] = init /\ \A i \in 1 .. k : h[i] = F[i][h[i - 1]]
           S == {k \in 0 .. n : \E h \in [0 .. k -> D] : Upto(k, h)}
<1>1. 0 \in S
  <2> DEFINE h == [i \in 0 .. 0 |-> init]
  <2>1. h \in [0 .. 0 -> D] /\ h[0] = init /\ 1 .. 0 = {}
    OBVIOUS
  <2>2. h \in [0 .. 0 -> D] /\ Upto(0, h) /\ 0 \in 0 .. n
    BY <2>1
  <2> HIDE DEF h, Upto
  <2> QED
    BY <2>2
<1>2. ASSUME NEW k \in 1 .. n, k - 1 \in S
      PROVE  k \in S
  <2>1. PICK h \in [0 .. k - 1 -> D] : Upto(k - 1, h)
    BY <1>2
  <2> DEFINE g == [i \in 0 .. k |-> IF i = k THEN F[k][h[k - 1]] ELSE h[i]]
  <2>2. h[k - 1] \in D
    OBVIOUS
  <2>3. g \in [0 .. k -> D]
    BY <2>2
  <2>4. Upto(k, g)
    <3>1. g[0] = init
      BY <2>1
    <3>2. ASSUME NEW i \in 1 .. k PROVE g[i] = F[i][g[i - 1]]
      <4>1. g[i - 1] = h[i - 1]
        OBVIOUS
      <4>2. CASE i = k
        BY <4>1, <4>2
      <4>3. CASE i # k
        BY <2>1, <4>1, <4>3
      <4> QED
        BY <4>2, <4>3
    <3> QED
      BY <3>1, <3>2
  <2> HIDE DEF g, Upto
  <2> QED
    BY <2>3, <2>4
<1>3. n \in S
  <2> HIDE DEF S
  <2>1. \A k \in 0 .. n : k \in S
    BY <1>1, <1>2, Rounds
  <2> QED
    BY <2>1
<1> QED
  BY <1>3 DEF IsLoop

\* A subset of a set of n elements at most that grows by what G finds in it is closed
\* after n rounds: a round that does not close it adds an element.
LEMMA SaturatesIn ==
    ASSUME NEW n \in Nat, NEW B, IsFiniteSet(B), Cardinality(B) <= n, NEW h, NEW G,
           h \in [0 .. n -> SUBSET B],
           G \in [SUBSET B -> SUBSET B],
           \A i \in 1 .. n : h[i] = h[i - 1] \cup G[h[i - 1]]
    PROVE  G[h[n]] \subseteq h[n]
<1> DEFINE Closed(X) == G[X] \subseteq X
           S == {i \in 0 .. n : Closed(h[i]) \/ Cardinality(h[i]) >= i}
<1>1. IsFiniteSet(B) /\ Cardinality(B) <= n /\ Cardinality(B) \in Nat
  BY FS_CardinalityType
<1>2. \A X \in SUBSET B : IsFiniteSet(X) /\ Cardinality(X) \in Nat /\ Cardinality(X) <= n
  BY <1>1, FS_Subset, FS_CardinalityType
<1>3. 0 \in S
  <2>1. h[0] \in SUBSET B /\ 0 \in 0 .. n
    OBVIOUS
  <2>2. Cardinality(h[0]) >= 0
    BY <1>2, <2>1
  <2> QED
    BY <2>1, <2>2
<1>4. ASSUME NEW i \in 1 .. n, i - 1 \in S PROVE i \in S
  <2> DEFINE old == h[i - 1]
             new == h[i]
  <2>1. new = old \cup G[old] /\ old \subseteq B /\ new \subseteq B /\ i \in 0 .. n
    OBVIOUS
  <2>2. CASE Closed(old)
    <3>1. new = old
      BY <2>1, <2>2
    <3> QED
      BY <2>1, <2>2, <3>1
  <2>3. CASE ~Closed(old)
    <3>1. old # new /\ old \subseteq new
      BY <2>1, <2>3
    <3>2. Cardinality(old) <= Cardinality(new) /\ Cardinality(old) # Cardinality(new)
      <4>1. IsFiniteSet(new)
        BY <1>2, <2>1
      <4> HIDE DEF old, new
      <4> QED
        BY <3>1, <4>1, FS_Subset
    <3>3. Cardinality(old) >= i - 1
      BY <1>4, <2>3
    <3>4. Cardinality(new) \in Nat /\ Cardinality(old) \in Nat
      BY <1>2, <2>1
    <3>5. Cardinality(new) >= i
      BY <3>2, <3>3, <3>4
    <3> QED
      BY <2>1, <3>5
  <2> QED
    BY <2>2, <2>3
<1>5. n \in S
  <2> HIDE DEF S
  <2>1. \A i \in 0 .. n : i \in S
    BY <1>3, <1>4, Rounds
  <2> QED
    BY <2>1
<1>6. CASE Closed(h[n])
  BY <1>6
<1>7. CASE ~Closed(h[n])
  <2>1. Cardinality(h[n]) >= n /\ h[n] \subseteq B
    BY <1>5, <1>7
  <2>2. h[n] = B
    <3>1. h[n] \subseteq B /\ Cardinality(h[n]) = Cardinality(B)
      BY <1>1, <1>2, <2>1, FS_Subset
    <3> QED
      BY <1>1, <3>1, FS_Subset
  <2> QED
    BY <2>2
<1> QED
  BY <1>6, <1>7
\* A subset of 1 .. n is closed after n rounds.
LEMMA Saturates ==
    ASSUME NEW n \in Nat, NEW h, NEW G,
           h \in [0 .. n -> SUBSET (1 .. n)],
           G \in [SUBSET (1 .. n) -> SUBSET (1 .. n)],
           \A i \in 1 .. n : h[i] = h[i - 1] \cup G[h[i - 1]]
    PROVE  G[h[n]] \subseteq h[n]
<1> DEFINE B == 1 .. n
<1>1. IsFiniteSet(B) /\ Cardinality(B) <= n
  <2>1. IsFiniteSet(B) /\ Cardinality(B) = n
    BY FS_Interval
  <2> QED
    BY <2>1
<1>2. h \in [0 .. n -> SUBSET B] /\ G \in [SUBSET B -> SUBSET B]
  OBVIOUS
<1> HIDE DEF B
<1> QED
  BY <1>1, <1>2, SaturatesIn

\* What holds of an element whenever it holds of those of a smaller measure holds of
\* all of them.
LEMMA ByMeasure ==
    ASSUME NEW S, NEW mu, \A v \in S : mu[v] \in Nat, NEW T,
           \A v \in S : (\A w \in S : mu[w] < mu[v] => w \in T) => v \in T
    PROVE  S \subseteq T
<1> DEFINE R == {mu[v] : v \in S \ T}
<1> SUFFICES ASSUME S \ T # {} PROVE FALSE
  OBVIOUS
<1>1. R \in SUBSET Nat /\ R # {}
  OBVIOUS
<1>2. PICK m \in R : \A k \in R : m <= k
  <2> HIDE DEF R
  <2> QED
    BY <1>1, LeastNatural
<1>3. PICK v \in S \ T : mu[v] = m
  BY <1>2
<1>4. ASSUME NEW w \in S, mu[w] < mu[v], w \notin T PROVE FALSE
  <2>1. mu[w] \in R
    BY <1>4
  <2>2. mu[w] \in Nat /\ mu[v] \in Nat
    OBVIOUS
  <2>3. m <= mu[w]
    BY <1>2, <2>1
  <2> QED
    BY <1>3, <1>4, <2>2, <2>3
<1> QED
  BY <1>3, <1>4

\* A definition by recursion: E[v] says what the function is at v, and looks only at
\* what it is where the measure mu is smaller
IsRecursionBy(mu, E, S, V) ==
    /\ V # {} /\ \A v \in S : mu[v] \in Nat
    /\ E \in [S -> [[S -> V] -> V]]
    /\ \A v \in S : \A f, g \in [S -> V] :
          (\A w \in S : mu[w] < mu[v] => f[w] = g[w]) => E[v][f] = E[v][g]

\* Such a definition defines a function.
LEMMA RecursionByExists ==
    ASSUME NEW mu, NEW S, NEW V, NEW E, IsRecursionBy(mu, E, S, V)
    PROVE  \E f \in [S -> V] : \A v \in S : f[v] = E[v][f]
<1> DEFINE Upto(f, n) == \A v \in S : mu[v] < n => f[v] = E[v][f]
<1> USE DEF IsRecursionBy
<1> PICK d \in V : TRUE
  OBVIOUS
<1>1. ASSUME NEW n \in Nat PROVE \E f \in [S -> V] : Upto(f, n)
  <2> DEFINE R == {k \in 0 .. n : \E f \in [S -> V] : Upto(f, k)}
  <2>1. 0 \in R
    <3>1. [v \in S |-> d] \in [S -> V]
      OBVIOUS
    <3>2. Upto([v \in S |-> d], 0)
      OBVIOUS
    <3> HIDE DEF Upto
    <3> QED
      BY <3>1, <3>2
  <2>2. ASSUME NEW k \in 1 .. n, k - 1 \in R PROVE k \in R
    <3>1. PICK f \in [S -> V] : Upto(f, k - 1)
      BY <2>2
    <3> DEFINE g == [v \in S |-> IF mu[v] = k - 1 THEN E[v][f] ELSE f[v]]
    <3>2. g \in [S -> V]
      OBVIOUS
    <3>3. ASSUME NEW v \in S, mu[v] < k PROVE g[v] = E[v][g]
      <4>1. \A w \in S : mu[w] < mu[v] => f[w] = g[w]
        BY <3>3
      <4>2. E[v][f] = E[v][g]
        <5> HIDE DEF g
        <5> QED
          BY <3>2, <4>1
      <4>3. g[v] = E[v][f]
        <5>1. mu[v] \in Nat
          OBVIOUS
        <5>2. CASE mu[v] = k - 1
          BY <5>2
        <5>3. CASE mu[v] # k - 1
          <6>1. mu[v] < k - 1
            <7> DEFINE x == mu[v]
            <7>1. x \in Nat /\ k \in Int /\ x < k /\ x # k - 1
              BY <3>3, <5>1, <5>3
            <7> HIDE DEF x
            <7>2. x < k - 1
              BY <7>1
            <7> QED
              BY <7>2 DEF x
          <6> QED
            BY <3>1, <5>3, <6>1
        <5> QED
          BY <5>2, <5>3
      <4> QED
        BY <4>2, <4>3
    <3> HIDE DEF g
    <3>4. Upto(g, k)
      BY <3>3
    <3> QED
      BY <3>2, <3>4
  <2>3. n \in R
    <3> HIDE DEF R
    <3>1. \A k \in 0 .. n : k \in R
      BY <2>1, <2>2, Rounds
    <3> QED
      BY <3>1
  <2> QED
    BY <2>3
<1>2. ASSUME NEW n \in Nat, NEW f \in [S -> V], NEW g \in [S -> V], Upto(f, n), Upto(g, n)
      PROVE  \A v \in S : mu[v] < n => f[v] = g[v]
  <2> DEFINE T == {v \in S : mu[v] < n => f[v] = g[v]}
  <2>1. ASSUME NEW v \in S, \A w \in S : mu[w] < mu[v] => w \in T PROVE v \in T
    <3> SUFFICES ASSUME mu[v] < n PROVE f[v] = g[v]
      OBVIOUS
    <3>1. \A w \in S : mu[w] \in Nat
      OBVIOUS
    <3>2. \A w \in S : mu[w] < mu[v] => f[w] = g[w]
      BY <2>1, <3>1
    <3>3. E[v][f] = E[v][g]
      BY <3>2
    <3> QED
      BY <1>2, <3>3
  <2>2. S \subseteq T
    <3>1. \A v \in S : mu[v] \in Nat
      OBVIOUS
    <3> HIDE DEF T, Upto, IsRecursionBy
    <3>2. \A v \in S : (\A w \in S : mu[w] < mu[v] => w \in T) => v \in T
      BY <2>1
    <3> QED
      BY <3>1, <3>2, ByMeasure
  <2> QED
    BY <2>2
<1> DEFINE h(n) == CHOOSE f \in [S -> V] : Upto(f, n)
           diagonal == [v \in S |-> h(mu[v] + 1)[v]]
<1>3. \A n \in Nat : h(n) \in [S -> V] /\ Upto(h(n), n)
  BY <1>1
<1>4. diagonal \in [S -> V]
  <2> HIDE DEF h
  <2> QED
    BY <1>3
<1>5. ASSUME NEW v \in S PROVE diagonal[v] = E[v][diagonal]
  <2> HIDE DEF h
  <2>1. h(mu[v] + 1) \in [S -> V] /\ Upto(h(mu[v] + 1), mu[v] + 1)
    BY <1>3
  <2>2. ASSUME NEW w \in S, mu[w] < mu[v] PROVE diagonal[w] = h(mu[v] + 1)[w]
    <3>1. h(mu[w] + 1) \in [S -> V] /\ Upto(h(mu[w] + 1), mu[w] + 1)
      BY <1>3
    <3>2. Upto(h(mu[v] + 1), mu[w] + 1)
      BY <2>1, <2>2
    <3>3. h(mu[w] + 1)[w] = h(mu[v] + 1)[w]
      <4>1. mu[w] + 1 \in Nat /\ mu[w] < mu[w] + 1
        OBVIOUS
      <4> HIDE DEF Upto
      <4> QED
        BY <1>2, <2>1, <3>1, <3>2, <4>1
    <3> QED
      BY <3>3
  <2>3. h(mu[v] + 1)[v] = E[v][h(mu[v] + 1)]
    BY <2>1
  <2>4. E[v][h(mu[v] + 1)] = E[v][diagonal]
    <3> HIDE DEF diagonal
    <3> QED
      BY <1>4, <2>1, <2>2
  <2>5. diagonal[v] = h(mu[v] + 1)[v]
    OBVIOUS
  <2> QED
    BY <2>3, <2>4, <2>5
<1> HIDE DEF diagonal
<1> QED
  BY <1>4, <1>5

\* A definition by recursion on natural numbers
IsRecursion(E, S, V) ==
    /\ S \subseteq Nat /\ V # {}
    /\ E \in [S -> [[S -> V] -> V]]
    /\ \A v \in S : \A f, g \in [S -> V] :
          (\A w \in S : w < v => f[w] = g[w]) => E[v][f] = E[v][g]

\* It defines a function as well.
LEMMA RecursionExists ==
    ASSUME NEW S, NEW V, NEW E, IsRecursion(E, S, V)
    PROVE  \E f \in [S -> V] : \A v \in S : f[v] = E[v][f]
<1> DEFINE mu == [v \in S |-> v]
<1>1. \A v \in S : mu[v] = v /\ v \in Nat
  BY DEF IsRecursion
<1> HIDE DEF mu
<1>2. \A v \in S : \A f, g \in [S -> V] :
        (\A w \in S : mu[w] < mu[v] => f[w] = g[w]) => E[v][f] = E[v][g]
  <2> SUFFICES ASSUME NEW v \in S, NEW f \in [S -> V], NEW g \in [S -> V],
                      \A w \in S : mu[w] < mu[v] => f[w] = g[w]
               PROVE  E[v][f] = E[v][g]
    OBVIOUS
  <2>1. \A w \in S : w < v => f[w] = g[w]
    BY <1>1
  <2> QED
    BY <2>1 DEF IsRecursion
<1>3. IsRecursionBy(mu, E, S, V)
  BY <1>1, <1>2 DEF IsRecursion, IsRecursionBy
<1> QED
  BY <1>3, RecursionByExists
=============================================================================
