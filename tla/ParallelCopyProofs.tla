------------------------- MODULE ParallelCopyProofs -------------------------
(***************************************************************************)
(* The sequentialization of a parallel copy is right for every number of   *)
(* phis and every assignment of sources to them: it implements the         *)
(* simultaneous assignment, and it only ever stalls on whole cycles.       *)
(***************************************************************************)
EXTENDS ParallelCopy, TLAPS, FiniteSetTheorems

\* The copies write nothing but assigned roots and temporaries.
OthersUntouched == \A l \in Locations \ (Assigned \ pending) : mem[l] = l

IInv == TypeOK /\ SourcesSurvive /\ OthersUntouched

Temps == MaxRoot + 1 .. MaxRoot + temps

\* Locations are numbers, the roots the largest of them.
LEMMA LocationTypes ==
    /\ MaxRoot \in Nat
    /\ Roots \subseteq Int /\ Locations \subseteq Int /\ Roots \subseteq Locations
    /\ \A l \in Locations : l <= MaxRoot
BY LocationAssumption DEF Roots, Locations

\* Before the first copy every location holds its own value.
LEMMA InitIInv == Init => IInv
<1> SUFFICES ASSUME Init PROVE IInv
  OBVIOUS
<1>1. PICK S \in SUBSET Roots : wanted \in [S -> Locations]
  BY DEF Init
<1>2. Assigned = S /\ source = wanted /\ pending = S /\ temps = 0
      /\ mem = [l \in Locations |-> l]
  BY <1>1 DEF Init, Assigned
<1>3. (MaxRoot + 1 .. MaxRoot + temps) = {}
  BY <1>2, LocationTypes
<1>4. TypeOK
  BY <1>1, <1>2, <1>3 DEF TypeOK
<1>5. SourcesSurvive /\ OthersUntouched
  BY <1>1, <1>2 DEF SourcesSurvive, OthersUntouched
<1> QED
  BY <1>4, <1>5 DEF IInv

\* Emitting a ready assignment overwrites nothing that is still to be read.
LEMMA EmitIInv == IInv /\ Emit => IInv'
<1> SUFFICES ASSUME IInv, Emit PROVE IInv'
  OBVIOUS
<1>1. PICK r \in pending :
         /\ Ready(r)
         /\ mem' = [mem EXCEPT ![r] = mem[source[r]]]
         /\ pending' = pending \ {r}
         /\ UNCHANGED <<wanted, source, temps>>
  BY DEF Emit
<1>2. r \in Assigned /\ r \in Locations /\ r \in DOMAIN mem /\ source[r] \in DOMAIN mem
  BY LocationTypes DEF IInv, TypeOK
<1>3. Assigned' = Assigned
  BY <1>1 DEF Assigned
<1>4. TypeOK'
  BY <1>1, <1>2, <1>3 DEF IInv, TypeOK
<1>5. SourcesSurvive'
  <2> SUFFICES ASSUME NEW s \in Assigned
               PROVE  mem'[IF s \in pending' THEN source[s] ELSE s] = wanted[s]
    BY <1>1, <1>3 DEF SourcesSurvive
  <2>1. s \in DOMAIN mem /\ source[s] \in DOMAIN mem
    BY LocationTypes DEF IInv, TypeOK
  <2>2. mem[IF s \in pending THEN source[s] ELSE s] = wanted[s]
    BY DEF IInv, SourcesSurvive
  <2>3. CASE s = r
    BY <1>1, <1>2, <2>2, <2>3
  <2>4. CASE s # r /\ s \in pending
    BY <1>1, <2>1, <2>2, <2>4 DEF Ready
  <2>5. CASE s # r /\ s \notin pending
    BY <1>1, <2>1, <2>2, <2>5
  <2> QED
    BY <2>3, <2>4, <2>5
<1>6. OthersUntouched'
  BY <1>1, <1>2, <1>3 DEF IInv, OthersUntouched, TypeOK
<1> QED
  BY <1>4, <1>5, <1>6 DEF IInv

\* The temporary is a location nobody has used, so saving into it and reading
\* it back changes no value.
LEMMA SaveIInv == IInv /\ Save => IInv'
<1> SUFFICES ASSUME IInv, Save PROVE IInv'
  OBVIOUS
<1> DEFINE temp == MaxRoot + temps + 1
<1>1. PICK victim \in pending :
         /\ mem' = [l \in DOMAIN mem \cup {temp} |->
                       IF l = temp THEN mem[victim] ELSE mem[l]]
         /\ source' = Redirected(victim, temp)
  BY DEF Save
<1>2. temps' = temps + 1 /\ wanted' = wanted /\ pending' = pending /\ Assigned' = Assigned
  BY DEF Save, Assigned
<1>3. temps \in Nat /\ DOMAIN mem = Locations \cup Temps
  BY DEF IInv, TypeOK, Temps
<1>4. temp \notin DOMAIN mem
  BY <1>3, LocationTypes DEF Temps
<1>5. Temps' = Temps \cup {temp}
  BY <1>2, <1>3, LocationTypes DEF Temps
<1>6. victim \in Assigned /\ victim \in Locations
  BY LocationTypes DEF IInv, TypeOK
<1>7. source' = [r \in Assigned |->
                   IF r \in pending /\ source[r] = victim THEN temp ELSE source[r]]
  BY <1>1 DEF Redirected
<1>8. \A l \in DOMAIN mem : mem'[l] = mem[l]
  BY <1>1, <1>4
<1>9. TypeOK'
  <2>1. mem' \in [Locations \cup Temps' -> Locations]
    BY <1>1, <1>3, <1>5, <1>6 DEF IInv, TypeOK
  <2>2. source' \in [Assigned -> Locations \cup Temps']
    BY <1>5, <1>7 DEF IInv, TypeOK, Temps
  <2>3. temps' \in Nat
    BY <1>2, <1>3
  <2> QED
    BY <1>2, <2>1, <2>2, <2>3 DEF IInv, TypeOK, Temps
<1>10. SourcesSurvive'
  <2> SUFFICES ASSUME NEW s \in Assigned
               PROVE  mem'[IF s \in pending THEN source'[s] ELSE s] = wanted[s]
    BY <1>2 DEF SourcesSurvive
  <2>1. s \in DOMAIN mem /\ source[s] \in DOMAIN mem
    BY LocationTypes DEF IInv, TypeOK
  <2>2. mem[IF s \in pending THEN source[s] ELSE s] = wanted[s]
    BY DEF IInv, SourcesSurvive
  <2>3. CASE s \in pending /\ source[s] = victim
    <3>1. mem'[temp] = mem[victim]
      BY <1>1
    <3> QED
      BY <1>7, <2>2, <2>3, <3>1
  <2>4. CASE ~(s \in pending /\ source[s] = victim)
    BY <1>7, <1>8, <2>1, <2>2, <2>4
  <2> QED
    BY <2>3, <2>4
<1>11. OthersUntouched'
  BY <1>2, <1>3, <1>8 DEF IInv, OthersUntouched
<1> QED
  BY <1>9, <1>10, <1>11 DEF IInv

\* Every step keeps the invariant.
LEMMA NextIInv == IInv /\ [Next]_vars => IInv'
<1>1. IInv /\ UNCHANGED vars => IInv'
  BY DEF vars, IInv, TypeOK, SourcesSurvive, OthersUntouched, Assigned
<1> QED
  BY <1>1, EmitIInv, SaveIInv DEF Next

\* So it holds throughout, for every number of phis (emitParallelCopy).
THEOREM Invariant == Spec => []IInv
BY InitIInv, NextIInv, PTL DEF Spec

\* Types, for every number of phis.
THEOREM TypeCorrect == Spec => []TypeOK
<1>1. IInv => TypeOK
  BY DEF IInv
<1> QED
  BY <1>1, Invariant, PTL

\* No copy destroys a value that a later copy of the same parallel copy reads,
\* and every root written holds what was asked for.
THEOREM SwapIsSolved == Spec => []SourcesSurvive
<1>1. IInv => SourcesSurvive
  BY DEF IInv
<1> QED
  BY <1>1, Invariant, PTL

-----------------------------------------------------------------------------
\* A finite set that its image under f covers is permuted by f.
LEMMA CoveringIsPermuting ==
    ASSUME NEW P, IsFiniteSet(P), NEW f, P \subseteq {f[x] : x \in P}
    PROVE  /\ {f[x] : x \in P} = P
           /\ \A x, y \in P : f[x] = f[y] => x = y
<1> DEFINE image == {f[x] : x \in P}
           g == [x \in P |-> f[x]]
<1>1. g \in Surjection(P, image)
  BY DEF Surjection
<1>2. IsFiniteSet(image) /\ Cardinality(image) <= Cardinality(P)
  BY <1>1, FS_Surjection
<1>3. Cardinality(P) <= Cardinality(image)
  BY <1>2, FS_Subset
<1>4. Cardinality(P) \in Nat /\ Cardinality(image) \in Nat
  BY <1>2, FS_CardinalityType
<1>5. Cardinality(P) = Cardinality(image)
  BY <1>2, <1>3, <1>4
<1>6. image = P
  BY <1>2, <1>5, FS_Subset
<1>7. g \in Injection(P, image)
  BY <1>1, <1>2, <1>5, FS_SurjSameCardinalityImpliesInj
<1>8. \A x, y \in P : f[x] = f[y] => x = y
  BY <1>7 DEF Injection, IsInjective
<1> QED
  BY <1>6, <1>8

\* "Every remaining assignment is part of a cycle."
THEOREM OnlyCyclesStall == Spec => []StallIsACycle
<1>1. TypeOK => StallIsACycle
  <2> SUFFICES ASSUME TypeOK, \A r \in pending : ~Ready(r)
               PROVE  /\ {source[r] : r \in pending} = pending
                      /\ \A r \in pending : source[r] # r
    BY DEF StallIsACycle
  <2>1. IsFiniteSet(Roots)
    BY FS_Interval, LocationTypes DEF Roots
  <2>2. IsFiniteSet(pending)
    BY <2>1, FS_Subset DEF TypeOK
  <2>3. \A r \in pending : \E other \in pending \ {r} : source[other] = r
    BY DEF Ready
  <2>4. pending \subseteq {source[r] : r \in pending}
    BY <2>3
  <2>5. /\ {source[r] : r \in pending} = pending
        /\ \A x, y \in pending : source[x] = source[y] => x = y
    BY <2>2, <2>4, CoveringIsPermuting
  <2>6. ASSUME NEW r \in pending PROVE source[r] # r
    <3>1. PICK other \in pending \ {r} : source[other] = r
      BY <2>3
    <3> QED
      BY <2>5, <3>1
  <2> QED
    BY <2>5, <2>6
<1> QED
  BY <1>1, TypeCorrect, PTL

-----------------------------------------------------------------------------
\* The sequence of copies implements the one simultaneous assignment the phis
\* stand for.
THEOREM Implementation == Spec => ImplementsSimultaneous
<1> DEFINE held == [l \in Locations |-> IF pending = {} THEN mem[l] ELSE l]
<1>1. Init => Simultaneous!Init
  BY DEF Init, Simultaneous!Init, Assigned
<1>2. IInv /\ IInv' /\ [Next]_vars =>
        [Simultaneous!Assign]_<<wanted, held, pending = {}>>
  <2> SUFFICES ASSUME IInv, IInv', [Next]_vars
               PROVE  \/ Simultaneous!Assign
                      \/ UNCHANGED <<wanted, held, pending = {}>>
    OBVIOUS
  <2>1. wanted' = wanted
    BY DEF Next, Emit, Save, vars
  <2>2. CASE pending = {}
    BY <2>2 DEF Next, Emit, Save, vars
  <2>3. CASE pending # {} /\ pending' # {}
    BY <2>1, <2>3
  <2>4. CASE pending # {} /\ pending' = {}
    <3>1. \A l \in Locations : mem'[l] = IF l \in DOMAIN wanted THEN wanted[l] ELSE l
      BY <2>1, <2>4, LocationTypes DEF IInv, SourcesSurvive, OthersUntouched, Assigned, TypeOK
    <3>2. \A r \in DOMAIN wanted : wanted[r] \in Locations
      BY DEF IInv, TypeOK, Assigned
    <3>3. held' = [l \in Locations |->
                      IF l \in DOMAIN wanted THEN held[wanted[l]] ELSE held[l]]
      BY <2>4, <3>1, <3>2
    <3> QED
      BY <2>1, <2>4, <3>3 DEF Simultaneous!Assign
  <2> QED
    BY <2>2, <2>3, <2>4
<1> QED
  BY <1>1, <1>2, Invariant, PTL DEF Spec, ImplementsSimultaneous, Simultaneous!Spec
=============================================================================
