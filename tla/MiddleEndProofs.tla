-------------------------- MODULE MiddleEndProofs --------------------------
(***************************************************************************)
(* The middle end, for every function a pass may hand over.                *)
(*                                                                         *)
(* Sparse conditional constant propagation never takes back what it said   *)
(* of a value, and when its worklists are empty nothing is left to say, in *)
(* whatever order blocks and users were taken from them.                   *)
(*                                                                         *)
(* The tree that the sweeps over the reverse postorder leave is dominance: *)
(* the search ends and puts a dominator before what it dominates, a sweep  *)
(* only moves a block up to where its predecessors meet, and as many       *)
(* sweeps as there are blocks leave nothing to move.                       *)
(***************************************************************************)
EXTENDS MiddleEnd, Induction

\* What the proofs need of a function, and every function between two passes has
Usable(f) ==
    /\ IsFunction(f)
    /\ \A i \in DOMAIN f.inst :
         /\ \A k \in DOMAIN f.inst[i].args :
              IsRef(f.inst[i].args[k]) => f.inst[i].args[k][2] \in DOMAIN f.inst
         /\ f.inst[i].op = "br" => 1 \in DOMAIN f.inst[i].to
         /\ f.inst[i].op = "condbr" =>
              1 \in DOMAIN f.inst[i].args /\ 1 \in DOMAIN f.inst[i].to /\ 2 \in DOMAIN f.inst[i].to

\* The fields of the solver
IsSolver(f, s) ==
    /\ s = [values |-> s.values, reachable |-> s.reachable, executable |-> s.executable,
            blocks |-> s.blocks, users |-> s.users, mode |-> s.mode, backward |-> s.backward]
    /\ s.values = [i \in DOMAIN f.inst |-> s.values[i]]
    /\ s.reachable \subseteq Blocks(f)
    /\ s.blocks \in Seq(Blocks(f)) /\ s.users \in Seq(DOMAIN f.inst)

\* What a look at instruction i of block b makes of it
Outcome(f, b, s, i) ==
    IF f.inst[i].op = "phi" THEN MeetOfPhi(s, b, f.inst[i]) ELSE Evaluated(s, f.inst[i])

\* What was said of an instruction is at least what would be said now: by the time it
\* is looked at again it can only have got worse
Sound(f, s) ==
    \A b \in Blocks(f) : \A i \in ToSet(f.code[b]) :
      Descends(s.values[i], Outcome(f, b, s, i))

\* Another look changes nothing
Settled(f, b, s, i) ==
    LET ins == f.inst[i]
        condition == LatticeOf(s, ins.args[1])
        next == Outcome(f, b, s, i)
    IN /\ ins.op = "phi" => s.values[i] \in {next, Overdefined}
       /\ ins.op = "br" => <<b, ins.to[1]>> \in s.executable
       /\ ins.op = "condbr" =>
            /\ IsBool(condition) =>
                 <<b, ins.to[IF condition = I1(TRUE) THEN 1 ELSE 2]>> \in s.executable
            /\ condition = Overdefined =>
                 <<b, ins.to[1]>> \in s.executable /\ <<b, ins.to[2]>> \in s.executable
       /\ ins.op \notin {"phi", "br", "condbr"} /\ HasResult(ins) /\ next # Unknown =>
            s.values[i] \in {next, Overdefined}

\* There will be another look
Queued(s, b, i) == i \in ToSet(s.users) \/ b \in ToSet(s.blocks)

\* What the solver may do between two moments: values descend, and everything that
\* reads them is queued; edges and blocks are added, and the blocks are queued
Grows(f, s, t) ==
    /\ IsSolver(f, t) /\ t.mode = s.mode /\ t.backward = s.backward
    /\ \A i \in DOMAIN f.inst :
         /\ Descends(s.values[i], t.values[i])
         /\ s.values[i] # t.values[i] => Users(f, Ref(i)) \subseteq ToSet(t.users)
    /\ s.executable \subseteq t.executable
    /\ \A b, c : <<b, c>> \in t.executable \ s.executable => c \in ToSet(t.blocks)
    /\ s.reachable \subseteq t.reachable
    /\ t.reachable \ s.reachable \subseteq ToSet(t.blocks)
    /\ ToSet(s.users) \subseteq ToSet(t.users)
    /\ ToSet(s.blocks) \subseteq ToSet(t.blocks)

-----------------------------------------------------------------------------
(* The order of the lattice *)

\* Descending is transitive.
LEMMA DescendsTransitive ==
    ASSUME NEW u, NEW v, NEW w, Descends(u, v), Descends(v, w)
    PROVE  Descends(u, w)
BY DEF Descends, Unknown, Overdefined

\* What may happen between two moments, and two others, may happen in all.
LEMMA GrowsTransitive ==
    ASSUME NEW f, NEW s, NEW t, NEW u, Grows(f, s, t), Grows(f, t, u)
    PROVE  Grows(f, s, u)
<1>1. ASSUME NEW i \in DOMAIN f.inst
      PROVE  /\ Descends(s.values[i], u.values[i])
             /\ s.values[i] # u.values[i] => Users(f, Ref(i)) \subseteq ToSet(u.users)
  <2>1. Descends(s.values[i], t.values[i]) /\ Descends(t.values[i], u.values[i])
    BY DEF Grows
  <2>2. Descends(s.values[i], u.values[i])
    BY <2>1, DescendsTransitive
  <2>3. s.values[i] # u.values[i] => Users(f, Ref(i)) \subseteq ToSet(u.users)
    BY DEF Grows
  <2> QED
    BY <2>2, <2>3
<1> QED
  BY <1>1 DEF Grows

\* An operand descends, and when it moves the instruction is a user of what moved.
LEMMA OperandsDescend ==
    ASSUME NEW f, Usable(f), NEW s, NEW t, Grows(f, s, t),
           NEW i \in DOMAIN f.inst, NEW k \in DOMAIN f.inst[i].args,
           NEW v, v = f.inst[i].args[k]
    PROVE  /\ Descends(LatticeOf(s, v), LatticeOf(t, v))
           /\ LatticeOf(s, v) # LatticeOf(t, v) => i \in ToSet(t.users)
<1>1. f.inst[i].args \in Seq(ToSet(f.inst[i].args)) /\ v \in ToSet(f.inst[i].args)
  BY DEF Usable, IsFunction, ToSet
<1>2. v = <<v[1], v[2]>>
  BY <1>1 DEF Usable, IsFunction
<1>3. CASE IsRef(v)
  <2>1. v = Ref(v[2]) /\ v[2] \in DOMAIN f.inst
    BY <1>2, <1>3 DEF IsRef, Ref, Usable
  <2>2. LatticeOf(s, v) = s.values[v[2]] /\ LatticeOf(t, v) = t.values[v[2]]
    BY <1>3 DEF LatticeOf, IsRef
  <2>3. i \in Users(f, Ref(v[2]))
    BY <1>1, <2>1 DEF Users, Contains
  <2> QED
    BY <2>1, <2>2, <2>3 DEF Grows
<1>4. CASE ~IsRef(v)
  <2>1. LatticeOf(s, v) = LatticeOf(t, v)
    BY <1>4 DEF LatticeOf, IsRef
  <2> QED
    BY <2>1 DEF Descends
<1> QED
  BY <1>3, <1>4

\* What comes in over the edges that may execute
Arriving(s, b, phi) ==
    {LatticeOf(s, phi.args[k]) : k \in {k \in DOMAIN phi.args : <<phi.to[k], b>> \in s.executable}}
      \ {Unknown}

\* MeetOfPhi by cases.
LEMMA MeetOfPhiIs ==
    ASSUME NEW s, NEW b, NEW phi, NEW A, A = Arriving(s, b, phi)
    PROVE  MeetOfPhi(s, b, phi) =
             IF A = {} THEN Unknown
             ELSE IF Overdefined \in A \/ Cardinality(A) > 1 THEN Overdefined
             ELSE CHOOSE c \in A : TRUE
<1>1. MeetOfPhi(s, b, phi) =
        CASE A = {} -> Unknown
          [] Overdefined \in A \/ Cardinality(A) > 1 -> Overdefined
          [] OTHER -> CHOOSE c \in A : TRUE
  BY DEF MeetOfPhi, Arriving
<1>2. CASE A = {}
  <2>1. ~(Cardinality(A) > 1)
    BY <1>2, FS_EmptySet
  <2> QED
    BY <1>1, <1>2, <2>1
<1>3. CASE A # {} /\ (Overdefined \in A \/ Cardinality(A) > 1)
  BY <1>1, <1>3
<1>4. CASE A # {} /\ ~(Overdefined \in A \/ Cardinality(A) > 1)
  BY <1>1, <1>4
<1> QED
  BY <1>2, <1>3, <1>4

\* The meet of nothing is unknown, of one constant that constant, and of anything else
\* overdefined.
LEMMA MeetOfArriving ==
    ASSUME NEW s, NEW b, NEW phi, NEW S, phi.args \in Seq(S), NEW A, A = Arriving(s, b, phi)
    PROVE  /\ A = {} => MeetOfPhi(s, b, phi) = Unknown
           /\ \A c : A = {c} => MeetOfPhi(s, b, phi) = c
           /\ Overdefined \in A => MeetOfPhi(s, b, phi) = Overdefined
           /\ \A x, y \in A : x # y => MeetOfPhi(s, b, phi) = Overdefined
<1> DEFINE live == {k \in DOMAIN phi.args : <<phi.to[k], b>> \in s.executable}
           all == {LatticeOf(s, phi.args[k]) : k \in live}
<1>1. IsFiniteSet(live)
  <2>1. DOMAIN phi.args = 1 .. Len(phi.args) /\ Len(phi.args) \in Nat
    OBVIOUS
  <2>2. IsFiniteSet(1 .. Len(phi.args)) /\ live \subseteq 1 .. Len(phi.args)
    BY <2>1, FS_Interval
  <2> HIDE DEF live
  <2> QED
    BY <2>2, FS_Subset
<1>2. IsFiniteSet(all)
  <2> DEFINE value == [k \in live |-> LatticeOf(s, phi.args[k])]
  <2> HIDE DEF live
  <2>1. value \in Surjection(live, all)
    BY DEF Surjection
  <2> HIDE DEF value, all
  <2> QED
    BY <1>1, <2>1, FS_Surjection
<1>3. A \subseteq all
  BY DEF Arriving
<1>4. IsFiniteSet(A)
  <2> HIDE DEF all
  <2> QED
    BY <1>2, <1>3, FS_Subset
<1>14. MeetOfPhi(s, b, phi) =
         IF A = {} THEN Unknown
         ELSE IF Overdefined \in A \/ Cardinality(A) > 1 THEN Overdefined
         ELSE CHOOSE c \in A : TRUE
  BY MeetOfPhiIs
<1> HIDE DEF live, all
<1>6. ASSUME NEW c, A = {c} PROVE ~(Cardinality(A) > 1)
  <2>1. Cardinality({c}) = 1
    BY FS_Singleton
  <2> QED
    BY <1>6, <2>1
<1>7. ASSUME NEW x \in A, NEW y \in A, x # y PROVE Cardinality(A) > 1
  <2>1. Cardinality({x, y}) = 2
    <3>1. IsFiniteSet({x}) /\ Cardinality({x}) = 1
      BY FS_Singleton
    <3>2. {x, y} = {x} \cup {y} /\ y \notin {x}
      BY <1>7
    <3>3. Cardinality({x} \cup {y}) = 1 + 1
      BY <3>1, <3>2, FS_AddElement
    <3> QED
      BY <3>2, <3>3
  <2>2. {x, y} \subseteq A
    OBVIOUS
  <2>3. Cardinality({x, y}) <= Cardinality(A) /\ Cardinality(A) \in Nat
    BY <1>4, <2>2, FS_Subset, FS_CardinalityType
  <2> QED
    BY <2>1, <2>3
<1>8. ASSUME NEW c, A = {c} PROVE MeetOfPhi(s, b, phi) = c
  <2>1. ~(Cardinality(A) > 1) /\ A # {}
    BY <1>6, <1>8
  <2>2. CASE c = Overdefined
    BY <1>14, <1>8, <2>1, <2>2
  <2>3. CASE c # Overdefined
    <3>1. MeetOfPhi(s, b, phi) = CHOOSE d \in A : TRUE
      BY <1>14, <1>8, <2>1, <2>3
    <3>2. (CHOOSE d \in A : TRUE) \in A
      BY <2>1
    <3> QED
      BY <1>8, <3>1, <3>2
  <2> QED
    BY <2>2, <2>3
<1>9. \A x, y \in A : x # y => MeetOfPhi(s, b, phi) = Overdefined
  BY <1>14, <1>7
<1>10. A = {} => MeetOfPhi(s, b, phi) = Unknown
  BY <1>14
<1>11. Overdefined \in A => MeetOfPhi(s, b, phi) = Overdefined
  <2> SUFFICES ASSUME Overdefined \in A PROVE MeetOfPhi(s, b, phi) = Overdefined
    OBVIOUS
  <2>1. A # {}
    OBVIOUS
  <2> QED
    BY <1>14, <2>1
<1>12. \A c : A = {c} => MeetOfPhi(s, b, phi) = c
  BY <1>8
<1>13. \A x, y \in A : x # y => MeetOfPhi(s, b, phi) = Overdefined
  BY <1>9
<1> QED
  BY <1>10, <1>11, <1>12, <1>13

\* A phi descends with what arrives.
LEMMA PhiDescends ==
    ASSUME NEW f, Usable(f), NEW s, NEW t, Grows(f, s, t), NEW b,
           NEW i \in DOMAIN f.inst, NEW phi, phi = f.inst[i]
    PROVE  Descends(MeetOfPhi(s, b, phi), MeetOfPhi(t, b, phi))
<1> DEFINE A == Arriving(s, b, phi)
           B == Arriving(t, b, phi)
<1>1. phi.args \in Seq(ToSet(phi.args))
  BY DEF Usable, IsFunction
<1>2. ASSUME NEW x \in A PROVE x \in B \/ Overdefined \in B
  <2>1. PICK k \in DOMAIN phi.args :
          x = LatticeOf(s, phi.args[k]) /\ x # Unknown /\ <<phi.to[k], b>> \in s.executable
    BY DEF Arriving
  <2>2. Descends(x, LatticeOf(t, phi.args[k])) /\ <<phi.to[k], b>> \in t.executable
    BY <2>1, OperandsDescend DEF Grows
  <2>3. LatticeOf(t, phi.args[k]) \in {x, Overdefined}
    BY <2>1, <2>2 DEF Descends
  <2>4. LatticeOf(t, phi.args[k]) # Unknown
    BY <2>1, <2>3 DEF Unknown, Overdefined
  <2>5. LatticeOf(t, phi.args[k]) \in B
    BY <2>2, <2>4 DEF Arriving
  <2> QED
    BY <2>3, <2>5
<1> HIDE DEF A, B
<1>3. /\ A = {} => MeetOfPhi(s, b, phi) = Unknown
      /\ \A c : A = {c} => MeetOfPhi(s, b, phi) = c
  BY <1>1, MeetOfArriving DEF A
<1>4. /\ \A c : B = {c} => MeetOfPhi(t, b, phi) = c
      /\ Overdefined \in B => MeetOfPhi(t, b, phi) = Overdefined
      /\ \A x, y \in B : x # y => MeetOfPhi(t, b, phi) = Overdefined
  BY <1>1, MeetOfArriving DEF B
<1>5. CASE A = {}
  BY <1>3, <1>5 DEF Descends
<1>6. CASE Overdefined \in B
  BY <1>4, <1>6 DEF Descends
<1>7. ASSUME NEW x \in A, NEW y \in A, x # y PROVE MeetOfPhi(t, b, phi) = Overdefined
  BY <1>2, <1>4, <1>7
<1>8. ASSUME NEW c, A = {c}, Overdefined \notin B
      PROVE  Descends(MeetOfPhi(s, b, phi), MeetOfPhi(t, b, phi))
  <2>1. c \in B /\ MeetOfPhi(s, b, phi) = c
    BY <1>2, <1>3, <1>8
  <2>2. CASE B = {c}
    BY <1>4, <2>1, <2>2 DEF Descends
  <2>3. CASE B # {c}
    BY <1>4, <2>1, <2>3 DEF Descends
  <2> QED
    BY <2>2, <2>3
<1>9. CASE A # {} /\ Overdefined \notin B
  <2>1. PICK c \in A : TRUE
    BY <1>9
  <2>2. CASE A = {c}
    BY <1>8, <1>9, <2>2
  <2>3. CASE A # {c}
    <3>1. \E y \in A : y # c
      BY <2>1, <2>3
    <3> QED
      BY <1>7, <3>1 DEF Descends
  <2> QED
    BY <2>2, <2>3
<1> QED
  BY <1>5, <1>6, <1>9

\* What the operands of an instruction are known to be
Operands(s, ins) == [k \in DOMAIN ins.args |-> LatticeOf(s, ins.args[k])]
FoldsTo(s, ins) ==
    IF \A k \in DOMAIN ins.args : IsConstant(LatticeOf(s, ins.args[k]))
      THEN FoldedConstant(ins.op, ins.attr, Operands(s, ins)) ELSE {}

\* An instruction is what it folds to, unknown as long as an operand is, or overdefined.
LEMMA EvaluatedIs ==
    ASSUME NEW s, NEW ins, NEW S, ins.args \in Seq(S)
    PROVE  Evaluated(s, ins) =
             IF ins.op \notin Foldable THEN Overdefined
             ELSE IF FoldsTo(s, ins) # {} THEN CHOOSE c \in FoldsTo(s, ins) : TRUE
             ELSE IF \E k \in DOMAIN ins.args : LatticeOf(s, ins.args[k]) = Unknown
               THEN Unknown ELSE Overdefined
<1> DEFINE operands == Operands(s, ins)
           folded == FoldsTo(s, ins)
<1>1. Evaluated(s, ins) =
        CASE ins.op \notin Foldable -> Overdefined
          [] ins.op \in Foldable /\ folded # {} -> CHOOSE c \in folded : TRUE
          [] ins.op \in Foldable /\ folded = {} ->
               IF Contains(operands, Unknown) THEN Unknown ELSE Overdefined
  BY DEF Evaluated, FoldsTo, Operands
<1>2. Contains(operands, Unknown) <=> \E k \in DOMAIN ins.args : LatticeOf(s, ins.args[k]) = Unknown
  <2>1. DOMAIN ins.args = 1 .. Len(ins.args) /\ Len(ins.args) \in Nat
    OBVIOUS
  <2>2. DOMAIN operands = 1 .. Len(ins.args)
    BY <2>1 DEF Operands
  <2>3. Len(operands) = Len(ins.args)
    BY <2>1, <2>2
  <2> QED
    BY <2>1, <2>3 DEF Contains, Operands
<1> HIDE DEF operands, folded
<1>3. CASE ins.op \notin Foldable
  BY <1>1, <1>3
<1>4. CASE ins.op \in Foldable /\ folded # {}
  BY <1>1, <1>4 DEF folded
<1>5. CASE ins.op \in Foldable /\ folded = {}
  BY <1>1, <1>2, <1>5 DEF folded
<1> QED
  BY <1>3, <1>4, <1>5

\* An instruction descends with its operands.
LEMMA EvaluatedDescends ==
    ASSUME NEW f, Usable(f), NEW s, NEW t, Grows(f, s, t),
           NEW i \in DOMAIN f.inst, NEW ins, ins = f.inst[i]
    PROVE  Descends(Evaluated(s, ins), Evaluated(t, ins))
<1>1. ins.args \in Seq(ToSet(ins.args))
  BY DEF Usable, IsFunction
<1> DEFINE x(k) == LatticeOf(s, ins.args[k])
           y(k) == LatticeOf(t, ins.args[k])
<1>2. \A k \in DOMAIN ins.args : Descends(x(k), y(k))
  BY OperandsDescend
<1>3. CASE \A k \in DOMAIN ins.args : x(k) = y(k)
  <2>1. Operands(s, ins) = Operands(t, ins)
    BY <1>3 DEF Operands
  <2>2. FoldsTo(s, ins) = FoldsTo(t, ins)
    BY <1>3, <2>1 DEF FoldsTo
  <2>3. (\E k \in DOMAIN ins.args : x(k) = Unknown) <=> (\E k \in DOMAIN ins.args : y(k) = Unknown)
    BY <1>3
  <2> HIDE DEF x, y
  <2>4. Evaluated(s, ins) = Evaluated(t, ins)
    BY <1>1, <2>2, <2>3, EvaluatedIs DEF x, y
  <2> QED
    BY <2>4 DEF Descends
<1>4. CASE \E k \in DOMAIN ins.args : x(k) = Unknown
  <2>1. FoldsTo(s, ins) = {}
    BY <1>4 DEF FoldsTo, IsConstant, Unknown
  <2>2. Evaluated(s, ins) \in {Unknown, Overdefined} /\ (ins.op \in Foldable => Evaluated(s, ins) = Unknown)
    BY <1>1, <1>4, <2>1, EvaluatedIs
  <2>3. ins.op \notin Foldable => Evaluated(s, ins) = Overdefined /\ Evaluated(t, ins) = Overdefined
    BY <1>1, EvaluatedIs
  <2> QED
    BY <2>2, <2>3 DEF Descends
<1>5. ASSUME NEW k \in DOMAIN ins.args, x(k) # y(k), \A j \in DOMAIN ins.args : x(j) # Unknown
      PROVE  Evaluated(t, ins) = Overdefined
  <2>1. \A j \in DOMAIN ins.args : y(j) \in {x(j), Overdefined}
    BY <1>2, <1>5 DEF Descends
  <2>2. y(k) = Overdefined
    BY <1>5, <2>1
  <2>3. FoldsTo(t, ins) = {}
    BY <2>2 DEF FoldsTo, IsConstant, Overdefined
  <2>4. ~ \E j \in DOMAIN ins.args : y(j) = Unknown
    BY <1>5, <2>1 DEF Unknown, Overdefined
  <2> HIDE DEF x, y
  <2> QED
    BY <1>1, <2>3, <2>4, EvaluatedIs DEF y
<1> QED
  BY <1>3, <1>4, <1>5 DEF Descends

-----------------------------------------------------------------------------
(* What a look at an instruction does *)

\* The alternatives of visit(): what became of s when instruction i was looked at
Looked(f, b, s, i, ins, condition, t) ==
    /\ ins.op = "phi" => t = Update(f, s, i, MeetOfPhi(s, b, ins))
    /\ ins.op = "br" => t = MarkEdge(s, b, ins.to[1])
    /\ ins.op = "condbr" /\ IsBool(condition) =>
         t = MarkEdge(s, b, ins.to[IF condition = I1(TRUE) THEN 1 ELSE 2])
    /\ ins.op = "condbr" /\ condition = Overdefined =>
         t = MarkEdge(MarkEdge(s, b, ins.to[1]), b, ins.to[2])
    /\ ins.op = "condbr" /\ ~IsBool(condition) /\ condition # Overdefined => t = s
    /\ ins.op \notin {"phi", "br", "condbr"} =>
         t = IF HasResult(ins) /\ Evaluated(s, ins) # Unknown
               THEN Update(f, s, i, Evaluated(s, ins)) ELSE s

\* VisitInst is one of them.
LEMMA VisitInstIs ==
    ASSUME NEW f, NEW b, NEW s, NEW i
    PROVE  Looked(f, b, s, i, f.inst[i], LatticeOf(s, f.inst[i].args[1]), VisitInst(f, b, s, i))
<1> DEFINE ins == f.inst[i]
           condition == LatticeOf(s, ins.args[1])
<1>1. "phi" # "br" /\ "phi" # "condbr" /\ "br" # "condbr"
  OBVIOUS
<1>2. ~IsBool(Overdefined)
  BY DEF IsBool, Overdefined
<1>3. CASE ins.op = "phi"
  BY <1>1, <1>3, Zenon DEF VisitInst, Looked
<1>4. CASE ins.op = "br"
  BY <1>1, <1>4, Zenon DEF VisitInst, Looked
<1>5. CASE ins.op = "condbr"
  <2>1. VisitInst(f, b, s, i) =
          CASE IsBool(condition) -> MarkEdge(s, b, ins.to[IF condition = I1(TRUE) THEN 1 ELSE 2])
            [] condition = Overdefined -> MarkEdge(MarkEdge(s, b, ins.to[1]), b, ins.to[2])
            [] OTHER -> s
    BY <1>1, <1>5, Zenon DEF VisitInst
  <2>2. CASE IsBool(condition)
    BY <1>1, <1>2, <1>5, <2>1, <2>2, Zenon DEF Looked
  <2>3. CASE condition = Overdefined
    BY <1>1, <1>2, <1>5, <2>1, <2>3, Zenon DEF Looked
  <2>4. CASE ~IsBool(condition) /\ condition # Overdefined
    BY <1>1, <1>5, <2>1, <2>4, Zenon DEF Looked
  <2> QED
    BY <1>1, <1>5, <2>2, <2>3, <2>4, Zenon DEF Looked
<1>6. CASE ins.op \notin {"phi", "br", "condbr"}
  <2>1. ins.op # "phi" /\ ins.op # "br" /\ ins.op # "condbr"
    BY <1>6
  <2>2. VisitInst(f, b, s, i) =
          IF HasResult(ins) /\ Evaluated(s, ins) # Unknown
            THEN Update(f, s, i, Evaluated(s, ins)) ELSE s
    BY <2>1, Zenon DEF VisitInst
  <2> QED
    BY <2>1, <2>2, Zenon DEF Looked
<1> QED
  BY <1>3, <1>4, <1>5, <1>6, Zenon DEF Looked

\* A look at a settled instruction changes nothing.
LEMMA SettledStands ==
    ASSUME NEW f, NEW b, NEW s, NEW i, Settled(f, b, s, i)
    PROVE  VisitInst(f, b, s, i) = s
<1> DEFINE ins == f.inst[i]
           condition == LatticeOf(s, ins.args[1])
           Is == VisitInst(f, b, s, i)
<1>1. Looked(f, b, s, i, ins, condition, Is)
  BY VisitInstIs
<1>8. /\ ins.op = "phi" => s.values[i] \in {MeetOfPhi(s, b, ins), Overdefined}
      /\ ins.op = "br" => <<b, ins.to[1]>> \in s.executable
      /\ ins.op = "condbr" =>
           /\ IsBool(condition) =>
                <<b, ins.to[IF condition = I1(TRUE) THEN 1 ELSE 2]>> \in s.executable
           /\ condition = Overdefined =>
                <<b, ins.to[1]>> \in s.executable /\ <<b, ins.to[2]>> \in s.executable
      /\ ins.op \notin {"phi", "br", "condbr"} /\ HasResult(ins) /\ Evaluated(s, ins) # Unknown =>
           s.values[i] \in {Evaluated(s, ins), Overdefined}
  BY DEF Settled, Outcome
<1> HIDE DEF ins, condition, Is
<1>2. ASSUME NEW next, s.values[i] \in {next, Overdefined} PROVE Update(f, s, i, next) = s
  BY <1>2 DEF Update
<1>3. ASSUME NEW to, <<b, to>> \in s.executable PROVE MarkEdge(s, b, to) = s
  BY <1>3 DEF MarkEdge
<1>4. CASE ins.op = "phi"
  BY <1>1, <1>2, <1>4, <1>8 DEF Is, Looked
<1>5. CASE ins.op = "br"
  BY <1>1, <1>3, <1>5, <1>8 DEF Is, Looked
<1>6. CASE ins.op = "condbr"
  <2>1. CASE IsBool(condition)
    BY <1>1, <1>3, <1>6, <1>8, <2>1 DEF Is, Looked
  <2>2. CASE condition = Overdefined
    BY <1>1, <1>3, <1>6, <1>8, <2>2 DEF Is, Looked
  <2>3. CASE ~IsBool(condition) /\ condition # Overdefined
    BY <1>1, <1>6, <2>3 DEF Is, Looked
  <2> QED
    BY <2>1, <2>2, <2>3
<1>7. CASE ins.op \notin {"phi", "br", "condbr"}
  BY <1>1, <1>2, <1>7, <1>8 DEF Is, Looked
<1> QED
  BY <1>4, <1>5, <1>6, <1>7

\* The elements of two lists, one after the other.
LEMMA ElementsOfConcat ==
    ASSUME NEW S, NEW p \in Seq(S), NEW q \in Seq(S)
    PROVE  p \o q \in Seq(S) /\ ToSet(p \o q) = ToSet(p) \cup ToSet(q)
<1>1. p \o q \in Seq(S) /\ Len(p \o q) = Len(p) + Len(q)
  OBVIOUS
<1>2. /\ Len(p) \in Nat /\ DOMAIN p = 1 .. Len(p)
      /\ Len(q) \in Nat /\ DOMAIN q = 1 .. Len(q)
      /\ DOMAIN (p \o q) = 1 .. (Len(p) + Len(q))
  BY <1>1
<1>3. ASSUME NEW k \in DOMAIN p PROVE k \in DOMAIN (p \o q) /\ (p \o q)[k] = p[k]
  BY <1>2
<1>4. ASSUME NEW k \in DOMAIN q
      PROVE  Len(p) + k \in DOMAIN (p \o q) /\ (p \o q)[Len(p) + k] = q[k]
  BY <1>2
<1>5. ASSUME NEW k \in DOMAIN (p \o q) PROVE (p \o q)[k] \in ToSet(p) \cup ToSet(q)
  <2>1. CASE k <= Len(p)
    <3>1. k \in DOMAIN p
      BY <1>2, <2>1
    <3> QED
      BY <1>3, <3>1 DEF ToSet
  <2>2. CASE k > Len(p)
    <3>1. k - Len(p) \in DOMAIN q /\ Len(p) + (k - Len(p)) = k
      BY <1>2, <2>2
    <3>2. (p \o q)[k] = q[k - Len(p)]
      BY <1>4, <3>1
    <3> QED
      BY <3>1, <3>2 DEF ToSet
  <2> QED
    BY <1>2, <2>1, <2>2
<1>6. ToSet(p \o q) \subseteq ToSet(p) \cup ToSet(q)
  BY <1>5 DEF ToSet
<1>7. ToSet(p) \subseteq ToSet(p \o q)
  BY <1>3 DEF ToSet
<1>8. ToSet(q) \subseteq ToSet(p \o q)
  BY <1>4 DEF ToSet
<1> QED
  BY <1>1, <1>6, <1>7, <1>8

\* A list with one more element at its end.
LEMMA ElementsOfAppend ==
    ASSUME NEW S, NEW p \in Seq(S), NEW x \in S
    PROVE  Append(p, x) \in Seq(S) /\ ToSet(Append(p, x)) = ToSet(p) \cup {x}
<1>1. <<x>> \in Seq(S) /\ ToSet(<<x>>) = {x} /\ Append(p, x) = p \o <<x>>
  BY DEF ToSet
<1>2. p \o <<x>> \in Seq(S) /\ ToSet(p \o <<x>>) = ToSet(p) \cup ToSet(<<x>>)
  BY <1>1, ElementsOfConcat, ZenonT(40)
<1> QED
  BY <1>1, <1>2

\* A list without its last element.
LEMMA ElementsOfFront ==
    ASSUME NEW S, NEW p \in Seq(S), p # <<>>
    PROVE  Front(p) \in Seq(S) /\ Last(p) \in S /\ ToSet(p) = ToSet(Front(p)) \cup {Last(p)}
<1>1. Len(p) \in Nat \ {0} /\ DOMAIN p = 1 .. Len(p)
  OBVIOUS
<1>2. Front(p) \in Seq(S) /\ Len(Front(p)) = Len(p) - 1
  BY <1>1 DEF Front
<1>3. DOMAIN Front(p) = 1 .. (Len(p) - 1) /\ \A k \in 1 .. (Len(p) - 1) : Front(p)[k] = p[k]
  BY <1>1, <1>2 DEF Front
<1>4. DOMAIN p = DOMAIN Front(p) \cup {Len(p)}
  BY <1>1, <1>3
<1> QED
  BY <1>1, <1>2, <1>3, <1>4 DEF ToSet, Last

\* A list of a finite set has exactly its elements.
LEMMA ListOfSet ==
    ASSUME NEW U, IsFiniteSet(U), NEW q, q = SetToSeq(U)
    PROVE  q \in Seq(U) /\ ToSet(q) = U
<1> DEFINE n == Cardinality(U)
           R == {q[k] : k \in 1 .. n}
<1>1. n \in Nat /\ \E g \in [1 .. n -> U] : IsInjective(g)
  BY FS_CardinalityType DEF ExistsBijection, Bijection, Injection
<1>2. q \in [1 .. n -> U] /\ IsInjective(q)
  BY <1>1 DEF SetToSeq
<1> HIDE DEF n
<1>3. IsFiniteSet(1 .. n) /\ Cardinality(1 .. n) = n
  BY <1>1, FS_Interval
<1>4. q \in Bijection(1 .. n, R)
  BY <1>2 DEF Bijection, Injection, Surjection
<1> HIDE DEF R
<1>5. Cardinality(R) = n
  BY <1>3, <1>4, FS_Bijection DEF ExistsBijection
<1>6. R \subseteq U
  BY <1>2 DEF R
<1>7. R = U
  BY <1>5, <1>6, FS_Subset DEF n
<1>8. q \in Seq(U)
  BY <1>1, <1>2
<1>9. ToSet(q) = R
  BY <1>2 DEF ToSet, R
<1> QED
  BY <1>7, <1>8, <1>9

\* The list of the users of an instruction has all of them, in either order.
LEMMA UsersAreListed ==
    ASSUME NEW f, Usable(f), NEW i, NEW backward
    PROVE  /\ UserList(f, i, backward) \in Seq(DOMAIN f.inst)
           /\ ToSet(UserList(f, i, backward)) = Users(f, Ref(i))
<1> DEFINE U == Users(f, Ref(i))
           q == SetToSeq(U)
<1>1. U \subseteq DOMAIN f.inst /\ IsFiniteSet(DOMAIN f.inst)
  BY DEF Users, Usable, IsFunction
<1>2. IsFiniteSet(U)
  <2> HIDE DEF U
  <2> QED
    BY <1>1, FS_Subset
<1>3. q \in Seq(U) /\ ToSet(q) = U
  <2> HIDE DEF U
  <2> QED
    BY <1>2, ListOfSet
<1>4. UserList(f, i, backward) = IF backward THEN Reverse(q) ELSE q
  BY DEF UserList
<1> HIDE DEF U, q
<1>5. Reverse(q) \in Seq(U) /\ ToSet(Reverse(q)) = U
  <2>1. Len(q) \in Nat /\ DOMAIN q = 1 .. Len(q)
    BY <1>3
  <2>2. Reverse(q) = [k \in 1 .. Len(q) |-> q[(Len(q) - k) + 1]]
    BY DEF Reverse
  <2>3. \A k \in 1 .. Len(q) : (Len(q) - k) + 1 \in 1 .. Len(q)
    BY <2>1
  <2>4. Reverse(q) \in Seq(U)
    BY <1>3, <2>1, <2>2, <2>3
  <2>5. \A k \in 1 .. Len(q) : q[k] = Reverse(q)[(Len(q) - k) + 1]
    <3>1. \A k \in 1 .. Len(q) : (Len(q) - ((Len(q) - k) + 1)) + 1 = k
      BY <2>1
    <3> QED
      BY <2>1, <2>2, <2>3, <3>1
  <2>6. DOMAIN Reverse(q) = 1 .. Len(q) /\ \A k \in 1 .. Len(q) : Reverse(q)[k] = q[(Len(q) - k) + 1]
    BY <2>2
  <2>7. ToSet(Reverse(q)) = ToSet(q)
    <3> HIDE DEF U
    <3>1. \A k \in 1 .. Len(q) : \E m \in 1 .. Len(q) : q[k] = Reverse(q)[m]
      BY <2>3, <2>5
    <3>2. \A k \in 1 .. Len(q) : \E m \in 1 .. Len(q) : Reverse(q)[k] = q[m]
      BY <2>3, <2>6
    <3>3. ToSet(q) \subseteq ToSet(Reverse(q))
      BY <2>1, <2>6, <3>1 DEF ToSet
    <3>4. ToSet(Reverse(q)) \subseteq ToSet(q)
      BY <2>1, <2>6, <3>2 DEF ToSet
    <3> QED
      BY <3>3, <3>4
  <2> QED
    BY <1>3, <2>4, <2>7
<1>6. Seq(U) \subseteq Seq(DOMAIN f.inst)
  BY <1>1 DEF U
<1> QED
  BY <1>3, <1>4, <1>5, <1>6 DEF U

\* Moving a value down.
LEMMA UpdateGrows ==
    ASSUME NEW f, Usable(f), NEW s, IsSolver(f, s), NEW i \in DOMAIN f.inst,
           NEW next, Descends(s.values[i], next), NEW t, t = Update(f, s, i, next)
    PROVE  /\ Grows(f, s, t)
           /\ t.values[i] = next
           /\ \A j \in DOMAIN f.inst \ {i} : t.values[j] = s.values[j]
           /\ t.executable = s.executable
<1>1. CASE s.values[i] \in {next, Overdefined}
  <2>1. t = s
    BY <1>1 DEF Update
  <2>2. s.values[i] = next
    BY <1>1 DEF Descends, Unknown, Overdefined
  <2> QED
    BY <2>1, <2>2 DEF Grows, Descends
<1>2. CASE s.values[i] \notin {next, Overdefined}
  <2> DEFINE list == UserList(f, i, s.backward)
             values == [s.values EXCEPT ![i] = next]
  <2>1. t = [s EXCEPT !.values = values, !.users = s.users \o list]
    BY <1>2 DEF Update
  <2>2. /\ list \in Seq(DOMAIN f.inst) /\ ToSet(list) = Users(f, Ref(i))
    BY UsersAreListed
  <2> HIDE DEF list, values
  <2>3. t = [values |-> values, reachable |-> s.reachable, executable |-> s.executable,
             blocks |-> s.blocks, users |-> s.users \o list, mode |-> s.mode, backward |-> s.backward]
    BY <2>1 DEF IsSolver
  <2>4. /\ s.users \o list \in Seq(DOMAIN f.inst)
        /\ ToSet(s.users) \subseteq ToSet(s.users \o list)
        /\ ToSet(list) \subseteq ToSet(s.users \o list)
    BY <2>2, ElementsOfConcat DEF IsSolver
  <2>5. /\ values = [j \in DOMAIN f.inst |-> values[j]]
        /\ values[i] = next
        /\ \A j \in DOMAIN f.inst \ {i} : values[j] = s.values[j]
    BY DEF values, IsSolver
  <2>6. IsSolver(f, t)
    BY <2>3, <2>4, <2>5 DEF IsSolver
  <2>7. \A j \in DOMAIN f.inst :
          /\ Descends(s.values[j], t.values[j])
          /\ s.values[j] # t.values[j] => Users(f, Ref(j)) \subseteq ToSet(t.users)
    <3> SUFFICES ASSUME NEW j \in DOMAIN f.inst
                 PROVE  /\ Descends(s.values[j], t.values[j])
                        /\ s.values[j] # t.values[j] => Users(f, Ref(j)) \subseteq ToSet(t.users)
      OBVIOUS
    <3>1. t.values = values /\ t.users = s.users \o list
      BY <2>3
    <3>2. CASE j = i
      BY <2>2, <2>4, <2>5, <3>1, <3>2
    <3>3. CASE j # i
      BY <2>5, <3>1, <3>3 DEF Descends
    <3> QED
      BY <3>2, <3>3
  <2>8. /\ t.values = values /\ t.users = s.users \o list /\ t.mode = s.mode
        /\ t.backward = s.backward /\ t.executable = s.executable
        /\ t.reachable = s.reachable /\ t.blocks = s.blocks
    BY <2>3
  <2>9. Grows(f, s, t)
    BY <2>4, <2>6, <2>7, <2>8 DEF Grows
  <2> QED
    BY <2>5, <2>8, <2>9
<1> QED
  BY <1>1, <1>2

\* Making an edge executable.
LEMMA MarkEdgeGrows ==
    ASSUME NEW f, NEW s, IsSolver(f, s), NEW from \in Blocks(f), NEW to \in Blocks(f),
           NEW t, t = MarkEdge(s, from, to)
    PROVE  Grows(f, s, t) /\ t.values = s.values /\ <<from, to>> \in t.executable
<1>1. CASE <<from, to>> \in s.executable
  BY <1>1 DEF MarkEdge, Grows, Descends
<1>2. CASE <<from, to>> \notin s.executable
  <2>1. t = [s EXCEPT !.executable = s.executable \cup {<<from, to>>},
                      !.reachable = s.reachable \cup {to}, !.blocks = Append(s.blocks, to)]
    BY <1>2 DEF MarkEdge
  <2>2. t = [values |-> s.values, reachable |-> s.reachable \cup {to},
             executable |-> s.executable \cup {<<from, to>>},
             blocks |-> Append(s.blocks, to), users |-> s.users, mode |-> s.mode,
             backward |-> s.backward]
    BY <2>1 DEF IsSolver
  <2>3. /\ Append(s.blocks, to) \in Seq(Blocks(f))
        /\ ToSet(s.blocks) \subseteq ToSet(Append(s.blocks, to))
        /\ to \in ToSet(Append(s.blocks, to))
    BY ElementsOfAppend DEF IsSolver
  <2>4. IsSolver(f, t)
    BY <2>2, <2>3 DEF IsSolver
  <2> QED
    BY <2>2, <2>3, <2>4 DEF Grows, Descends
<1> QED
  BY <1>1, <1>2

\* What is not queued would be looked at with the same result.
LEMMA OutcomeStays ==
    ASSUME NEW f, Usable(f), NEW s, NEW t, Grows(f, s, t), NEW c,
           NEW j \in DOMAIN f.inst, ~Queued(t, c, j)
    PROVE  /\ Outcome(f, c, t, j) = Outcome(f, c, s, j)
           /\ \A k \in DOMAIN f.inst[j].args :
                LatticeOf(t, f.inst[j].args[k]) = LatticeOf(s, f.inst[j].args[k])
<1> DEFINE ins == f.inst[j]
<1>1. j \notin ToSet(t.users) /\ c \notin ToSet(t.blocks)
  BY DEF Queued
<1>2. \A k \in DOMAIN ins.args : LatticeOf(t, ins.args[k]) = LatticeOf(s, ins.args[k])
  BY <1>1, OperandsDescend
<1>3. \A b : <<b, c>> \in t.executable <=> <<b, c>> \in s.executable
  BY <1>1 DEF Grows
<1>4. ins.args \in Seq(ToSet(ins.args))
  BY DEF Usable, IsFunction
<1> HIDE DEF ins
<1>5. MeetOfPhi(t, c, ins) = MeetOfPhi(s, c, ins)
  <2> DEFINE A == Arriving(s, c, ins)
             M == IF A = {} THEN Unknown
                  ELSE IF Overdefined \in A \/ Cardinality(A) > 1 THEN Overdefined
                  ELSE CHOOSE x \in A : TRUE
  <2>1. A = Arriving(s, c, ins) /\ A = Arriving(t, c, ins)
    BY <1>2, <1>3 DEF Arriving
  <2> HIDE DEF A
  <2>2. MeetOfPhi(t, c, ins) = M /\ MeetOfPhi(s, c, ins) = M
    BY <2>1, MeetOfPhiIs
  <2> HIDE DEF M
  <2> QED
    BY <2>2
<1>6. Evaluated(t, ins) = Evaluated(s, ins)
  <2>1. Operands(t, ins) = Operands(s, ins)
    BY <1>2 DEF Operands
  <2>2. FoldsTo(t, ins) = FoldsTo(s, ins)
    BY <1>2, <2>1 DEF FoldsTo
  <2>3. (\E k \in DOMAIN ins.args : LatticeOf(t, ins.args[k]) = Unknown)
          <=> (\E k \in DOMAIN ins.args : LatticeOf(s, ins.args[k]) = Unknown)
    BY <1>2
  <2> QED
    BY <1>4, <2>2, <2>3, EvaluatedIs
<1> QED
  BY <1>2, <1>5, <1>6 DEF Outcome, ins

\* Every outcome descends.
LEMMA OutcomeDescends ==
    ASSUME NEW f, Usable(f), NEW s, NEW t, Grows(f, s, t), NEW c, NEW j \in DOMAIN f.inst
    PROVE  Descends(Outcome(f, c, s, j), Outcome(f, c, t, j))
BY PhiDescends, EvaluatedDescends DEF Outcome

\* The instructions of a block are those of the function.
LEMMA InstructionsOfBlock ==
    ASSUME NEW f, Usable(f), NEW b \in Blocks(f)
    PROVE  /\ f.code[b] \in Seq(DOMAIN f.inst) /\ ToSet(f.code[b]) \subseteq DOMAIN f.inst
           /\ \A i \in ToSet(f.code[b]) : \A c \in Blocks(f) : i \in ToSet(f.code[c]) => b = c
<1>1. f.code \in [Blocks(f) -> Seq(DOMAIN f.inst)]
  BY DEF Usable, IsFunction
<1>2. f.code[b] \in Seq(DOMAIN f.inst)
  BY <1>1
<1>3. ToSet(f.code[b]) \subseteq DOMAIN f.inst
  BY <1>2 DEF ToSet
<1>4. \A i \in ToSet(f.code[b]) : \A c \in Blocks(f) : i \in ToSet(f.code[c]) => b = c
  BY DEF Usable, IsFunction
<1> QED
  BY <1>2, <1>3, <1>4

\* As long as only outcomes are written, what was said stays sound.
LEMMA SoundStays ==
    ASSUME NEW f, Usable(f), NEW s, NEW t, Sound(f, s), Grows(f, s, t),
           NEW b \in Blocks(f), NEW i \in ToSet(f.code[b]),
           \A j \in DOMAIN f.inst :
             t.values[j] = s.values[j] \/ (j = i /\ t.values[j] = Outcome(f, b, s, i))
    PROVE  Sound(f, t)
<1> SUFFICES ASSUME NEW c \in Blocks(f), NEW j \in ToSet(f.code[c])
             PROVE  Descends(t.values[j], Outcome(f, c, t, j))
  BY DEF Sound
<1>1. j \in DOMAIN f.inst /\ (j = i => c = b)
  BY InstructionsOfBlock
<1>2. Descends(s.values[j], Outcome(f, c, s, j))
  BY DEF Sound
<1>3. Descends(Outcome(f, c, s, j), Outcome(f, c, t, j))
  BY <1>1, OutcomeDescends
<1>4. CASE t.values[j] = s.values[j]
  BY <1>2, <1>3, <1>4, DescendsTransitive
<1>5. CASE j = i /\ t.values[j] = Outcome(f, b, s, i)
  BY <1>1, <1>3, <1>5
<1> QED
  BY <1>1, <1>4, <1>5

\* A look at an instruction: values descend, everything affected is queued, and the
\* instruction is settled unless it affects itself.
LEMMA VisitGrows ==
    ASSUME NEW f, Usable(f), NEW s, IsSolver(f, s), Sound(f, s),
           NEW b \in Blocks(f), NEW i \in ToSet(f.code[b]), NEW t, t = VisitInst(f, b, s, i)
    PROVE  /\ Grows(f, s, t) /\ Sound(f, t)
           /\ Settled(f, b, t, i) \/ Queued(t, b, i)
<1> DEFINE ins == f.inst[i]
           condition == LatticeOf(s, ins.args[1])
           next == Outcome(f, b, s, i)
           Written == \A j \in DOMAIN f.inst :
                        t.values[j] = s.values[j] \/ (j = i /\ t.values[j] = next)
<1>1. Looked(f, b, s, i, ins, condition, t)
  BY VisitInstIs
<1>2. i \in DOMAIN f.inst /\ Descends(s.values[i], next)
  BY InstructionsOfBlock DEF Sound
<1>3. /\ ins.op = "br" => ins.to[1] \in Blocks(f)
      /\ ins.op = "condbr" => ins.to[1] \in Blocks(f) /\ ins.to[2] \in Blocks(f) /\ 1 \in DOMAIN ins.args
  <2>1. ins.to \in Seq(Blocks(f))
    BY <1>2 DEF Usable, IsFunction
  <2>2. /\ ins.op = "br" => 1 \in DOMAIN ins.to
        /\ ins.op = "condbr" => 1 \in DOMAIN ins.args /\ 1 \in DOMAIN ins.to /\ 2 \in DOMAIN ins.to
    BY <1>2 DEF Usable
  <2> HIDE DEF ins
  <2> QED
    BY <2>1, <2>2
<1> HIDE DEF ins, condition, next
<1>4. Grows(f, s, s)
  BY DEF Grows, Descends
<1>5. ASSUME t = Update(f, s, i, next)
      PROVE  Grows(f, s, t) /\ Written /\ t.values[i] = next
  BY <1>2, <1>5, UpdateGrows
<1>6. ASSUME NEW to \in Blocks(f), t = MarkEdge(s, b, to)
      PROVE  Grows(f, s, t) /\ Written /\ <<b, to>> \in t.executable
  BY <1>6, MarkEdgeGrows
<1>7. ASSUME NEW to \in Blocks(f), NEW too \in Blocks(f),
             t = MarkEdge(MarkEdge(s, b, to), b, too)
      PROVE  /\ Grows(f, s, t) /\ Written
             /\ <<b, to>> \in t.executable /\ <<b, too>> \in t.executable
  <2> DEFINE r == MarkEdge(s, b, to)
  <2>1. Grows(f, s, r) /\ r.values = s.values /\ <<b, to>> \in r.executable
    BY MarkEdgeGrows
  <2>2. IsSolver(f, r) /\ t = MarkEdge(r, b, too)
    BY <1>7, <2>1 DEF Grows
  <2> HIDE DEF r
  <2>3. Grows(f, r, t) /\ t.values = r.values /\ <<b, too>> \in t.executable
    BY <2>2, MarkEdgeGrows
  <2>4. Grows(f, s, t)
    BY <2>1, <2>3, GrowsTransitive
  <2> QED
    BY <2>1, <2>3, <2>4 DEF Grows
<1>8. /\ ins.op = "phi" => next = MeetOfPhi(s, b, ins)
      /\ ins.op # "phi" => next = Evaluated(s, ins)
  BY DEF next, Outcome, ins
<1>9. Grows(f, s, t) /\ Written
  <2>1. CASE ins.op = "phi"
    BY <1>1, <1>5, <1>8, <2>1 DEF Looked
  <2>2. CASE ins.op = "br"
    BY <1>1, <1>3, <1>6, <2>2 DEF Looked
  <2>3. CASE ins.op = "condbr" /\ IsBool(condition)
    BY <1>1, <1>3, <1>6, <2>3 DEF Looked
  <2>4. CASE ins.op = "condbr" /\ condition = Overdefined
    BY <1>1, <1>3, <1>7, <2>4 DEF Looked
  <2>5. CASE ins.op = "condbr" /\ ~IsBool(condition) /\ condition # Overdefined
    BY <1>1, <1>4, <2>5 DEF Looked
  <2>6. CASE ins.op \notin {"phi", "br", "condbr"}
    <3>1. CASE HasResult(ins) /\ Evaluated(s, ins) # Unknown
      BY <1>1, <1>5, <1>8, <2>6, <3>1 DEF Looked
    <3>2. CASE ~(HasResult(ins) /\ Evaluated(s, ins) # Unknown)
      BY <1>1, <1>4, <2>6, <3>2 DEF Looked
    <3> QED
      BY <3>1, <3>2
  <2> QED
    BY <2>1, <2>2, <2>3, <2>4, <2>5, <2>6
<1>10. Sound(f, t)
  <2> HIDE DEF Written
  <2> QED
    BY <1>9, SoundStays DEF Written, next
<1>11. ASSUME ~Queued(t, b, i) PROVE Settled(f, b, t, i)
  <2>1. /\ Outcome(f, b, t, i) = next
        /\ 1 \in DOMAIN ins.args => LatticeOf(t, ins.args[1]) = condition
    BY <1>2, <1>9, <1>11, OutcomeStays DEF next, ins, condition
  <2>2. CASE ins.op = "phi"
    BY <1>1, <1>5, <1>8, <2>1, <2>2 DEF Looked, Settled, ins
  <2>3. CASE ins.op = "br"
    BY <1>1, <1>3, <1>6, <2>3 DEF Looked, Settled, ins
  <2>4. CASE ins.op = "condbr"
    <3>1. LatticeOf(t, ins.args[1]) = condition
      BY <1>3, <2>1, <2>4
    <3>2. CASE IsBool(condition)
      <4>1. condition # Overdefined
        BY <3>2 DEF IsBool, Overdefined
      <4> QED
        BY <1>1, <1>3, <1>6, <2>4, <3>1, <3>2, <4>1 DEF Looked, Settled, ins
    <3>3. CASE condition = Overdefined
      <4>1. ~IsBool(condition)
        BY <3>3 DEF IsBool, Overdefined
      <4> QED
        BY <1>1, <1>3, <1>7, <2>4, <3>1, <3>3, <4>1 DEF Looked, Settled, ins
    <3>4. CASE ~IsBool(condition) /\ condition # Overdefined
      BY <2>4, <3>1, <3>4 DEF Settled, ins
    <3> QED
      BY <3>2, <3>3, <3>4
  <2>5. CASE ins.op \notin {"phi", "br", "condbr"}
    <3>1. CASE HasResult(ins) /\ Evaluated(s, ins) # Unknown
      BY <1>1, <1>5, <1>8, <2>1, <2>5, <3>1 DEF Looked, Settled, ins
    <3>2. CASE ~(HasResult(ins) /\ Evaluated(s, ins) # Unknown)
      BY <1>8, <2>1, <2>5, <3>2 DEF Settled, ins
    <3> QED
      BY <3>1, <3>2
  <2> QED
    BY <2>2, <2>3, <2>4, <2>5
<1> QED
  BY <1>9, <1>10, <1>11

\* What is settled stays so, or is queued.
LEMMA SettledStays ==
    ASSUME NEW f, Usable(f), NEW s, NEW t, Grows(f, s, t), Sound(f, t),
           NEW c \in Blocks(f), NEW j \in ToSet(f.code[c]), Settled(f, c, s, j)
    PROVE  Settled(f, c, t, j) \/ Queued(t, c, j)
<1> SUFFICES ASSUME ~Queued(t, c, j) PROVE Settled(f, c, t, j)
  OBVIOUS
<1> DEFINE ins == f.inst[j]
           next == Outcome(f, c, s, j)
<1>1. j \in DOMAIN f.inst
  BY InstructionsOfBlock
<1>2. /\ Outcome(f, c, t, j) = next
      /\ \A k \in DOMAIN ins.args : LatticeOf(t, ins.args[k]) = LatticeOf(s, ins.args[k])
  BY <1>1, OutcomeStays
<1>3. Descends(t.values[j], next)
  BY <1>2 DEF Sound
<1>4. Descends(s.values[j], t.values[j]) /\ s.executable \subseteq t.executable
  BY <1>1 DEF Grows
<1> HIDE DEF ins, next
<1>5. s.values[j] \in {next, Overdefined} => t.values[j] \in {next, Overdefined}
  BY <1>3, <1>4 DEF Descends, Unknown, Overdefined
<1>6. ins.op = "condbr" => LatticeOf(t, ins.args[1]) = LatticeOf(s, ins.args[1])
  BY <1>1, <1>2 DEF Usable, ins
<1> QED
  BY <1>2, <1>4, <1>5, <1>6 DEF Settled, ins, next

-----------------------------------------------------------------------------
(* A look at all the instructions of a block *)

\* What the loop over the block has made of start after each round
IsWalk(f, b, start, h) ==
    h = [n \in 0 .. Len(f.code[b]) |->
           IF n = 0 THEN start ELSE VisitInst(f, b, h[n - 1], f.code[b][n])]

\* Such a walk exists.
LEMMA WalkExists ==
    ASSUME NEW f, NEW b, NEW S, f.code[b] \in Seq(S), NEW start
    PROVE  \E h : IsWalk(f, b, start, h)
<1> DEFINE code == f.code[b]
           N == Len(code)
           Upto(k, h) == h = [n \in 0 .. k |->
                                IF n = 0 THEN start ELSE VisitInst(f, b, h[n - 1], code[n])]
           R == {k \in 0 .. N : \E h : Upto(k, h)}
<1>0. N \in Nat
  OBVIOUS
<1> HIDE DEF N
<1>1. 0 \in R
  <2> DEFINE h == [n \in 0 .. 0 |-> start]
  <2>1. Upto(0, h)
    OBVIOUS
  <2> HIDE DEF h, Upto
  <2> QED
    BY <1>0, <2>1
<1>2. ASSUME NEW k \in 1 .. N, k - 1 \in R PROVE k \in R
  <2>1. PICK h : Upto(k - 1, h)
    BY <1>2
  <2> DEFINE g == [n \in 0 .. k |-> IF n = k THEN VisitInst(f, b, h[k - 1], code[k]) ELSE h[n]]
  <2>2. ASSUME NEW n \in 0 .. k
        PROVE  g[n] = IF n = 0 THEN start ELSE VisitInst(f, b, g[n - 1], code[n])
    <3>1. CASE n = k
      <4>1. g[n - 1] = h[k - 1] /\ k # 0
        BY <1>0, <3>1
      <4> QED
        BY <3>1, <4>1
    <3>2. CASE n # k /\ n = 0
      BY <1>0, <2>1, <3>2
    <3>3. CASE n # k /\ n # 0
      <4>1. n \in 0 .. k - 1 /\ n - 1 \in 0 .. k /\ n - 1 # k
        BY <1>0, <3>3
      <4>2. g[n] = h[n] /\ g[n - 1] = h[n - 1]
        BY <3>3, <4>1
      <4>3. h[n] = VisitInst(f, b, h[n - 1], code[n])
        BY <2>1, <3>3, <4>1
      <4> QED
        BY <3>3, <4>2, <4>3
    <3> QED
      BY <3>1, <3>2, <3>3
  <2>3. g = [n \in 0 .. k |-> g[n]]
    OBVIOUS
  <2> HIDE DEF g
  <2>4. Upto(k, g)
    BY <2>2, <2>3
  <2>5. k \in 0 .. N
    BY <1>0
  <2> HIDE DEF Upto
  <2> QED
    BY <2>4, <2>5
<1>3. N \in R
  <2> HIDE DEF R
  <2>1. \A k \in 0 .. N : k \in R
    BY <1>0, <1>1, <1>2, Rounds
  <2> QED
    BY <1>0, <2>1
<1> QED
  BY <1>3 DEF N, code, IsWalk

\* It ends with what the loop returns.
LEMMA LoopIsWalk ==
    ASSUME NEW f, NEW b, NEW S, f.code[b] \in Seq(S), NEW start
    PROVE  \E h : IsWalk(f, b, start, h) /\ VisitBlock(f, b, start) = h[Len(f.code[b])]
<1> DEFINE code == f.code[b]
           N == Len(code)
           g[n \in 0 .. N] ==
             IF n = 0 THEN start
             ELSE CHOOSE r \in {VisitInst(f, b, prefix, code[n]) : prefix \in {g[n - 1]}} : TRUE
<1>0. N \in Nat
  OBVIOUS
<1>1. VisitBlock(f, b, start) = g[N]
  BY Zenon DEF VisitBlock, PrefixByPrefix
<1>2. \A h, n : (CHOOSE r \in {VisitInst(f, b, prefix, code[n]) : prefix \in {h[n - 1]}} : TRUE)
                  = VisitInst(f, b, h[n - 1], code[n])
  OBVIOUS
<1>3. PICK h : IsWalk(f, b, start, h)
  BY WalkExists
<1>4. h = [n \in 0 .. N |->
             IF n = 0 THEN start
             ELSE CHOOSE r \in {VisitInst(f, b, prefix, code[n]) : prefix \in {h[n - 1]}} : TRUE]
  BY <1>2, <1>3 DEF IsWalk
<1>5. g = [n \in 0 .. N |->
             IF n = 0 THEN start
             ELSE CHOOSE r \in {VisitInst(f, b, prefix, code[n]) : prefix \in {g[n - 1]}} : TRUE]
  BY <1>4, Zenon
<1>6. IsWalk(f, b, start, g)
  <2> HIDE DEF g
  <2> QED
    BY <1>2, <1>5 DEF IsWalk
<1> HIDE DEF g
<1> QED
  BY <1>1, <1>6

\* What a look depends on are the values and the edges that may execute.
LEMMA SettledReads ==
    ASSUME NEW f, Usable(f), NEW s, NEW t, s.values = t.values, s.executable = t.executable,
           NEW c, NEW j \in DOMAIN f.inst
    PROVE  /\ Outcome(f, c, t, j) = Outcome(f, c, s, j)
           /\ Settled(f, c, t, j) <=> Settled(f, c, s, j)
<1> DEFINE ins == f.inst[j]
<1>1. \A v : LatticeOf(t, v) = LatticeOf(s, v)
  BY DEF LatticeOf
<1>2. ins.args \in Seq(ToSet(ins.args))
  BY DEF Usable, IsFunction
<1> HIDE DEF ins
<1>3. MeetOfPhi(t, c, ins) = MeetOfPhi(s, c, ins)
  <2> DEFINE A == Arriving(s, c, ins)
             M == IF A = {} THEN Unknown
                  ELSE IF Overdefined \in A \/ Cardinality(A) > 1 THEN Overdefined
                  ELSE CHOOSE x \in A : TRUE
  <2>1. A = Arriving(s, c, ins) /\ A = Arriving(t, c, ins)
    BY <1>1 DEF Arriving
  <2> HIDE DEF A
  <2>2. MeetOfPhi(t, c, ins) = M /\ MeetOfPhi(s, c, ins) = M
    BY <2>1, MeetOfPhiIs
  <2> HIDE DEF M
  <2> QED
    BY <2>2
<1>4. Evaluated(t, ins) = Evaluated(s, ins)
  <2>1. Operands(t, ins) = Operands(s, ins)
    BY <1>1 DEF Operands
  <2>2. FoldsTo(t, ins) = FoldsTo(s, ins)
    BY <1>1, <2>1 DEF FoldsTo
  <2> QED
    BY <1>1, <1>2, <2>2, EvaluatedIs
<1>5. Outcome(f, c, t, j) = Outcome(f, c, s, j)
  BY <1>3, <1>4 DEF Outcome, ins
<1> QED
  BY <1>1, <1>5 DEF Settled

\* Taking something from a worklist, or turning to the other one, leaves what was said
\* sound.
LEMMA SoundReads ==
    ASSUME NEW f, Usable(f), NEW s, NEW t, s.values = t.values, s.executable = t.executable,
           Sound(f, s)
    PROVE  Sound(f, t)
<1> SUFFICES ASSUME NEW c \in Blocks(f), NEW j \in ToSet(f.code[c])
             PROVE  Descends(t.values[j], Outcome(f, c, t, j))
  BY DEF Sound
<1>1. Outcome(f, c, t, j) = Outcome(f, c, s, j)
  BY InstructionsOfBlock, SettledReads
<1> QED
  BY <1>1 DEF Sound

\* The instructions looked at so far are settled, or will be looked at again
Done(f, b, code, start, u, n) ==
    /\ Grows(f, start, u) /\ Sound(f, u)
    /\ \A m \in 1 .. n : Settled(f, b, u, code[m]) \/ Queued(u, b, code[m])

\* A block is looked at.
LEMMA BlockLookedAt ==
    ASSUME NEW f, Usable(f), NEW b \in Blocks(f), NEW start, IsSolver(f, start), Sound(f, start),
           NEW u, u = VisitBlock(f, b, start)
    PROVE  /\ Grows(f, start, u) /\ Sound(f, u)
           /\ \A i \in ToSet(f.code[b]) : Settled(f, b, u, i) \/ Queued(u, b, i)
<1> DEFINE code == f.code[b]
           N == Len(code)
<1>1. code \in Seq(DOMAIN f.inst) /\ N \in Nat /\ DOMAIN code = 1 .. N
  BY InstructionsOfBlock
<1>2. PICK h : IsWalk(f, b, start, h) /\ u = h[N]
  BY <1>1, LoopIsWalk
<1> DEFINE R == {n \in 0 .. N : Done(f, b, code, start, h[n], n)}
<1>3. 0 \in R
  <2>1. 0 \in 0 .. N /\ h[0] = start
    BY <1>1, <1>2 DEF IsWalk
  <2>2. Done(f, b, code, start, start, 0)
    BY DEF Done, Grows, Descends
  <2> HIDE DEF code, N
  <2> QED
    BY <2>1, <2>2
<1>4. ASSUME NEW n \in 1 .. N, n - 1 \in R PROVE n \in R
  <2> DEFINE r == h[n - 1]
             i == code[n]
  <2>1. n \in 0 .. N /\ n # 0 /\ i \in ToSet(code)
    BY <1>1 DEF ToSet
  <2>2. h[n] = VisitInst(f, b, r, i)
    BY <1>2, <2>1 DEF IsWalk
  <2>3. Done(f, b, code, start, r, n - 1)
    BY <1>4
  <2>4. IsSolver(f, r) /\ Sound(f, r) /\ Grows(f, start, r)
    BY <2>3 DEF Done, Grows
  <2> HIDE DEF r, i
  <2>5. /\ Grows(f, r, h[n]) /\ Sound(f, h[n])
        /\ Settled(f, b, h[n], i) \/ Queued(h[n], b, i)
    BY <2>1, <2>2, <2>4, VisitGrows
  <2>6. Grows(f, start, h[n])
    BY <2>4, <2>5, GrowsTransitive
  <2>7. ASSUME NEW m \in 1 .. n
        PROVE  Settled(f, b, h[n], code[m]) \/ Queued(h[n], b, code[m])
    <3>1. CASE m = n
      BY <2>5, <3>1 DEF i
    <3>2. CASE m # n
      <4>1. m \in 1 .. n - 1 /\ m \in 1 .. N
        BY <1>1, <3>2
      <4>2. code[m] \in ToSet(code)
        BY <1>1, <4>1 DEF ToSet
      <4>3. Settled(f, b, r, code[m]) \/ Queued(r, b, code[m])
        BY <2>3, <4>1 DEF Done
      <4>4. CASE Settled(f, b, r, code[m])
        BY <2>5, <4>2, <4>4, SettledStays
      <4>5. CASE Queued(r, b, code[m])
        BY <2>5, <4>5 DEF Queued, Grows
      <4> QED
        BY <4>3, <4>4, <4>5
    <3> QED
      BY <3>1, <3>2
  <2>8. Done(f, b, code, start, h[n], n)
    BY <2>5, <2>6, <2>7 DEF Done
  <2> QED
    BY <2>1, <2>8
<1>5. N \in R
  <2> HIDE DEF R, N
  <2>1. \A n \in 0 .. N : n \in R
    BY <1>1, <1>3, <1>4, Rounds
  <2> QED
    BY <1>1, <2>1
<1>6. Done(f, b, code, start, u, N)
  BY <1>2, <1>5
<1> HIDE DEF code, N
<1>7. ASSUME NEW i \in ToSet(code) PROVE Settled(f, b, u, i) \/ Queued(u, b, i)
  <2>1. PICK m \in 1 .. N : i = code[m]
    BY <1>1 DEF ToSet
  <2> QED
    BY <1>6, <2>1 DEF Done
<1> QED
  BY <1>6, <1>7 DEF Done, code

-----------------------------------------------------------------------------
(* The solver *)

\* Everything in a block that may execute is settled, or will be looked at again
Pending(f, s) ==
    \A b \in s.reachable : \A i \in ToSet(f.code[b]) : Settled(f, b, s, i) \/ Queued(s, b, i)

\* A loop that has something left on its worklist goes on
Modes(s) ==
    /\ s.mode = "blocks" => s.blocks # <<>> \/ s.users = <<>>
    /\ s.mode = "users" => s.users # <<>> \/ s.blocks = <<>>

SolverInv(f, s) == IsSolver(f, s) /\ Sound(f, s) /\ Pending(f, s) /\ Modes(s)

\* The end of a round: one thing was taken from a worklist, which gave start, and looked
\* at, which gave u; then the other worklist may be turned to.
LEMMA RoundEnds ==
    ASSUME NEW f, Usable(f), NEW s, SolverInv(f, s),
           NEW start, start.values = s.values, start.executable = s.executable,
           start.reachable = s.reachable, NEW u, Grows(f, start, u), Sound(f, u),
           \A c \in s.reachable : \A j \in ToSet(f.code[c]) :
             Queued(s, c, j) => Settled(f, c, u, j) \/ Queued(u, c, j),
           NEW mode, NEW t, t = [u EXCEPT !.mode = mode], Modes(t)
    PROVE  /\ SolverInv(f, t)
           /\ \A i \in DOMAIN f.inst : Descends(s.values[i], t.values[i])
<1>1. IsSolver(f, u)
  BY DEF Grows
<1>2. t = [values |-> u.values, reachable |-> u.reachable, executable |-> u.executable,
           blocks |-> u.blocks, users |-> u.users, mode |-> mode, backward |-> u.backward]
  BY <1>1 DEF IsSolver
<1>3. /\ t.values = u.values /\ t.executable = u.executable /\ t.reachable = u.reachable
      /\ t.users = u.users /\ t.blocks = u.blocks
  BY <1>2
<1>4. IsSolver(f, t)
  BY <1>1, <1>2, <1>3 DEF IsSolver
<1>5. Sound(f, t)
  BY <1>3, SoundReads
<1>6. ASSUME NEW c \in Blocks(f), c \in t.reachable, NEW j \in ToSet(f.code[c])
      PROVE  Settled(f, c, t, j) \/ Queued(t, c, j)
  <2>1. j \in DOMAIN f.inst
    BY InstructionsOfBlock
  <2>2. Settled(f, c, u, j) \/ Queued(u, c, j)
    <3>1. CASE c \notin s.reachable
      <4>1. c \in u.reachable \ start.reachable
        BY <1>3, <1>6, <3>1
      <4>2. c \in ToSet(u.blocks)
        BY <4>1 DEF Grows
      <4> QED
        BY <4>2 DEF Queued
    <3>2. CASE c \in s.reachable /\ Queued(s, c, j)
      BY <3>2
    <3>3. CASE c \in s.reachable /\ Settled(f, c, s, j)
      <4>1. Settled(f, c, start, j)
        BY <2>1, <3>3, SettledReads
      <4> QED
        BY <4>1, SettledStays
    <3> QED
      BY <3>1, <3>2, <3>3 DEF SolverInv, Pending
  <2>3. Settled(f, c, t, j) <=> Settled(f, c, u, j)
    BY <1>3, <2>1, SettledReads
  <2> QED
    BY <1>3, <2>2, <2>3 DEF Queued
<1>7. Pending(f, t)
  BY <1>4, <1>6 DEF Pending, IsSolver
<1>8. ASSUME NEW i \in DOMAIN f.inst PROVE Descends(s.values[i], t.values[i])
  BY <1>3 DEF Grows
<1> QED
  BY <1>4, <1>5, <1>7, <1>8 DEF SolverInv

\* The first loop of solve().
LEMMA SolveBlockKeeps ==
    ASSUME NEW f, Usable(f), NEW s, SolverInv(f, s), s.blocks # <<>>,
           NEW t, t = SolveBlock(f, s)
    PROVE  /\ SolverInv(f, t)
           /\ \A i \in DOMAIN f.inst : Descends(s.values[i], t.values[i])
<1> DEFINE b == Last(s.blocks)
           start == [s EXCEPT !.blocks = Front(s.blocks)]
           u == VisitBlock(f, b, start)
           mode == IF u.blocks = <<>> THEN "users" ELSE "blocks"
<1>1. t = [u EXCEPT !.mode = mode]
  BY DEF SolveBlock
<1>2. /\ Front(s.blocks) \in Seq(Blocks(f)) /\ b \in Blocks(f)
      /\ ToSet(s.blocks) = ToSet(Front(s.blocks)) \cup {b}
  BY ElementsOfFront DEF SolverInv, IsSolver
<1> HIDE DEF b
<1>3. start = [values |-> s.values, reachable |-> s.reachable, executable |-> s.executable,
               blocks |-> Front(s.blocks), users |-> s.users, mode |-> s.mode,
               backward |-> s.backward]
  BY DEF SolverInv, IsSolver
<1> HIDE DEF start
<1>4. IsSolver(f, start)
  BY <1>2, <1>3 DEF SolverInv, IsSolver
<1>5. Sound(f, start)
  BY <1>3, SoundReads DEF SolverInv
<1>6. /\ Grows(f, start, u) /\ Sound(f, u)
      /\ \A i \in ToSet(f.code[b]) : Settled(f, b, u, i) \/ Queued(u, b, i)
  BY <1>2, <1>4, <1>5, BlockLookedAt
<1> HIDE DEF u
<1>7. ASSUME NEW c \in s.reachable, NEW j \in ToSet(f.code[c]), Queued(s, c, j)
      PROVE  Settled(f, c, u, j) \/ Queued(u, c, j)
  <2>1. CASE c = b
    BY <1>6, <2>1
  <2>2. CASE c # b
    <3>1. Queued(start, c, j)
      BY <1>2, <1>3, <1>7, <2>2 DEF Queued
    <3> QED
      BY <1>6, <3>1 DEF Queued, Grows
  <2> QED
    BY <2>1, <2>2
<1>8. Modes(t)
  <2>1. IsSolver(f, u)
    BY <1>6 DEF Grows
  <2>2. t.mode = mode /\ t.blocks = u.blocks /\ t.users = u.users
    BY <1>1, <2>1 DEF IsSolver
  <2> QED
    BY <2>2 DEF Modes
<1>9. /\ start.values = s.values /\ start.executable = s.executable
      /\ start.reachable = s.reachable
  BY <1>3
<1> HIDE DEF mode
<1> QED
  BY <1>1, <1>6, <1>7, <1>8, <1>9, RoundEnds, ZenonT(40)

\* An instruction is in one block, its parent.
LEMMA ParentOfIs ==
    ASSUME NEW f, Usable(f), NEW i \in DOMAIN f.inst
    PROVE  /\ ParentOf(f, i) \in Blocks(f) /\ i \in ToSet(f.code[ParentOf(f, i)])
           /\ \A c \in Blocks(f) : i \in ToSet(f.code[c]) => c = ParentOf(f, i)
<1>1. ASSUME NEW c \in Blocks(f)
      PROVE  Contains(f.code[c], i) <=> i \in ToSet(f.code[c])
  BY InstructionsOfBlock DEF Contains, ToSet
<1>2. PICK b \in Blocks(f) : i \in ToSet(f.code[b])
  BY DEF Usable, IsFunction
<1>3. ParentOf(f, i) \in Blocks(f) /\ Contains(f.code[ParentOf(f, i)], i)
  BY <1>1, <1>2 DEF ParentOf
<1>4. i \in ToSet(f.code[ParentOf(f, i)])
  BY <1>1, <1>3
<1> QED
  BY <1>3, <1>4, InstructionsOfBlock

\* The second loop of solve().
LEMMA SolveUserKeeps ==
    ASSUME NEW f, Usable(f), NEW s, SolverInv(f, s), s.users # <<>>,
           NEW t, t = SolveUser(f, s)
    PROVE  /\ SolverInv(f, t)
           /\ \A i \in DOMAIN f.inst : Descends(s.values[i], t.values[i])
<1> DEFINE i == Last(s.users)
           b == ParentOf(f, i)
           start == [s EXCEPT !.users = Front(s.users)]
           u == IF b \in s.reachable THEN VisitInst(f, b, start, i) ELSE start
           mode == IF u.users = <<>> THEN "blocks" ELSE "users"
<1>1. t = [u EXCEPT !.mode = mode]
  BY DEF SolveUser
<1>2. /\ Front(s.users) \in Seq(DOMAIN f.inst) /\ i \in DOMAIN f.inst
      /\ ToSet(s.users) = ToSet(Front(s.users)) \cup {i}
  BY ElementsOfFront DEF SolverInv, IsSolver
<1> HIDE DEF i
<1>3. /\ b \in Blocks(f) /\ i \in ToSet(f.code[b])
      /\ \A c \in Blocks(f) : i \in ToSet(f.code[c]) => c = b
  BY <1>2, ParentOfIs
<1> HIDE DEF b
<1>4. start = [values |-> s.values, reachable |-> s.reachable, executable |-> s.executable,
               blocks |-> s.blocks, users |-> Front(s.users), mode |-> s.mode,
               backward |-> s.backward]
  BY DEF SolverInv, IsSolver
<1> HIDE DEF start
<1>5. IsSolver(f, start)
  BY <1>2, <1>4 DEF SolverInv, IsSolver
<1>6. Sound(f, start)
  BY <1>4, SoundReads DEF SolverInv
<1>7. /\ Grows(f, start, u) /\ Sound(f, u)
      /\ b \in s.reachable => Settled(f, b, u, i) \/ Queued(u, b, i)
  <2>1. CASE b \in s.reachable
    BY <1>3, <1>5, <1>6, <2>1, VisitGrows
  <2>2. CASE b \notin s.reachable
    BY <1>5, <1>6, <2>2 DEF Grows, Descends
  <2> QED
    BY <2>1, <2>2
<1> HIDE DEF u
<1>8. ASSUME NEW c \in s.reachable, NEW j \in ToSet(f.code[c]), Queued(s, c, j)
      PROVE  Settled(f, c, u, j) \/ Queued(u, c, j)
  <2>1. CASE j = i
    <3>1. c = b
      BY <1>3, <2>1 DEF SolverInv, IsSolver
    <3> QED
      BY <1>7, <2>1, <3>1
  <2>2. CASE j # i
    <3>1. Queued(start, c, j)
      BY <1>2, <1>4, <1>8, <2>2 DEF Queued
    <3> QED
      BY <1>7, <3>1 DEF Queued, Grows
  <2> QED
    BY <2>1, <2>2
<1>9. Modes(t)
  <2>1. IsSolver(f, u)
    BY <1>7 DEF Grows
  <2>2. t.mode = mode /\ t.blocks = u.blocks /\ t.users = u.users
    BY <1>1, <2>1 DEF IsSolver
  <2> QED
    BY <2>2 DEF Modes
<1>10. /\ start.values = s.values /\ start.executable = s.executable
       /\ start.reachable = s.reachable
  BY <1>4
<1> HIDE DEF mode
<1> QED
  BY <1>1, <1>7, <1>8, <1>9, <1>10, RoundEnds, ZenonT(40)

\* Before the first round nothing is said of any value, and the entry is queued.
LEMMA StartIsSound ==
    ASSUME NEW f, Usable(f), NEW backward
    PROVE  SolverInv(f, StartSolver(f, backward))
<1> DEFINE s == StartSolver(f, backward)
<1>1. Entry(f) \in Blocks(f)
  BY DEF Usable, IsFunction, Entry
<1>2. <<Entry(f)>> \in Seq(Blocks(f)) /\ ToSet(<<Entry(f)>>) = {Entry(f)}
  BY <1>1 DEF ToSet
<1>3. /\ s.values = [i \in DOMAIN f.inst |-> Unknown]
      /\ s.reachable = {Entry(f)} /\ s.blocks = <<Entry(f)>> /\ s.users = <<>>
      /\ s.mode = "blocks"
  BY DEF StartSolver
<1>4. IsSolver(f, s)
  <2>1. s = [values |-> s.values, reachable |-> s.reachable, executable |-> s.executable,
             blocks |-> s.blocks, users |-> s.users, mode |-> s.mode, backward |-> s.backward]
    BY DEF StartSolver
  <2> HIDE DEF s
  <2> QED
    BY <1>1, <1>2, <1>3, <2>1 DEF IsSolver
<1> HIDE DEF s
<1>5. Sound(f, s)
  BY <1>3, InstructionsOfBlock DEF Sound, Descends
<1>6. Pending(f, s)
  BY <1>2, <1>3 DEF Pending, Queued
<1>7. Modes(s)
  BY <1>3 DEF Modes
<1> QED
  BY <1>4, <1>5, <1>6, <1>7 DEF SolverInv, s

\* With nothing queued, everything is settled, and another look changes nothing.
LEMMA SolvedIsSettled ==
    ASSUME NEW f, NEW s, SolverInv(f, s), Solved(s), NEW b \in s.reachable,
           NEW i \in ToSet(f.code[b])
    PROVE  VisitInst(f, b, s, i) = s
<1>1. ~Queued(s, b, i)
  BY DEF Solved, Queued, ToSet
<1>2. Settled(f, b, s, i)
  BY <1>1 DEF SolverInv, Pending
<1> QED
  BY <1>2, SettledStands

-----------------------------------------------------------------------------
(* The pass *)

\* A function that owns what is in it and that the verifier accepts is one the solver
\* can run on.
LEMMA ValidIsUsable ==
    ASSUME NEW f, IsFunction(f), VerifierAccepts(f)
    PROVE  Usable(f)
<1>1. OperandsAreThere(f) /\ WellTypedIn(f, Callees)
  BY DEF VerifierAccepts, VerifierAcceptsIn
<1>2. ASSUME NEW i \in DOMAIN f.inst, NEW k \in DOMAIN f.inst[i].args, IsRef(f.inst[i].args[k])
      PROVE  f.inst[i].args[k][2] \in DOMAIN f.inst
  <2>1. f.inst[i].args[k] \in ToSet(f.inst[i].args)
    BY DEF ToSet
  <2> QED
    BY <1>1, <1>2, <2>1 DEF OperandsAreThere
<1>3. ASSUME NEW i \in DOMAIN f.inst
      PROVE  /\ f.inst[i].op = "br" => 1 \in DOMAIN f.inst[i].to
             /\ f.inst[i].op = "condbr" =>
                  1 \in DOMAIN f.inst[i].args /\ 1 \in DOMAIN f.inst[i].to /\ 2 \in DOMAIN f.inst[i].to
  <2> DEFINE ins == f.inst[i]
             types == [k \in DOMAIN ins.args |-> TypeOf(f, ins.args[k])]
  <2>1. PICK b \in Blocks(f) : i \in ToSet(f.code[b])
    BY DEF IsFunction
  <2>2. /\ ins.op = "br" => Len(ins.to) = 1
        /\ ins.op = "condbr" => types = <<"i1">> /\ Len(ins.to) = 2
    <3>1. CASE ins.op = "br"
      <4>1. "br" \notin Arithmetic /\ "br" \notin FloatArithmetic /\ "br" \notin {"icmp", "fcmp"}
        BY DEF Arithmetic, FloatArithmetic
      <4> QED
        BY <1>1, <2>1, <3>1, <4>1 DEF WellTypedIn
    <3>2. CASE ins.op = "condbr"
      <4>1. "condbr" \notin Arithmetic /\ "condbr" \notin FloatArithmetic /\ "condbr" \notin {"icmp", "fcmp"}
        BY DEF Arithmetic, FloatArithmetic
      <4> QED
        BY <1>1, <2>1, <3>2, <4>1 DEF WellTypedIn
    <3> QED
      BY <3>1, <3>2
  <2>3. ins.args \in Seq(ToSet(ins.args)) /\ ins.to \in Seq(Blocks(f))
    BY DEF IsFunction
  <2>4. DOMAIN types = DOMAIN ins.args
    OBVIOUS
  <2>5. DOMAIN <<"i1">> = {1}
    OBVIOUS
  <2>6. ins.op = "condbr" => 1 \in DOMAIN ins.args
    <3> HIDE DEF types, ins
    <3> QED
      BY <2>2, <2>4, <2>5
  <2> HIDE DEF types, ins
  <2>7. /\ ins.op = "br" => 1 \in DOMAIN ins.to
        /\ ins.op = "condbr" => 1 \in DOMAIN ins.to /\ 2 \in DOMAIN ins.to
    BY <2>2, <2>3
  <2> QED
    BY <2>6, <2>7 DEF ins
<1> QED
  BY <1>2, <1>3 DEF Usable

\* The inductive invariant: while the solver runs, it is in order
SCCPInv == pass = "sccp" => Usable(func) /\ SolverInv(func, solver)

\* Before mem2reg no solver runs.
LEMMA SCCPInvInit == Init => SCCPInv
BY DEF Init, SCCPInv

\* A pass other than sccp leaves none running, and every round of the solver keeps it
\* in order.
LEMMA SCCPInvNext == PassesLeaveValidIR /\ SCCPInv /\ [Next]_vars => SCCPInv'
<1> SUFFICES ASSUME PassesLeaveValidIR, SCCPInv, [Next]_vars PROVE SCCPInv'
  OBVIOUS
<1>1. ASSUME NEW f, Leaves(f) PROVE SCCPInv'
  BY <1>1 DEF Leaves, SCCPInv
<1>2. CASE RunMem2Reg
  BY <1>1, <1>2 DEF RunMem2Reg
<1>3. CASE RunSimplifyCFG
  BY <1>1, <1>3 DEF RunSimplifyCFG
<1>4. CASE RunConstantFolding
  BY <1>1, <1>4 DEF RunConstantFolding
<1>5. CASE RunCopyPropagation
  BY <1>1, <1>5 DEF RunCopyPropagation
<1>6. CASE RunDCE
  BY <1>1, <1>6 DEF RunDCE
<1>7. CASE RunStrengthReduction
  BY <1>1, <1>7 DEF RunStrengthReduction
<1>8. CASE RunGVN
  BY <1>1, <1>8 DEF RunGVN
<1>9. CASE RunLICM
  BY <1>1, <1>9 DEF RunLICM
<1>10. CASE RunInline
  BY <1>1, <1>10 DEF RunInline
<1>11. CASE StartSCCP
  <2>1. pass = "idle" /\ func' = func
    BY <1>11 DEF StartSCCP, Idle
  <2>2. Usable(func)
    BY <2>1, ValidIsUsable DEF PassesLeaveValidIR
  <2>3. PICK backward \in BOOLEAN : solver' = StartSolver(func, backward)
    BY <1>11 DEF StartSCCP
  <2> QED
    BY <2>1, <2>2, <2>3, StartIsSound DEF SCCPInv
<1>12. CASE TakeBlock
  <2>1. pass = "sccp" /\ func' = func /\ solver' = SolveBlock(func, solver)
        /\ solver.mode = "blocks" /\ ~Solved(solver)
    BY <1>12 DEF TakeBlock
  <2>2. Usable(func) /\ SolverInv(func, solver)
    BY <2>1 DEF SCCPInv
  <2>3. solver.blocks # <<>>
    BY <2>1, <2>2 DEF SolverInv, Modes, Solved
  <2> QED
    BY <2>1, <2>2, <2>3, SolveBlockKeeps DEF SCCPInv
<1>13. CASE TakeUser
  <2>1. pass = "sccp" /\ func' = func /\ solver' = SolveUser(func, solver)
        /\ solver.mode = "users" /\ ~Solved(solver)
    BY <1>13 DEF TakeUser
  <2>2. Usable(func) /\ SolverInv(func, solver)
    BY <2>1 DEF SCCPInv
  <2>3. solver.users # <<>>
    BY <2>1, <2>2 DEF SolverInv, Modes, Solved
  <2> QED
    BY <2>1, <2>2, <2>3, SolveUserKeeps DEF SCCPInv
<1>14. CASE FinishSCCP
  BY <1>1, <1>14 DEF FinishSCCP
<1>15. CASE UNCHANGED vars
  BY <1>15 DEF vars, SCCPInv
<1> QED
  BY <1>2, <1>3, <1>4, <1>5, <1>6, <1>7, <1>8, <1>9, <1>10, <1>11, <1>12, <1>13, <1>14, <1>15 DEF Next

\* As long as the passes leave valid IR, the solver is in order whenever it runs.
THEOREM SolverStaysInOrder == Spec /\ []PassesLeaveValidIR => []SCCPInv
BY SCCPInvInit, SCCPInvNext, PTL DEF Spec

\* When the worklists are empty, no instruction of a block that may execute has anything
\* left to say (solve()).
THEOREM SolvedIsFinal == Spec /\ []PassesLeaveValidIR => []SolvedIsAFixedPoint
<1>1. SCCPInv => SolvedIsAFixedPoint
  BY SolvedIsSettled DEF SCCPInv, SolvedIsAFixedPoint
<1> QED
  BY <1>1, SolverStaysInOrder, PTL

\* What is said of a value only ever descends (update()).
THEOREM SolverOnlyDescends == Spec /\ []PassesLeaveValidIR => LatticeOnlyDescends
<1> DEFINE Step == pass = "sccp" /\ pass' = "sccp" =>
                     \A i \in DOMAIN solver.values : Descends(solver.values[i], solver'.values[i])
<1>1. SCCPInv /\ [Next]_vars => [Step]_vars
  <2> SUFFICES ASSUME SCCPInv, Next, pass = "sccp", pass' = "sccp"
               PROVE  \A i \in DOMAIN solver.values : Descends(solver.values[i], solver'.values[i])
    OBVIOUS
  <2>1. Usable(func) /\ SolverInv(func, solver)
    BY DEF SCCPInv
  <2>2. DOMAIN solver.values = DOMAIN func.inst
    BY <2>1 DEF SolverInv, IsSolver
  <2>3. ASSUME NEW f, Leaves(f) PROVE FALSE
    BY <2>3 DEF Leaves
  <2>4. CASE TakeBlock
    <3>1. solver' = SolveBlock(func, solver) /\ solver.blocks # <<>>
      BY <2>1, <2>4 DEF TakeBlock, SolverInv, Modes, Solved
    <3> QED
      BY <2>1, <2>2, <3>1, SolveBlockKeeps
  <2>5. CASE TakeUser
    <3>1. solver' = SolveUser(func, solver) /\ solver.users # <<>>
      BY <2>1, <2>5 DEF TakeUser, SolverInv, Modes, Solved
    <3> QED
      BY <2>1, <2>2, <3>1, SolveUserKeeps
  <2>6. TakeBlock \/ TakeUser
    BY <2>3 DEF Next, RunMem2Reg, RunSimplifyCFG, RunConstantFolding, RunCopyPropagation, RunDCE,
                RunStrengthReduction, RunGVN, RunLICM, RunInline, StartSCCP, Idle, FinishSCCP
  <2> QED
    BY <2>4, <2>5, <2>6
<1> QED
  BY <1>1, SolverStaysInOrder, PTL DEF Spec, LatticeOnlyDescends

-----------------------------------------------------------------------------
(* Trees of immediate dominators *)

\* A tree: the parent of a block other than the root e has a smaller number
IsTree(t, e, number) ==
    /\ t \in [DOMAIN t -> DOMAIN t]
    /\ DOMAIN t \subseteq DOMAIN number
    /\ e \in DOMAIN t /\ t[e] = e
    /\ \A b \in DOMAIN t : number[b] \in Nat /\ number[e] <= number[b]
    /\ \A b, c \in DOMAIN t : number[b] = number[c] => b = c
    /\ \A b \in DOMAIN t \ {e} : number[t[b]] < number[b]

\* A block is above itself, and above it is what is above its parent.
LEMMA AboveIs ==
    ASSUME NEW t, NEW e, NEW number, IsTree(t, e, number)
    PROVE  /\ Dominators(t, e) = {e}
           /\ \A b \in DOMAIN t \ {e} : Dominators(t, b) = {b} \cup Dominators(t, t[b])
           /\ \A b \in DOMAIN t : Dominators(t, b) \in SUBSET DOMAIN t
<1> DEFINE K == DOMAIN t
           V == SUBSET K
           E == [c \in K |-> [u \in [K -> V] |-> {c} \cup IF t[c] = c THEN {} ELSE u[t[c]]]]
           up[c \in K] == {c} \cup IF t[c] = c THEN {} ELSE up[t[c]]
<1>1. \A c \in K : t[c] \in K /\ number[c] \in Nat /\ (t[c] # c => number[t[c]] < number[c])
  BY DEF IsTree
<1>2. IsRecursionBy(number, E, K, V)
  <2>1. V # {} /\ \A c \in K : number[c] \in Nat
    BY <1>1
  <2>2. E \in [K -> [[K -> V] -> V]]
    <3>1. ASSUME NEW c \in K, NEW u \in [K -> V]
          PROVE  {c} \cup (IF t[c] = c THEN {} ELSE u[t[c]]) \in V
      BY <1>1
    <3> QED
      BY <3>1
  <2>3. ASSUME NEW c \in K, NEW u \in [K -> V], NEW w \in [K -> V],
               \A d \in K : number[d] < number[c] => u[d] = w[d]
        PROVE  E[c][u] = E[c][w]
    <3>1. t[c] # c => u[t[c]] = w[t[c]]
      BY <1>1, <2>3
    <3> QED
      BY <3>1
  <2> HIDE DEF K, V, E
  <2> QED
    BY <2>1, <2>2, <2>3 DEF IsRecursionBy
<1>3. PICK u \in [K -> V] : \A c \in K : u[c] = E[c][u]
  <2> HIDE DEF K, V, E
  <2> QED
    BY <1>2, RecursionByExists
<1>4. u = [c \in K |-> {c} \cup IF t[c] = c THEN {} ELSE u[t[c]]]
  BY <1>3
<1>5. up = [c \in K |-> {c} \cup IF t[c] = c THEN {} ELSE up[t[c]]]
  BY <1>4, Zenon
<1>6. \A b \in K : Dominators(t, b) = up[b]
  BY Zenon DEF Dominators
<1>7. \A b \in K : Dominators(t, b) = {b} \cup IF t[b] = b THEN {} ELSE Dominators(t, t[b])
  <2> HIDE DEF up
  <2> SUFFICES ASSUME NEW b \in K
               PROVE  Dominators(t, b) = {b} \cup IF t[b] = b THEN {} ELSE Dominators(t, t[b])
    OBVIOUS
  <2>1. up[b] = {b} \cup IF t[b] = b THEN {} ELSE up[t[b]]
    BY <1>5
  <2>2. Dominators(t, b) = up[b] /\ Dominators(t, t[b]) = up[t[b]]
    BY <1>1, <1>6
  <2> QED
    BY <2>1, <2>2
<1> DEFINE S == {b \in K : Dominators(t, b) \in SUBSET K}
<1>8. ASSUME NEW b \in K, \A c \in K : number[c] < number[b] => c \in S PROVE b \in S
  <2>1. t[b] # b => Dominators(t, t[b]) \in SUBSET K
    BY <1>1, <1>8
  <2>2. Dominators(t, b) = {b} \cup IF t[b] = b THEN {} ELSE Dominators(t, t[b])
    BY <1>7
  <2> QED
    BY <2>1, <2>2
<1>9. K \subseteq S
  <2> HIDE DEF S, K
  <2>1. \A b \in K : number[b] \in Nat
    BY <1>1
  <2>2. \A b \in K : (\A c \in K : number[c] < number[b] => c \in S) => b \in S
    BY <1>8
  <2> QED
    BY <2>1, <2>2, ByMeasure
<1>10. Dominators(t, e) = {e}
  <2>1. e \in K /\ t[e] = e
    BY DEF IsTree
  <2> QED
    BY <1>7, <2>1
<1>11. \A b \in K \ {e} : t[b] # b
  <2> SUFFICES ASSUME NEW b \in K \ {e} PROVE t[b] # b
    OBVIOUS
  <2>1. number[t[b]] < number[b] /\ number[b] \in Nat
    BY DEF IsTree
  <2> QED
    BY <2>1
<1> HIDE DEF up
<1> QED
  BY <1>7, <1>9, <1>10, <1>11

\* The blocks above a block form a chain from it to the root
IsChain(t, e, number, b) ==
    /\ b \in Dominators(t, b) /\ e \in Dominators(t, b)
    /\ \A c \in Dominators(t, b) :
         /\ c \in DOMAIN t
         /\ c = b \/ number[c] < number[b]
         /\ Dominators(t, c) \subseteq Dominators(t, b)
         /\ \A d \in Dominators(t, b) : number[c] <= number[d] => c \in Dominators(t, d)

\* They do in every tree.
LEMMA AboveIsChain ==
    ASSUME NEW t, NEW e, NEW number, IsTree(t, e, number)
    PROVE  \A b \in DOMAIN t : IsChain(t, e, number, b)
<1> DEFINE K == DOMAIN t
           S == {b \in K : IsChain(t, e, number, b)}
<1>1. \A b \in K : number[b] \in Nat
  BY DEF IsTree
<1>2. ASSUME NEW b \in K, \A c \in K : number[c] < number[b] => c \in S PROVE IsChain(t, e, number, b)
  <2>1. CASE b = e
    <3>1. Dominators(t, b) = {b}
      BY <2>1, AboveIs
    <3> QED
      BY <2>1, <3>1 DEF IsChain
  <2>2. CASE b # e
    <3> DEFINE p == t[b]
    <3>1. p \in K /\ number[p] < number[b]
      BY <2>2 DEF IsTree
    <3>2. IsChain(t, e, number, p)
      BY <1>2, <3>1
    <3>3. Dominators(t, b) = {b} \cup Dominators(t, p)
      BY <2>2, AboveIs
    <3> HIDE DEF p, S
    <3>4. \A c \in Dominators(t, p) : c \in K /\ number[c] < number[b] /\ number[c] \in Nat /\ c # b
      <4> SUFFICES ASSUME NEW c \in Dominators(t, p)
                   PROVE  c \in K /\ number[c] < number[b] /\ number[c] \in Nat /\ c # b
        OBVIOUS
      <4>1. c \in K /\ (c = p \/ number[c] < number[p])
        BY <3>2 DEF IsChain
      <4>2. number[c] \in Nat /\ number[p] \in Nat /\ number[b] \in Nat
        BY <1>1, <3>1, <4>1
      <4>3. number[c] < number[b]
        BY <3>1, <4>1, <4>2
      <4> QED
        BY <4>1, <4>2, <4>3
    <3>5. b \in Dominators(t, b) /\ e \in Dominators(t, b)
      BY <3>2, <3>3 DEF IsChain
    <3>6. ASSUME NEW c \in Dominators(t, b)
          PROVE  /\ c \in K
                 /\ c = b \/ number[c] < number[b]
                 /\ Dominators(t, c) \subseteq Dominators(t, b)
      BY <3>2, <3>3, <3>4 DEF IsChain
    <3>7. ASSUME NEW c \in Dominators(t, b), NEW d \in Dominators(t, b), number[c] <= number[d]
          PROVE  c \in Dominators(t, d)
      <4>1. CASE d = b
        BY <4>1
      <4>2. CASE d # b /\ c # b
        BY <3>2, <3>3, <3>7, <4>2 DEF IsChain
      <4>3. CASE d # b /\ c = b
        <5>1. number[d] < number[b] /\ number[d] \in Nat /\ number[b] \in Nat
          BY <1>1, <3>3, <3>4, <4>3
        <5> QED
          BY <3>7, <4>3, <5>1
      <4> QED
        BY <4>1, <4>2, <4>3
    <3> QED
      BY <3>5, <3>6, <3>7 DEF IsChain
  <2> QED
    BY <2>1, <2>2
<1> HIDE DEF K
<1>3. \A b \in K : (\A c \in K : number[c] < number[b] => c \in S) => b \in S
  BY <1>2
<1>4. K \subseteq S
  <2> HIDE DEF S
  <2> QED
    BY <1>1, <1>3, ByMeasure
<1> QED
  BY <1>4 DEF K

\* The walks up from two blocks meet at a block, and above it is what is above both.
\* What every set of dominators holds that a block's parent keeps, holds there.
LEMMA MeetIs ==
    ASSUME NEW t, NEW e, NEW number, IsTree(t, e, number), NEW a \in DOMAIN t, NEW b \in DOMAIN t
    PROVE  LET m == Intersect(t, number, a, b)
           IN m \in DOMAIN t /\ Dominators(t, m) = Dominators(t, a) \cap Dominators(t, b)
<1> DEFINE K == DOMAIN t
           P == K \X K
           mu == [p \in P |-> number[p[1]] + number[p[2]]]
           E == [p \in P |-> [u \in [P -> K] |->
                  IF p[1] = p[2] THEN p[1]
                  ELSE IF number[p[1]] > number[p[2]] THEN u[<<t[p[1]], p[2]>>]
                  ELSE u[<<p[1], t[p[2]]>>]]]
           meet[p \in P] ==
             IF p[1] = p[2] THEN p[1]
             ELSE IF number[p[1]] > number[p[2]] THEN meet[<<t[p[1]], p[2]>>]
             ELSE meet[<<p[1], t[p[2]]>>]
<1>1. /\ \A c \in K : t[c] \in K /\ number[c] \in Nat /\ number[t[c]] \in Nat
      /\ \A c, d \in K : number[c] > number[d] => c # e /\ number[t[c]] < number[c]
      /\ \A c, d \in K : c = d \/ number[c] > number[d] \/ number[d] > number[c]
  <2>1. \A c \in K : t[c] \in K /\ number[c] \in Nat /\ number[t[c]] \in Nat
    BY DEF IsTree
  <2>2. ASSUME NEW c \in K, NEW d \in K, number[c] > number[d] PROVE c # e /\ number[t[c]] < number[c]
    <3>1. number[e] <= number[d] /\ e \in K
      BY DEF IsTree
    <3>2. c # e
      BY <2>1, <2>2, <3>1
    <3> QED
      BY <3>2 DEF IsTree
  <2>3. ASSUME NEW c \in K, NEW d \in K PROVE c = d \/ number[c] > number[d] \/ number[d] > number[c]
    BY <2>1 DEF IsTree
  <2> QED
    BY <2>1, <2>2, <2>3
<1>2. \A p \in P : p[1] \in K /\ p[2] \in K /\ p = <<p[1], p[2]>>
  OBVIOUS
<1>3. ASSUME NEW p \in P
      PROVE  /\ mu[p] \in Nat
             /\ p[1] # p[2] /\ number[p[1]] > number[p[2]] =>
                  <<t[p[1]], p[2]>> \in P /\ mu[<<t[p[1]], p[2]>>] < mu[p]
             /\ p[1] # p[2] /\ ~(number[p[1]] > number[p[2]]) =>
                  <<p[1], t[p[2]]>> \in P /\ mu[<<p[1], t[p[2]]>>] < mu[p]
  BY <1>1, <1>2
<1>4. IsRecursionBy(mu, E, P, K)
  <2>1. K # {} /\ \A p \in P : mu[p] \in Nat
    BY <1>3
  <2>2. E \in [P -> [[P -> K] -> K]]
    BY <1>2, <1>3
  <2>3. ASSUME NEW p \in P, NEW u \in [P -> K], NEW w \in [P -> K],
               \A q \in P : mu[q] < mu[p] => u[q] = w[q]
        PROVE  E[p][u] = E[p][w]
    BY <1>3, <2>3
  <2> HIDE DEF K, P, mu, E
  <2> QED
    BY <2>1, <2>2, <2>3 DEF IsRecursionBy
<1>5. PICK u \in [P -> K] : \A p \in P : u[p] = E[p][u]
  <2> HIDE DEF K, P, mu, E
  <2> QED
    BY <1>4, RecursionByExists
<1>6. u = [p \in P |-> IF p[1] = p[2] THEN p[1]
                      ELSE IF number[p[1]] > number[p[2]] THEN u[<<t[p[1]], p[2]>>]
                      ELSE u[<<p[1], t[p[2]]>>]]
  BY <1>5
<1>7. meet = [p \in P |-> IF p[1] = p[2] THEN p[1]
                         ELSE IF number[p[1]] > number[p[2]] THEN meet[<<t[p[1]], p[2]>>]
                         ELSE meet[<<p[1], t[p[2]]>>]]
  BY <1>6, Zenon
<1>10. Intersect(t, number, a, b) = meet[<<a, b>>]
  BY Zenon DEF Intersect
<1> DEFINE Above(c) == Dominators(t, c)
           Right(p) == meet[p] \in K /\ Above(meet[p]) = Above(p[1]) \cap Above(p[2])
           S == {p \in P : Right(p)}
<1>11. ASSUME NEW c \in K, NEW d \in K, number[c] > number[d]
       PROVE  Above(c) = {c} \cup Above(t[c]) /\ c \notin Above(d)
  <2>1. Above(c) = {c} \cup Above(t[c])
    BY <1>1, <1>11, AboveIs
  <2>2. IsChain(t, e, number, d)
    BY AboveIsChain
  <2>3. number[c] \in Nat /\ number[d] \in Nat
    BY <1>1
  <2>4. c # d /\ ~(number[c] < number[d])
    BY <1>11, <2>3
  <2> QED
    BY <2>1, <2>2, <2>4 DEF IsChain
<1>12. ASSUME NEW p \in P, \A q \in P : mu[q] < mu[p] => q \in S PROVE p \in S
  <2> DEFINE c == p[1]
             d == p[2]
  <2>0. c \in K /\ d \in K /\ meet[p] = IF c = d THEN c
                                         ELSE IF number[c] > number[d] THEN meet[<<t[c], d>>]
                                         ELSE meet[<<c, t[d]>>]
    <3>1. meet[p] = IF c = d THEN c
                    ELSE IF number[c] > number[d] THEN meet[<<t[c], d>>]
                    ELSE meet[<<c, t[d]>>]
      <4> HIDE DEF P, K, meet
      <4> QED
        BY <1>7
    <3> QED
      BY <1>2, <3>1
  <2>1. CASE c = d
    <3>1. meet[p] = c
      <4> HIDE DEF P, K, meet
      <4> QED
        BY <2>0, <2>1
    <3> HIDE DEF P, K, meet, Above
    <3> QED
      BY <2>0, <2>1, <3>1
  <2>2. CASE c # d /\ number[c] > number[d]
    <3> DEFINE q == <<t[c], d>>
    <3>1. meet[p] = meet[q]
      <4> HIDE DEF P, K, meet
      <4> QED
        BY <2>0, <2>2
    <3>2. q \in S /\ q[1] = t[c] /\ q[2] = d
      <4> HIDE DEF mu, P, K, meet, S
      <4> QED
        BY <1>3, <1>12, <2>2
    <3>3. meet[q] \in K /\ Above(meet[q]) = Above(t[c]) \cap Above(d)
      <4> HIDE DEF P, K, meet, Above, q
      <4> QED
        BY <3>2
    <3>4. Above(c) = {c} \cup Above(t[c]) /\ c \notin Above(d)
      <4> HIDE DEF K, Above, c, d
      <4> QED
        BY <1>11, <2>0, <2>2
    <3>5. meet[p] \in K /\ Above(meet[p]) = Above(c) \cap Above(d)
      <4> HIDE DEF P, K, meet, Above, q, c, d
      <4> QED
        BY <3>1, <3>3, <3>4
    <3> HIDE DEF P, K, meet, Above, q
    <3> QED
      BY <3>5
  <2>3. CASE c # d /\ ~(number[c] > number[d])
    <3> DEFINE q == <<c, t[d]>>
    <3>1. meet[p] = meet[q]
      <4> HIDE DEF P, K, meet
      <4> QED
        BY <2>0, <2>3
    <3>2. q \in S /\ q[1] = c /\ q[2] = t[d]
      <4> HIDE DEF mu, P, K, meet, S
      <4> QED
        BY <1>3, <1>12, <2>3
    <3>3. meet[q] \in K /\ Above(meet[q]) = Above(c) \cap Above(t[d])
      <4> HIDE DEF P, K, meet, Above, q
      <4> QED
        BY <3>2
    <3>4. Above(d) = {d} \cup Above(t[d]) /\ d \notin Above(c)
      <4> HIDE DEF K, Above, c, d
      <4> QED
        BY <1>1, <1>11, <2>0, <2>3
    <3>5. meet[p] \in K /\ Above(meet[p]) = Above(c) \cap Above(d)
      <4> HIDE DEF P, K, meet, Above, q, c, d
      <4> QED
        BY <3>1, <3>3, <3>4
    <3> HIDE DEF P, K, meet, Above, q
    <3> QED
      BY <3>5
  <2> QED
    BY <2>1, <2>2, <2>3
<1>13. P \subseteq S
  <2> HIDE DEF P, S, K, meet, mu
  <2>1. \A p \in P : mu[p] \in Nat
    BY <1>3
  <2>2. \A p \in P : (\A q \in P : mu[q] < mu[p] => q \in S) => p \in S
    BY <1>12
  <2> QED
    BY <2>1, <2>2, ByMeasure
<1>14. <<a, b>> \in S /\ <<a, b>>[1] = a /\ <<a, b>>[2] = b
  <2> HIDE DEF S
  <2> QED
    BY <1>13
<1> HIDE DEF meet, Above
<1>15. meet[<<a, b>>] \in K /\ Above(meet[<<a, b>>]) = Above(a) \cap Above(b)
  BY <1>14
<1> QED
  BY <1>10, <1>15 DEF Above

\* What a family of sets loses from a block to its parent is the block at most
GoesUp(t, e, T) ==
    /\ T[e] \subseteq {e}
    /\ \A b \in DOMAIN t \ {e} : T[b] \ {b} \subseteq T[t[b]]

\* Then its members are above the block, and on the way up to one of them it is there.
LEMMA MembersAreAbove ==
    ASSUME NEW t, NEW e, NEW number, IsTree(t, e, number), NEW T, GoesUp(t, e, T)
    PROVE  \A a \in DOMAIN t : /\ T[a] \subseteq Dominators(t, a)
                             /\ \A m \in Dominators(t, a) :
                                  T[a] \cap Dominators(t, m) \subseteq T[m]
<1> DEFINE K == DOMAIN t
           Goal(a) == /\ T[a] \subseteq Dominators(t, a)
                      /\ \A m \in Dominators(t, a) : T[a] \cap Dominators(t, m) \subseteq T[m]
           S == {a \in K : Goal(a)}
<1>1. \A b \in K : number[b] \in Nat
  BY DEF IsTree
<1>2. ASSUME NEW a \in K, \A c \in K : number[c] < number[a] => c \in S PROVE Goal(a)
  <2>1. CASE a = e
    <3>1. Dominators(t, a) = {e}
      BY <2>1, AboveIs
    <3> QED
      BY <2>1, <3>1 DEF GoesUp
  <2>2. CASE a # e
    <3>1. t[a] \in K /\ number[t[a]] < number[a]
      BY <2>2 DEF IsTree
    <3>2. Goal(t[a])
      BY <1>2, <3>1
    <3>3. Dominators(t, a) = {a} \cup Dominators(t, t[a])
      BY <2>2, AboveIs
    <3>4. T[a] \ {a} \subseteq T[t[a]]
      BY <2>2 DEF GoesUp
    <3>5. ASSUME NEW m \in Dominators(t, t[a]) PROVE a \notin Dominators(t, m)
      <4>1. IsChain(t, e, number, t[a])
        BY <3>1, AboveIsChain
      <4>2. m \in K /\ (m = t[a] \/ number[m] < number[t[a]])
        BY <4>1 DEF IsChain
      <4>3. IsChain(t, e, number, m)
        BY <4>2, AboveIsChain
      <4>4. number[m] < number[a]
        BY <1>1, <3>1, <4>2
      <4>5. ~(number[a] < number[m]) /\ a # m
        BY <1>1, <4>2, <4>4
      <4> QED
        BY <4>3, <4>5 DEF IsChain
    <3> QED
      BY <3>2, <3>3, <3>4, <3>5
  <2> QED
    BY <2>1, <2>2
<1> HIDE DEF K, Goal
<1>3. \A b \in K : (\A c \in K : number[c] < number[b] => c \in S) => b \in S
  BY <1>2
<1>4. K \subseteq S
  <2> HIDE DEF S
  <2> QED
    BY <1>1, <1>3, ByMeasure
<1> QED
  BY <1>4 DEF K, Goal

-----------------------------------------------------------------------------
(* One block of a sweep *)

\* What NewIdom finds for the blocks known of the predecessors: nothing, or where the
\* walks up from them meet
Meets(t, known, found) ==
    IF known = {} THEN found = {}
    ELSE \E m \in DOMAIN t :
           found = {m} /\ \A d : d \in Dominators(t, m) <=> \A p \in known : d \in Dominators(t, p)

\* One predecessor more
Joined(t, number, found, p) ==
    IF found = {} THEN {p} ELSE {Intersect(t, number, p, d) : d \in found}

\* joins where the walks up from the others meet.
LEMMA MeetsOneMore ==
    ASSUME NEW t, NEW e, NEW number, IsTree(t, e, number), NEW known \in SUBSET DOMAIN t, NEW found,
           Meets(t, known, found), NEW p \in DOMAIN t
    PROVE  Meets(t, known \cup {p}, Joined(t, number, found, p))
<1>1. CASE known = {}
  <2>1. found = {} /\ known \cup {p} = {p}
    BY <1>1 DEF Meets
  <2>2. \A d : d \in Dominators(t, p) <=> \A q \in {p} : d \in Dominators(t, q)
    OBVIOUS
  <2> QED
    BY <2>1, <2>2 DEF Meets, Joined
<1>2. CASE known # {}
  <2>1. PICK m \in DOMAIN t :
          found = {m} /\ \A d : d \in Dominators(t, m) <=> \A q \in known : d \in Dominators(t, q)
    BY <1>2 DEF Meets
  <2> DEFINE w == Intersect(t, number, p, m)
  <2>2. w \in DOMAIN t /\ Dominators(t, w) = Dominators(t, p) \cap Dominators(t, m)
    BY MeetIs
  <2> HIDE DEF w
  <2>3. \A d : d \in Dominators(t, w) <=> \A q \in known \cup {p} : d \in Dominators(t, q)
    BY <2>1, <2>2
  <2>4. {Intersect(t, number, p, d) : d \in found} = {w} /\ found # {}
    BY <2>1 DEF w
  <2>5. known \cup {p} # {}
    OBVIOUS
  <2> QED
    BY <2>2, <2>3, <2>4, <2>5 DEF Meets, Joined
<1> QED
  BY <1>1, <1>2

\* The meet of the predecessors that are in the tree.
LEMMA NewIdomIs ==
    ASSUME NEW t, NEW e, NEW number, IsTree(t, e, number),
           NEW f, NEW b, NEW X, f.preds[b] \in Seq(X)
    PROVE  Meets(t, ToSet(f.preds[b]) \cap DOMAIN t, NewIdom(f, number, t, b))
<1> DEFINE K == DOMAIN t
           s == f.preds[b]
           N == Len(s)
           D == {{}} \cup {{m} : m \in K}
           Step(found, p) == IF p \notin DOMAIN t THEN found
                             ELSE IF found = {} THEN {p}
                             ELSE {Intersect(t, number, p, d) : d \in found}
           F == [i \in 1 .. N |-> [found \in D |-> Step(found, s[i])]]
           g[n \in 0 .. N] ==
             IF n = 0 THEN {} ELSE CHOOSE r \in {Step(prefix, s[n]) : prefix \in {g[n - 1]}} : TRUE
<1>0. N \in Nat /\ DOMAIN s = 1 .. N
  OBVIOUS
<1>1. NewIdom(f, number, t, b) = g[N]
  BY Zenon DEF NewIdom, PrefixByPrefix
<1>2. ASSUME NEW found \in D, NEW p PROVE Step(found, p) \in D
  <2>1. CASE p \notin DOMAIN t \/ found = {}
    BY <2>1
  <2>2. CASE p \in DOMAIN t /\ found # {}
    <3>1. PICK m \in K : found = {m}
      BY <2>2
    <3>2. Step(found, p) = {Intersect(t, number, p, m)}
      BY <2>2, <3>1
    <3>3. Intersect(t, number, p, m) \in K
      BY <2>2, MeetIs
    <3> QED
      BY <3>2, <3>3
  <2> QED
    BY <2>1, <2>2
<1>3. PICK h : IsLoop(h, N, D, {}, F)
  <2>1. F \in [1 .. N -> [D -> D]]
    <3> HIDE DEF Step, D, N, s, g
    <3> QED
      BY <1>2
  <2>2. {} \in D
    OBVIOUS
  <2> HIDE DEF D, F, N
  <2> QED
    BY <1>0, <2>1, <2>2, LoopExists
<1>4. \A u, n : (CHOOSE r \in {Step(prefix, s[n]) : prefix \in {u[n - 1]}} : TRUE) = Step(u[n - 1], s[n])
  <2> HIDE DEF Step
  <2> QED
    OBVIOUS
<1>5. h = [n \in 0 .. N |->
             IF n = 0 THEN {} ELSE CHOOSE r \in {Step(prefix, s[n]) : prefix \in {h[n - 1]}} : TRUE]
  <2>1. h \in [0 .. N -> D] /\ h[0] = {} /\ \A i \in 1 .. N : h[i] = F[i][h[i - 1]]
    BY <1>3 DEF IsLoop
  <2>2. ASSUME NEW n \in 0 .. N, n # 0 PROVE h[n] = Step(h[n - 1], s[n])
    <3>1. n \in 1 .. N /\ n - 1 \in 0 .. N
      BY <1>0, <2>2
    <3>2. h[n - 1] \in D
      BY <2>1, <3>1
    <3> HIDE DEF Step, D
    <3> QED
      BY <2>1, <3>1, <3>2
  <2> HIDE DEF Step, D, F, N
  <2> QED
    BY <1>4, <2>1, <2>2
<1>6. g = [n \in 0 .. N |->
             IF n = 0 THEN {} ELSE CHOOSE r \in {Step(prefix, s[n]) : prefix \in {g[n - 1]}} : TRUE]
  BY <1>5, Zenon
<1> HIDE DEF g
<1>7. g[0] = {} /\ \A n \in 1 .. N : g[n] = Step(g[n - 1], s[n])
  <2> HIDE DEF Step, s
  <2>1. g[0] = {}
    BY <1>0, <1>6
  <2>2. ASSUME NEW n \in 1 .. N PROVE g[n] = Step(g[n - 1], s[n])
    <3>1. n \in 0 .. N /\ n # 0
      BY <1>0
    <3>2. g[n] = CHOOSE r \in {Step(prefix, s[n]) : prefix \in {g[n - 1]}} : TRUE
      <4> HIDE DEF N
      <4> QED
        BY <1>6, <3>1
    <3> HIDE DEF N
    <3> QED
      BY <1>4, <3>2
  <2> QED
    BY <2>1, <2>2
<1> DEFINE Known(i) == {s[j] : j \in 1 .. i} \cap K
           S == {i \in 0 .. N : Meets(t, Known(i), g[i])}
<1>8. 0 \in S
  <2>1. Known(0) = {}
    OBVIOUS
  <2> QED
    BY <1>0, <1>7, <2>1 DEF Meets
<1>9. ASSUME NEW i \in 1 .. N, i - 1 \in S PROVE i \in S
  <2>1. i \in 0 .. N /\ Meets(t, Known(i - 1), g[i - 1]) /\ g[i] = Step(g[i - 1], s[i])
    <3> HIDE DEF Step, Known, N, s
    <3> QED
      BY <1>0, <1>7, <1>9
  <2>2. 1 .. i = (1 .. i - 1) \cup {i}
    BY <1>0
  <2>3. CASE s[i] \notin K
    <3>1. Known(i) = Known(i - 1)
      BY <2>2, <2>3
    <3>2. g[i] = g[i - 1]
      BY <2>1, <2>3
    <3> QED
      BY <2>1, <3>1, <3>2
  <2>4. CASE s[i] \in K
    <3>1. Known(i) = Known(i - 1) \cup {s[i]}
      BY <2>2, <2>4
    <3>2. g[i] = IF g[i - 1] = {} THEN {s[i]} ELSE {Intersect(t, number, s[i], d) : d \in g[i - 1]}
      BY <2>1, <2>4
    <3>3. Known(i - 1) \in SUBSET DOMAIN t
      OBVIOUS
    <3>4. Meets(t, Known(i), g[i])
      <4> DEFINE x == Known(i - 1)
                 y == g[i - 1]
                 z == s[i]
      <4>1. x \in SUBSET DOMAIN t /\ Meets(t, x, y) /\ z \in DOMAIN t
        BY <2>1, <2>4, <3>3
      <4> HIDE DEF x, y, z, Known, Step, D, F, N, S
      <4>2. Meets(t, x \cup {z}, Joined(t, number, y, z))
        BY <4>1, MeetsOneMore
      <4> QED
        BY <3>1, <3>2, <4>2 DEF x, y, z, Joined
    <3> QED
      BY <2>1, <3>4
  <2> QED
    BY <2>3, <2>4
<1>10. N \in S
  <2> HIDE DEF S
  <2>1. \A i \in 0 .. N : i \in S
    BY <1>0, <1>8, <1>9, Rounds
  <2> QED
    BY <1>0, <2>1
<1>11. Known(N) = ToSet(s) \cap K
  BY <1>0 DEF ToSet
<1> QED
  BY <1>1, <1>10, <1>11

\* What the sweeps need of a function and of the numbers of its blocks: the entry has
\* the smallest, and every other block a predecessor with a smaller one
Numbered(f, number) ==
    /\ number \in [Blocks(f) -> Nat]
    /\ \A b, c \in Blocks(f) : number[b] = number[c] => b = c
    /\ Entry(f) \in Blocks(f) /\ \A b \in Blocks(f) : number[Entry(f)] <= number[b]
    /\ f.preds \in [Blocks(f) -> Seq(Blocks(f))]
    /\ \A b \in Blocks(f) \ {Entry(f)} : \E p \in ToSet(f.preds[b]) : number[p] < number[b]

Known(f, t, b) == ToSet(f.preds[b]) \cap DOMAIN t

\* From tree t to tree u the parent of b has changed, and it is where the walks up
\* from the known predecessors of b meet in t
IsLowered(f, number, t, b, u) ==
    /\ IsTree(u, Entry(f), number)
    /\ DOMAIN u = DOMAIN t \cup {b}
    /\ \A x \in DOMAIN t \ {b} : u[x] = t[x]
    /\ u[b] \in DOMAIN t /\ number[u[b]] < number[b]
    /\ \A d : d \in Dominators(t, u[b]) <=> \A p \in Known(f, t, b) : d \in Dominators(t, p)

\* This is what a block of a sweep does whose predecessor with a smaller number is in
\* the tree.
LEMMA LowerIs ==
    ASSUME NEW f, NEW number, Numbered(f, number), NEW t, IsTree(t, Entry(f), number),
           NEW b \in Blocks(f) \ {Entry(f)}, \E p \in Known(f, t, b) : number[p] < number[b]
    PROVE  IsLowered(f, number, t, b, LowerIdom(f, number, t, b))
<1> DEFINE e == Entry(f)
           found == NewIdom(f, number, t, b)
           known == Known(f, t, b)
           u == LowerIdom(f, number, t, b)
<1>1. Meets(t, known, found)
  <2>1. f.preds[b] \in Seq(Blocks(f))
    BY DEF Numbered
  <2> QED
    BY <2>1, NewIdomIs DEF Known
<1>2. PICK p \in known : number[p] < number[b]
  OBVIOUS
<1>3. PICK m \in DOMAIN t : /\ found = {m}
                            /\ \A d : d \in Dominators(t, m) <=> \A q \in known : d \in Dominators(t, q)
  <2> HIDE DEF known, found
  <2> QED
    BY <1>1, <1>2 DEF Meets
<1>4. m \in Dominators(t, m) /\ m \in Dominators(t, p) /\ p \in DOMAIN t
  <2>1. IsChain(t, e, number, m)
    BY AboveIsChain
  <2>2. p \in DOMAIN t
    BY DEF Known
  <2>3. m \in Dominators(t, m)
    BY <2>1 DEF IsChain
  <2> HIDE DEF known
  <2> QED
    BY <1>3, <2>2, <2>3
<1>5. number[m] < number[b]
  <2>1. m = p \/ number[m] < number[p]
    BY <1>4, AboveIsChain DEF IsChain
  <2>2. number[m] \in Nat /\ number[p] \in Nat /\ number[b] \in Nat
    BY <1>4 DEF IsTree, Numbered
  <2> QED
    BY <1>2, <2>1, <2>2
<1>7. u = [x \in DOMAIN t \cup {b} |-> IF x = b THEN m ELSE t[x]]
  <2>1. (CHOOSE d \in found : TRUE) = m /\ found # {} /\ b # e
    BY <1>3
  <2> HIDE DEF found
  <2> QED
    BY <2>1 DEF LowerIdom, found
<1> HIDE DEF u, known, found
<1>8. DOMAIN u = DOMAIN t \cup {b} /\ u[b] = m /\ \A x \in DOMAIN t \ {b} : u[x] = t[x]
  BY <1>7
<1>9. IsTree(u, e, number)
  <2>1. u \in [DOMAIN u -> DOMAIN u]
    <3>1. \A x \in DOMAIN t : t[x] \in DOMAIN t
      BY DEF IsTree
    <3> QED
      BY <1>7, <3>1
  <2>2. DOMAIN u \subseteq DOMAIN number /\ e \in DOMAIN u /\ u[e] = e
    BY <1>8 DEF IsTree, Numbered
  <2>3. DOMAIN u \subseteq Blocks(f)
    BY <2>2 DEF Numbered
  <2>4. /\ \A x \in DOMAIN u : number[x] \in Nat /\ number[e] <= number[x]
        /\ \A x, y \in DOMAIN u : number[x] = number[y] => x = y
    BY <2>3 DEF Numbered
  <2>5. ASSUME NEW x \in DOMAIN u \ {e} PROVE number[u[x]] < number[x]
    BY <1>5, <1>8 DEF IsTree
  <2> QED
    BY <2>1, <2>2, <2>4, <2>5 DEF IsTree
<1> QED
  BY <1>3, <1>5, <1>8, <1>9 DEF IsLowered, u, known

\* Only what is above b and what is below it may change.
LEMMA LoweredAbove ==
    ASSUME NEW f, NEW number, NEW t, IsTree(t, Entry(f), number), NEW b, b # Entry(f),
           number[b] \in Nat, NEW u, IsLowered(f, number, t, b, u)
    PROVE  /\ \A x \in DOMAIN t : number[x] < number[b] \/ b \notin DOMAIN t =>
                Dominators(u, x) = Dominators(t, x)
           /\ Dominators(u, b) = {b} \cup Dominators(t, u[b])
<1> DEFINE e == Entry(f)
           K == DOMAIN t
           Goal(x) == number[x] < number[b] \/ b \notin K => Dominators(u, x) = Dominators(t, x)
           S == {x \in K : Goal(x)}
<1>1. IsTree(u, e, number) /\ K \subseteq DOMAIN u /\ \A x \in K : number[x] \in Nat
  BY DEF IsLowered, IsTree
<1>2. ASSUME NEW x \in K, \A y \in K : number[y] < number[x] => y \in S,
             number[x] < number[b] \/ b \notin K
      PROVE  Dominators(u, x) = Dominators(t, x)
  <2>1. CASE x = e
    BY <1>1, <2>1, AboveIs
  <2>2. CASE x # e
    <3>1. x # b
      BY <1>1, <1>2
    <3>2. u[x] = t[x]
      BY <3>1 DEF IsLowered
    <3>3. t[x] \in K /\ number[t[x]] < number[x]
      BY <2>2 DEF IsTree
    <3>4. number[t[x]] < number[b] \/ b \notin K
      BY <1>1, <1>2, <3>3
    <3>5. Dominators(u, t[x]) = Dominators(t, t[x])
      BY <1>2, <3>3, <3>4
    <3>6. Dominators(t, x) = {x} \cup Dominators(t, t[x])
      BY <2>2, AboveIs
    <3>7. Dominators(u, x) = {x} \cup Dominators(u, u[x])
      BY <1>1, <2>2, AboveIs
    <3> QED
      BY <3>2, <3>5, <3>6, <3>7
  <2> QED
    BY <2>1, <2>2
<1>3. \A x \in K : (\A y \in K : number[y] < number[x] => y \in S) => x \in S
  BY <1>2
<1>4. K \subseteq S
  <2> HIDE DEF S, K
  <2> QED
    BY <1>1, <1>3, ByMeasure
<1>5. \A x \in K : Goal(x)
  BY <1>4
<1>6. Dominators(u, b) = {b} \cup Dominators(u, u[b])
  <2>1. b \in DOMAIN u \ {e}
    BY DEF IsLowered
  <2> QED
    BY <1>1, <2>1, AboveIs
<1>7. u[b] \in K /\ number[u[b]] < number[b]
  BY DEF IsLowered
<1> QED
  BY <1>5, <1>6, <1>7

\* If b loses blocks above it, those are what any other block may lose, and it has to
\* be below b.
LEMMA LoweredLoses ==
    ASSUME NEW f, NEW number, NEW t, IsTree(t, Entry(f), number), NEW b \in DOMAIN t, b # Entry(f),
           NEW u, IsLowered(f, number, t, b, u), Dominators(u, b) \subseteq Dominators(t, b)
    PROVE  \A x \in DOMAIN t : /\ Dominators(u, x) \subseteq Dominators(t, x)
                               /\ \A r \in Dominators(t, x) \ Dominators(u, x) :
                                    b \in Dominators(u, x) /\ r \in Dominators(t, b) /\ number[r] < number[b]
<1> DEFINE e == Entry(f)
           K == DOMAIN t
           Goal(x) == /\ Dominators(u, x) \subseteq Dominators(t, x)
                      /\ \A r \in Dominators(t, x) \ Dominators(u, x) :
                           b \in Dominators(u, x) /\ r \in Dominators(t, b) /\ number[r] < number[b]
           S == {x \in K : Goal(x)}
<1>1. IsTree(u, e, number) /\ K = DOMAIN u /\ \A x \in K : number[x] \in Nat
  BY DEF IsLowered, IsTree
<1>2. ASSUME NEW x \in K, \A y \in K : number[y] < number[x] => y \in S
      PROVE  Goal(x)
  <2>1. CASE x = e
    BY <1>1, <2>1, AboveIs
  <2>2. CASE x = b
    <3>1. IsChain(t, e, number, b) /\ IsChain(u, e, number, b)
      BY <1>1, AboveIsChain
    <3> QED
      BY <2>2, <3>1 DEF IsChain
  <2>3. CASE x # e /\ x # b
    <3>1. u[x] = t[x]
      BY <2>3 DEF IsLowered
    <3>2. t[x] \in K /\ number[t[x]] < number[x]
      BY <2>3 DEF IsTree
    <3>3. Goal(t[x])
      BY <1>2, <3>2
    <3>4. Dominators(t, x) = {x} \cup Dominators(t, t[x])
      BY <2>3, AboveIs
    <3>5. Dominators(u, x) = {x} \cup Dominators(u, u[x])
      BY <1>1, <2>3, AboveIs
    <3> HIDE DEF K, S
    <3> QED
      BY <3>1, <3>3, <3>4, <3>5
  <2> QED
    BY <2>1, <2>2, <2>3
<1> HIDE DEF Goal
<1>3. \A x \in K : (\A y \in K : number[y] < number[x] => y \in S) => x \in S
  BY <1>2
<1>4. K \subseteq S
  <2> HIDE DEF S, K
  <2> QED
    BY <1>1, <1>3, ByMeasure
<1> QED
  BY <1>4 DEF Goal

-----------------------------------------------------------------------------
(* The sweeps *)

\* What every set of dominators satisfies: those of a block dominate its predecessors
Necessary(f, T) ==
    /\ T[Entry(f)] \subseteq {Entry(f)}
    /\ \A b \in Blocks(f) \ {Entry(f)} : \A p \in ToSet(f.preds[b]) : T[b] \ {b} \subseteq T[p]

\* r[a][k] are blocks that k edges reach from the entry without passing a
Reaching(f, r, n) ==
    \A a \in Blocks(f) :
      /\ r[a][0] \subseteq {Entry(f)}
      /\ \A k \in 0 .. n : a \notin r[a][k]
      /\ \A k \in 1 .. n : \A x \in r[a][k] \ r[a][k - 1] :
           \E c \in r[a][k - 1] : c \in ToSet(f.preds[x])

\* A tree after i blocks of sweep k:
\* the first sweep brings the blocks in;
InTheTree(f, number, k, i, t) ==
    DOMAIN t = IF k = 1 THEN {Entry(f)} \cup {b \in Blocks(f) : number[b] <= i} ELSE Blocks(f)
\* what is above all known predecessors of a block is above the block;
NothingToAdd(f, t) ==
    \A x \in DOMAIN t \ {Entry(f)} : \A d :
      (\A p \in Known(f, t, x) : d \in Dominators(t, p)) => d \in Dominators(t, x)
\* what is above a block is above a predecessor the sweeps come to before it, except
\* that blocks this sweep has passed may have lost it;
StillAbove(f, number, i, t) ==
    \A x \in DOMAIN t \ {Entry(f)} : \A p \in ToSet(f.preds[x]) : number[p] < number[x] =>
      \A a \in Dominators(t, x) \ {x} :
        number[x] <= i \/ number[a] > i => a \in Dominators(t, p)
\* and a block that k edges reach without passing a is not below a.
LeftBehind(f, number, r, k, i, t) ==
    \A a \in Blocks(f) : \A x \in DOMAIN t :
      x \in r[a][k - 1] \/ (x \in r[a][k] /\ number[x] <= i) => a \notin Dominators(t, x)

Swept(f, number, T, r, k, i, t) ==
    /\ IsTree(t, Entry(f), number)
    /\ InTheTree(f, number, k, i, t)
    /\ GoesUp(t, Entry(f), T)
    /\ NothingToAdd(f, t)
    /\ StillAbove(f, number, i, t)
    /\ LeftBehind(f, number, r, k, i, t)

\* In the tree a block's parent changes to where the walks up from its predecessors
\* meet: nothing gets above a block that was not, and what a block lost is not above
\* all its predecessors.
LEMMA LowerKeeps ==
    ASSUME NEW f, NEW number, Numbered(f, number), NEW i, NEW t, IsTree(t, Entry(f), number),
           NEW b \in DOMAIN t, b # Entry(f), DOMAIN t = Blocks(f), number[b] = i + 1, i \in Nat,
           NothingToAdd(f, t), StillAbove(f, number, i, t),
           NEW u, IsLowered(f, number, t, b, u)
    PROVE  /\ \A x \in DOMAIN t : Dominators(u, x) \subseteq Dominators(t, x)
           /\ NothingToAdd(f, u)
           /\ StillAbove(f, number, i + 1, u)
<1> DEFINE e == Entry(f)
           K == DOMAIN t
           Pred(x) == ToSet(f.preds[x])
<1>1. /\ IsTree(u, e, number) /\ DOMAIN u = K
      /\ \A x \in K : number[x] \in Nat /\ Pred(x) \subseteq K /\ Known(f, t, x) = Pred(x) /\ Known(f, u, x) = Pred(x)
  <2>1. IsTree(u, e, number) /\ DOMAIN u = K
    BY DEF IsLowered
  <2>2. \A x \in K : number[x] \in Nat /\ Pred(x) \subseteq K
    BY DEF Numbered, ToSet
  <2> QED
    BY <2>1, <2>2 DEF Known
<1>2. Dominators(u, b) = {b} \cup Dominators(t, u[b])
  BY <1>1, LoweredAbove
<1>3. \A d : d \in Dominators(t, u[b]) <=> \A p \in Pred(b) : d \in Dominators(t, p)
  BY <1>1 DEF IsLowered
<1>4. Dominators(u, b) \subseteq Dominators(t, b)
  <2>1. \A d : (\A p \in Pred(b) : d \in Dominators(t, p)) => d \in Dominators(t, b)
    BY <1>1 DEF NothingToAdd
  <2>2. b \in Dominators(t, b)
    BY AboveIsChain DEF IsChain
  <2> QED
    BY <1>2, <1>3, <2>1, <2>2
<1>5. \A x \in K : /\ Dominators(u, x) \subseteq Dominators(t, x)
                   /\ \A y \in Dominators(t, x) \ Dominators(u, x) :
                        b \in Dominators(u, x) /\ y \in Dominators(t, b) /\ number[y] < number[b]
  BY <1>4, LoweredLoses
<1>6. \A x \in K : number[x] < number[b] => Dominators(u, x) = Dominators(t, x)
  BY <1>1, LoweredAbove
<1>7. NothingToAdd(f, u)
  <2> SUFFICES ASSUME NEW x \in K \ {e}, NEW d, \A p \in Pred(x) : d \in Dominators(u, p)
               PROVE  d \in Dominators(u, x)
    BY <1>1 DEF NothingToAdd
  <2>1. \A p \in Pred(x) : d \in Dominators(t, p)
    BY <1>1, <1>5
  <2>2. CASE x = b
    BY <1>2, <1>3, <2>1, <2>2
  <2>3. CASE x # b
    <3> SUFFICES ASSUME d \notin Dominators(u, x) PROVE FALSE
      OBVIOUS
    <3>1. d \in Dominators(t, x)
      BY <1>1, <2>1 DEF NothingToAdd
    <3>2. b \in Dominators(u, x) /\ number[d] < number[b] /\ b \in Dominators(t, x)
      BY <1>5, <3>1
    <3>3. PICK p \in Pred(x) : number[p] < number[x]
      BY DEF Numbered
    <3>4. b \in Dominators(t, p)
      <4>1. number[b] > i
        OBVIOUS
      <4> QED
        BY <2>3, <3>2, <3>3, <4>1 DEF StillAbove
    <3>5. p \in K /\ number[b] \in Nat
      BY <1>1
    <3>6. b \in Dominators(u, p)
      <4>1. ~(number[b] < number[b])
        BY <3>5
      <4> QED
        BY <1>5, <3>4, <3>5, <4>1
    <3>7. d \in Dominators(u, p)
      OBVIOUS
    <3>8. IsChain(u, e, number, p) /\ IsChain(u, e, number, x) /\ IsChain(u, e, number, b)
      BY <1>1, <3>5, AboveIsChain
    <3>9. d \in K
      BY <1>1, <3>7, <3>8 DEF IsChain
    <3>10. number[d] <= number[b]
      BY <1>1, <3>2, <3>5, <3>9
    <3>11. d \in Dominators(u, b)
      BY <3>6, <3>7, <3>8, <3>10 DEF IsChain
    <3>12. Dominators(u, b) \subseteq Dominators(u, x)
      BY <3>2, <3>8 DEF IsChain
    <3> QED
      BY <3>11, <3>12
  <2> QED
    BY <2>2, <2>3
<1>8. StillAbove(f, number, i + 1, u)
  <2> SUFFICES ASSUME NEW x \in K \ {e}, NEW p \in Pred(x), number[p] < number[x],
                      NEW a \in Dominators(u, x) \ {x}, number[x] <= i + 1 \/ number[a] > i + 1
               PROVE  a \in Dominators(u, p)
    BY <1>1 DEF StillAbove
  <2>1. p \in K /\ number[p] \in Nat /\ number[x] \in Nat /\ number[b] \in Nat
    BY <1>1
  <2>2. a \in Dominators(t, x)
    BY <1>5
  <2>3. a \in K /\ number[a] \in Nat
    <3>1. IsChain(t, e, number, x)
      BY AboveIsChain
    <3> QED
      BY <1>1, <2>2, <3>1 DEF IsChain
  <2>4. CASE number[x] <= i
    <3>1. a \in Dominators(t, p)
      BY <2>2, <2>4 DEF StillAbove
    <3>2. number[p] < number[b]
      BY <2>1, <2>4
    <3> QED
      BY <1>6, <2>1, <3>1, <3>2
  <2>5. CASE number[x] = i + 1
    <3>1. x = b
      BY <2>5 DEF Numbered
    <3>2. a \in Dominators(t, p)
      BY <1>2, <1>3, <3>1
    <3> QED
      BY <1>6, <2>1, <3>1, <3>2
  <2>6. CASE number[a] > i + 1
    <3>1. number[a] > i
      BY <2>3, <2>6
    <3>2. a \in Dominators(t, p)
      BY <2>2, <3>1 DEF StillAbove
    <3>3. ~(number[a] < number[b])
      BY <2>3, <2>6
    <3> QED
      BY <1>5, <2>1, <3>2, <3>3
  <2>7. number[x] <= i \/ number[x] = i + 1 \/ number[a] > i + 1
    BY <2>1, <2>3
  <2> QED
    BY <2>4, <2>5, <2>6, <2>7
<1> QED
  BY <1>5, <1>7, <1>8

\* The order of a sweep: the block with number n is the n-th
InNumbers(f, number, rpo) ==
    /\ rpo \in Seq(Blocks(f))
    /\ \A n \in 1 .. Len(rpo) : number[rpo[n]] = n
    /\ \A b \in Blocks(f) : number[b] \in 1 .. Len(rpo) /\ rpo[number[b]] = b

\* A sweep brings its next block into the tree.
LEMMA LowerAdds ==
    ASSUME NEW f, NEW number, Numbered(f, number), NEW i \in Nat, NEW t, IsTree(t, Entry(f), number),
           NEW b \in Blocks(f), b # Entry(f), number[b] = i + 1, InTheTree(f, number, 1, i, t),
           NothingToAdd(f, t), StillAbove(f, number, i, t),
           NEW u, IsLowered(f, number, t, b, u)
    PROVE  /\ b \notin DOMAIN t
           /\ \A x \in DOMAIN t : Dominators(u, x) = Dominators(t, x)
           /\ NothingToAdd(f, u)
           /\ StillAbove(f, number, i + 1, u)
<1> DEFINE e == Entry(f)
           K == DOMAIN t
           Pred(x) == ToSet(f.preds[x])
<1>1. /\ IsTree(u, e, number) /\ DOMAIN u = K \cup {b} /\ e \in K
      /\ \A x \in Blocks(f) : number[x] \in Nat /\ Pred(x) \subseteq Blocks(f)
      /\ \A x \in K : x # e => number[x] <= i
      /\ \A x \in Blocks(f) : number[x] <= i => x \in K
      /\ K \subseteq Blocks(f)
  <2>1. IsTree(u, e, number) /\ DOMAIN u = K \cup {b} /\ e \in K
    BY DEF IsLowered, IsTree
  <2>2. \A x \in Blocks(f) : number[x] \in Nat /\ Pred(x) \subseteq Blocks(f)
    BY DEF Numbered, ToSet
  <2>3. K = {e} \cup {x \in Blocks(f) : number[x] <= i} /\ e \in Blocks(f)
    BY DEF InTheTree, Numbered
  <2> QED
    BY <2>1, <2>2, <2>3
<1>2. b \notin K
  BY <1>1
<1>3. /\ \A x \in K : Dominators(u, x) = Dominators(t, x)
      /\ Dominators(u, b) = {b} \cup Dominators(t, u[b])
  BY <1>1, <1>2, LoweredAbove
<1>4. \A d : d \in Dominators(t, u[b]) <=> \A p \in Known(f, t, b) : d \in Dominators(t, p)
  BY DEF IsLowered
<1>5. NothingToAdd(f, u)
  <2> SUFFICES ASSUME NEW x \in (K \cup {b}) \ {e}, NEW d, \A p \in Known(f, u, x) : d \in Dominators(u, p)
               PROVE  d \in Dominators(u, x)
    BY <1>1 DEF NothingToAdd
  <2>1. Known(f, t, x) \subseteq Known(f, u, x) /\ Known(f, t, x) \subseteq K
    BY <1>1 DEF Known
  <2>2. \A p \in Known(f, t, x) : d \in Dominators(t, p)
    BY <1>3, <2>1
  <2>3. CASE x = b
    BY <1>3, <1>4, <2>2, <2>3
  <2>4. CASE x # b
    <3>1. d \in Dominators(t, x)
      BY <2>2, <2>4 DEF NothingToAdd
    <3> QED
      BY <1>3, <2>4, <3>1
  <2> QED
    BY <2>3, <2>4
<1>6. StillAbove(f, number, i + 1, u)
  <2> SUFFICES ASSUME NEW x \in (K \cup {b}) \ {e}, NEW p \in Pred(x), number[p] < number[x],
                      NEW a \in Dominators(u, x) \ {x}
               PROVE  a \in Dominators(u, p)
    BY <1>1 DEF StillAbove
  <2>1. x \in Blocks(f) /\ number[x] <= i + 1
    BY <1>1
  <2>2. p \in K
    <3>1. p \in Blocks(f) /\ number[p] \in Nat /\ number[x] \in Nat
      BY <1>1, <2>1
    <3>2. number[p] <= i
      BY <2>1, <3>1
    <3> QED
      BY <1>1, <3>1, <3>2
  <2>3. CASE x = b
    <3>1. p \in Known(f, t, b)
      BY <2>2, <2>3 DEF Known
    <3>2. a \in Dominators(t, p)
      BY <1>3, <1>4, <2>3, <3>1
    <3> QED
      BY <1>3, <2>2, <3>2
  <2>4. CASE x # b
    <3>1. number[x] <= i /\ a \in Dominators(t, x)
      BY <1>1, <1>3, <2>4
    <3>2. a \in Dominators(t, p)
      BY <2>4, <3>1 DEF StillAbove
    <3> QED
      BY <1>3, <2>2, <3>2
  <2> QED
    BY <2>3, <2>4
<1> QED
  BY <1>2, <1>3, <1>5, <1>6

\* What has to be above a block is above where the walks up from its predecessors meet.
LEMMA LowerGoesUp ==
    ASSUME NEW f, NEW number, Numbered(f, number), NEW T, Necessary(f, T),
           NEW t, IsTree(t, Entry(f), number), GoesUp(t, Entry(f), T),
           NEW b \in Blocks(f), b # Entry(f), Known(f, t, b) # {},
           NEW u, IsLowered(f, number, t, b, u)
    PROVE  GoesUp(u, Entry(f), T)
<1> DEFINE e == Entry(f)
           m == u[b]
<1>1. m \in DOMAIN t /\ \A d : d \in Dominators(t, m) <=> \A p \in Known(f, t, b) : d \in Dominators(t, p)
  BY DEF IsLowered
<1> HIDE DEF m
<1>2. PICK p \in Known(f, t, b) : TRUE
  OBVIOUS
<1>3. p \in DOMAIN t
  BY DEF Known
<1>4. m \in Dominators(t, p)
  <2>1. m \in Dominators(t, m)
    BY <1>1, AboveIsChain DEF IsChain
  <2> QED
    BY <1>1, <2>1
<1>5. \A a \in DOMAIN t : /\ T[a] \subseteq Dominators(t, a)
                          /\ \A w \in Dominators(t, a) : T[a] \cap Dominators(t, w) \subseteq T[w]
  BY MembersAreAbove
<1>6. ASSUME NEW d \in T[b] \ {b} PROVE d \in T[m]
  <2>1. \A q \in Known(f, t, b) : d \in T[q] /\ q \in DOMAIN t
    BY DEF Necessary, Known
  <2>2. d \in Dominators(t, m)
    BY <1>1, <1>5, <2>1
  <2> QED
    BY <1>3, <1>4, <1>5, <2>1, <2>2
<1>7. \A x \in DOMAIN u \ {e} : x = b \/ (x \in DOMAIN t \ {e} /\ u[x] = t[x])
  BY DEF IsLowered
<1>8. ASSUME NEW x \in DOMAIN u \ {e} PROVE T[x] \ {x} \subseteq T[u[x]]
  <2>1. CASE x = b
    BY <1>6, <2>1 DEF m
  <2>2. CASE x # b
    BY <1>7, <2>2 DEF GoesUp
  <2> QED
    BY <2>1, <2>2
<1> QED
  BY <1>8 DEF GoesUp

\* One block of a sweep.
LEMMA LowerSweeps ==
    ASSUME NEW f, NEW number, Numbered(f, number), NEW rpo, InNumbers(f, number, rpo),
           NEW T, Necessary(f, T), NEW r, NEW n \in Nat, Reaching(f, r, n),
           NEW k \in 1 .. n, NEW i \in 0 .. Len(rpo) - 1, NEW t, Swept(f, number, T, r, k, i, t)
    PROVE  Swept(f, number, T, r, k, i + 1, LowerIdom(f, number, t, rpo[i + 1]))
<1> DEFINE e == Entry(f)
           K == DOMAIN t
           b == rpo[i + 1]
           u == LowerIdom(f, number, t, b)
<1>0. Len(rpo) \in Nat /\ i \in Nat /\ k \in Nat /\ k - 1 \in 0 .. n
  BY DEF InNumbers
<1>1. b \in Blocks(f) /\ number[b] = i + 1 /\ \A x \in Blocks(f) : number[x] \in Nat
  BY <1>0 DEF InNumbers
<1>2. /\ IsTree(t, e, number) /\ InTheTree(f, number, k, i, t) /\ GoesUp(t, e, T) /\ NothingToAdd(f, t)
      /\ StillAbove(f, number, i, t) /\ LeftBehind(f, number, r, k, i, t)
  BY DEF Swept
<1>3. \A x \in Blocks(f) : number[x] <= i + 1 => x = b \/ number[x] <= i
  <2> SUFFICES ASSUME NEW x \in Blocks(f), number[x] <= i + 1, ~(number[x] <= i) PROVE x = b
    OBVIOUS
  <2>1. number[x] = number[b]
    BY <1>0, <1>1
  <2> HIDE DEF b
  <2> QED
    BY <1>1, <2>1 DEF Numbered
<1>4. e \in K /\ e \in Blocks(f) /\ K \subseteq Blocks(f)
  BY <1>2 DEF IsTree, Numbered
<1> HIDE DEF u, b
<1>5. CASE b = e
  <2>1. u = t
    BY <1>5 DEF LowerIdom, u
  <2>2. InTheTree(f, number, k, i + 1, t)
    <3>1. \A x \in Blocks(f) : number[x] <= i => number[x] <= i + 1
      BY <1>0, <1>1
    <3>2. {e} \cup {x \in Blocks(f) : number[x] <= i} = {e} \cup {x \in Blocks(f) : number[x] <= i + 1}
      BY <1>3, <1>5, <3>1
    <3> QED
      BY <1>2, <3>2 DEF InTheTree
  <2>3. \A x \in Blocks(f) : x # e => ~(number[x] <= i + 1)
    <3> SUFFICES ASSUME NEW x \in Blocks(f), x # e, number[x] <= i + 1 PROVE FALSE
      OBVIOUS
    <3>1. number[e] <= number[x]
      BY DEF Numbered
    <3>2. number[x] = number[b]
      BY <1>0, <1>1, <1>5, <3>1
    <3> QED
      BY <1>1, <1>5, <3>2 DEF Numbered
  <2>4. StillAbove(f, number, i + 1, t)
    <3> SUFFICES ASSUME NEW x \in K \ {e}, NEW p \in ToSet(f.preds[x]), number[p] < number[x],
                        NEW a \in Dominators(t, x) \ {x}, number[x] <= i + 1 \/ number[a] > i + 1
                 PROVE  a \in Dominators(t, p)
      BY DEF StillAbove
    <3>1. IsChain(t, e, number, x)
      BY <1>2, AboveIsChain
    <3>2. number[a] \in Nat
      BY <1>1, <1>4, <3>1 DEF IsChain
    <3>3. number[a] > i
      BY <1>0, <1>4, <2>3, <3>2
    <3> QED
      BY <1>2, <3>3 DEF StillAbove
  <2>5. LeftBehind(f, number, r, k, i + 1, t)
    <3> SUFFICES ASSUME NEW a \in Blocks(f), NEW x \in K,
                        x \in r[a][k - 1] \/ (x \in r[a][k] /\ number[x] <= i + 1)
                 PROVE  a \notin Dominators(t, x)
      BY DEF LeftBehind
    <3>1. CASE x = e
      <4>1. x # a
        BY <1>0 DEF Reaching
      <4> QED
        BY <1>2, <3>1, <4>1, AboveIs
    <3>2. CASE x # e
      BY <1>2, <1>4, <2>3, <3>2 DEF LeftBehind
    <3> QED
      BY <3>1, <3>2
  <2> QED
    BY <1>2, <2>1, <2>2, <2>4, <2>5 DEF Swept, u, b
<1>6. CASE b # e
  <2>1. PICK p \in ToSet(f.preds[b]) : number[p] < number[b]
    BY <1>1, <1>6 DEF Numbered
  <2>2. p \in Known(f, t, b)
    <3>1. p \in Blocks(f)
      BY <1>1 DEF Numbered, ToSet
    <3>2. number[p] <= i
      BY <1>0, <1>1, <2>1, <3>1
    <3> QED
      BY <1>2, <3>1, <3>2 DEF Known, InTheTree
  <2>3. IsLowered(f, number, t, b, u)
    BY <1>1, <1>2, <1>6, <2>1, <2>2, LowerIs DEF u
  <2>4. DOMAIN u = K \cup {b} /\ IsTree(u, e, number)
    BY <2>3 DEF IsLowered
  <2>5. InTheTree(f, number, k, i + 1, u)
    <3>1. CASE k = 1
      BY <1>0, <1>1, <1>2, <1>3, <2>4, <3>1 DEF InTheTree
    <3>2. CASE k # 1
      BY <1>1, <1>2, <2>4, <3>2 DEF InTheTree
    <3> QED
      BY <3>1, <3>2
  <2>6. GoesUp(u, e, T)
    BY <1>1, <1>2, <1>6, <2>2, <2>3, LowerGoesUp
  <2>7. /\ \A x \in K : Dominators(u, x) \subseteq Dominators(t, x)
        /\ NothingToAdd(f, u) /\ StillAbove(f, number, i + 1, u)
        /\ b \in K \/ k = 1
    <3>1. CASE k = 1
      BY <1>0, <1>1, <1>2, <1>6, <2>3, <3>1, LowerAdds
    <3>2. CASE k # 1
      <4>1. K = Blocks(f)
        BY <1>2, <3>2 DEF InTheTree
      <4> QED
        BY <1>0, <1>1, <1>2, <1>6, <2>3, <4>1, LowerKeeps
    <3> QED
      BY <3>1, <3>2
  <2>8. Dominators(u, b) = {b} \cup Dominators(t, u[b])
    BY <1>1, <1>2, <1>6, <2>3, LoweredAbove
  <2>9. LeftBehind(f, number, r, k, i + 1, u)
    <3> SUFFICES ASSUME NEW a \in Blocks(f), NEW x \in K \cup {b},
                        x \in r[a][k - 1] \/ (x \in r[a][k] /\ number[x] <= i + 1)
                 PROVE  a \notin Dominators(u, x)
      BY <2>4 DEF LeftBehind
    <3>1. CASE x \in K /\ (x \in r[a][k - 1] \/ x # b)
      <4>1. x \in r[a][k - 1] \/ (x \in r[a][k] /\ number[x] <= i)
        BY <1>3, <1>4, <3>1
      <4> QED
        BY <1>2, <2>7, <3>1, <4>1 DEF LeftBehind
    <3>2. CASE x = b /\ x \in r[a][k - 1] /\ x \notin K
      <4>1. k = 1
        BY <2>7, <3>2
      <4>2. x \in r[a][0]
        BY <3>2, <4>1
      <4> QED
        BY <1>6, <3>2, <4>2 DEF Reaching
    <3>3. CASE x = b /\ x \notin r[a][k - 1]
      <4>1. x \in r[a][k] \ r[a][k - 1]
        BY <3>3
      <4>2. x # a /\ \E c \in r[a][k - 1] : c \in ToSet(f.preds[x])
        BY <1>0, <4>1 DEF Reaching
      <4>3. PICK c \in r[a][k - 1] : c \in ToSet(f.preds[b])
        BY <3>3, <4>2
      <4>4. c \in K
        <5>1. c \in Blocks(f)
          BY <1>1, <4>3 DEF Numbered, ToSet
        <5>2. CASE k = 1
          <6>1. c \in r[a][0]
            BY <4>3, <5>2
          <6> QED
            BY <1>4, <6>1 DEF Reaching
        <5>3. CASE k # 1
          BY <1>2, <5>1, <5>3 DEF InTheTree
        <5> QED
          BY <5>2, <5>3
      <4>5. a \notin Dominators(t, c) /\ c \in Known(f, t, b)
        BY <1>2, <4>3, <4>4 DEF LeftBehind, Known
      <4>6. a \notin Dominators(t, u[b])
        BY <2>3, <4>5 DEF IsLowered
      <4> QED
        BY <2>8, <3>3, <4>2, <4>6
    <3> QED
      BY <3>1, <3>2, <3>3
  <2> QED
    BY <2>4, <2>5, <2>6, <2>7, <2>9 DEF Swept, u, b
<1> QED
  BY <1>5, <1>6

\* Every tree of blocks
Trees(f) == UNION {[X -> Blocks(f)] : X \in SUBSET Blocks(f)}

\* A swept tree is one.
LEMMA SweptIsTree ==
    ASSUME NEW f, NEW number, Numbered(f, number), NEW T, NEW r, NEW k, NEW i, NEW t,
           Swept(f, number, T, r, k, i, t)
    PROVE  t \in Trees(f)
<1>1. DOMAIN t \in SUBSET Blocks(f)
  BY DEF Swept, InTheTree, Numbered
<1>2. t \in [DOMAIN t -> Blocks(f)]
  BY <1>1 DEF Swept, IsTree
<1> QED
  BY <1>1, <1>2 DEF Trees

\* A sweep over all blocks.
LEMMA SweepIs ==
    ASSUME NEW f, NEW number, Numbered(f, number), NEW rpo, InNumbers(f, number, rpo),
           NEW T, Necessary(f, T), NEW r, NEW n \in Nat, Reaching(f, r, n),
           NEW k \in 1 .. n, NEW t, Swept(f, number, T, r, k, 0, t)
    PROVE  Swept(f, number, T, r, k, Len(rpo), Sweep(f, number, rpo, t))
<1> DEFINE N == Len(rpo)
           D == Trees(f)
           Step(x, b) == LowerIdom(f, number, x, b)
           F == [i \in 1 .. N |-> [x \in D |-> IF Step(x, rpo[i]) \in D THEN Step(x, rpo[i]) ELSE x]]
           g[i \in 0 .. N] ==
             IF i = 0 THEN t ELSE CHOOSE w \in {Step(prefix, rpo[i]) : prefix \in {g[i - 1]}} : TRUE
           Good(i, x) == Swept(f, number, T, r, k, i, x)
<1>0. N \in Nat
  BY DEF InNumbers
<1>1. Sweep(f, number, rpo, t) = g[N]
  BY Zenon DEF Sweep, PrefixByPrefix
<1>2. ASSUME NEW i \in 1 .. N, NEW x, Good(i - 1, x) PROVE Good(i, Step(x, rpo[i])) /\ Step(x, rpo[i]) \in D /\ x \in D
  <2>1. i - 1 \in 0 .. N - 1 /\ (i - 1) + 1 = i
    BY <1>0
  <2>2. Good((i - 1) + 1, Step(x, rpo[(i - 1) + 1]))
    BY <1>2, <2>1, LowerSweeps
  <2>3. Good(i, Step(x, rpo[i]))
    BY <2>1, <2>2
  <2> QED
    BY <1>2, <2>3, SweptIsTree
<1> HIDE DEF Step, D, Good, N
<1>3. PICK h : IsLoop(h, N, D, t, F)
  <2>1. F \in [1 .. N -> [D -> D]]
    OBVIOUS
  <2>2. t \in D
    BY SweptIsTree DEF D
  <2> HIDE DEF F
  <2> QED
    BY <1>0, <2>1, <2>2, LoopExists
<1>4. h \in [0 .. N -> D] /\ h[0] = t /\ \A i \in 1 .. N : h[i] = F[i][h[i - 1]]
  BY <1>3 DEF IsLoop
<1> DEFINE S == {i \in 0 .. N : Good(i, h[i])}
<1>5. ASSUME NEW i \in 1 .. N, Good(i - 1, h[i - 1]) PROVE h[i] = Step(h[i - 1], rpo[i]) /\ Good(i, h[i])
  <2>1. h[i] = F[i][h[i - 1]] /\ h[i - 1] \in D
    BY <1>0, <1>4
  <2>2. Good(i, Step(h[i - 1], rpo[i])) /\ Step(h[i - 1], rpo[i]) \in D
    BY <1>2, <1>5
  <2> QED
    BY <2>1, <2>2
<1>6. \A i \in 0 .. N : i \in S
  <2>1. 0 \in S
    BY <1>0, <1>4 DEF Good
  <2>2. \A i \in 1 .. N : i - 1 \in S => i \in S
    BY <1>0, <1>5
  <2> HIDE DEF S
  <2> QED
    BY <1>0, <2>1, <2>2, Rounds
<1>7. \A i \in 1 .. N : h[i] = Step(h[i - 1], rpo[i])
  <2> SUFFICES ASSUME NEW i \in 1 .. N PROVE h[i] = Step(h[i - 1], rpo[i])
    OBVIOUS
  <2>1. i - 1 \in S
    BY <1>0, <1>6
  <2> QED
    BY <1>5, <2>1
<1> HIDE DEF F
<1>8. \A u, i : (CHOOSE w \in {Step(prefix, rpo[i]) : prefix \in {u[i - 1]}} : TRUE) = Step(u[i - 1], rpo[i])
  OBVIOUS
<1>9. h = [i \in 0 .. N |->
             IF i = 0 THEN t ELSE CHOOSE w \in {Step(prefix, rpo[i]) : prefix \in {h[i - 1]}} : TRUE]
  <2>1. \A i \in 0 .. N : i # 0 => i \in 1 .. N
    BY <1>0
  <2> QED
    BY <1>4, <1>7, <1>8, <2>1
<1>10. g = [i \in 0 .. N |->
             IF i = 0 THEN t ELSE CHOOSE w \in {Step(prefix, rpo[i]) : prefix \in {g[i - 1]}} : TRUE]
  BY <1>9, Zenon
<1> HIDE DEF g
<1> DEFINE E == {i \in 0 .. N : g[i] = h[i]}
<1>11. \A i \in 0 .. N : i \in E
  <2>1. 0 \in E
    BY <1>0, <1>4, <1>10
  <2>2. ASSUME NEW i \in 1 .. N, i - 1 \in E PROVE i \in E
    <3>1. i \in 0 .. N /\ i # 0
      BY <1>0
    <3>2. g[i] = CHOOSE w \in {Step(prefix, rpo[i]) : prefix \in {g[i - 1]}} : TRUE
      BY <1>10, <3>1
    <3>3. g[i] = Step(g[i - 1], rpo[i])
      BY <1>8, <3>2
    <3> QED
      BY <1>7, <2>2, <3>1, <3>3
  <2> HIDE DEF E
  <2> QED
    BY <1>0, <2>1, <2>2, Rounds
<1>12. Good(N, g[N])
  <2>1. N \in S /\ N \in E
    BY <1>0, <1>6, <1>11
  <2> QED
    BY <2>1
<1> QED
  BY <1>1, <1>12 DEF Good, N

\* The next sweep starts from what the last one left.
LEMMA SweptAgain ==
    ASSUME NEW f, NEW number, Numbered(f, number), NEW rpo, InNumbers(f, number, rpo),
           NEW T, NEW r, NEW k \in Nat \ {0}, NEW t, Swept(f, number, T, r, k, Len(rpo), t)
    PROVE  Swept(f, number, T, r, k + 1, 0, t)
<1>1. \A x \in Blocks(f) : number[x] \in Nat /\ number[x] <= Len(rpo) /\ ~(number[x] <= 0)
  BY DEF InNumbers
<1>2. DOMAIN t = Blocks(f)
  BY <1>1 DEF Swept, InTheTree, Numbered
<1>3. InTheTree(f, number, k + 1, 0, t)
  BY <1>2 DEF InTheTree
<1>4. StillAbove(f, number, 0, t)
  BY <1>1, <1>2 DEF Swept, StillAbove
<1>5. LeftBehind(f, number, r, k + 1, 0, t)
  <2>1. (k + 1) - 1 = k
    OBVIOUS
  <2> QED
    BY <1>1, <1>2, <2>1 DEF Swept, LeftBehind
<1> QED
  BY <1>3, <1>4, <1>5 DEF Swept

\* The tree before the first sweep.
LEMMA FirstIsSwept ==
    ASSUME NEW f, NEW number, Numbered(f, number), NEW rpo, InNumbers(f, number, rpo),
           NEW T, Necessary(f, T), NEW r, NEW n \in Nat, Reaching(f, r, n)
    PROVE  Swept(f, number, T, r, 1, 0, [b \in {Entry(f)} |-> b])
<1> DEFINE e == Entry(f)
           t == [b \in {e} |-> b]
<1>1. DOMAIN t = {e} /\ t[e] = e /\ e \in Blocks(f)
  BY DEF Numbered
<1>2. IsTree(t, e, number)
  BY DEF IsTree, Numbered
<1>3. \A x \in Blocks(f) : ~(number[x] <= 0) /\ number[x] \in Nat
  BY DEF InNumbers
<1>4. Dominators(t, e) = {e}
  BY <1>2, AboveIs
<1> HIDE DEF t
<1>5. InTheTree(f, number, 1, 0, t)
  BY <1>1, <1>3 DEF InTheTree
<1>6. GoesUp(t, e, T) /\ NothingToAdd(f, t) /\ StillAbove(f, number, 0, t)
  BY <1>1 DEF GoesUp, NothingToAdd, StillAbove, Necessary
<1>7. LeftBehind(f, number, r, 1, 0, t)
  <2>1. ASSUME NEW a \in Blocks(f), e \in r[a][0] PROVE a # e
    <3>1. 0 \in 0 .. n
      OBVIOUS
    <3> QED
      BY <2>1, <3>1 DEF Reaching
  <2> QED
    BY <1>1, <1>3, <1>4, <2>1 DEF LeftBehind
<1> QED
  BY <1>2, <1>5, <1>6, <1>7 DEF Swept, t

\* After as many sweeps as there are blocks, above a block is what has to be and nothing
\* that a path to the block avoids.
LEMMA SweepsAre ==
    ASSUME NEW f, NEW number, Numbered(f, number), NEW rpo, InNumbers(f, number, rpo), rpo # <<>>,
           NEW T, Necessary(f, T), NEW r, Reaching(f, r, Len(rpo))
    PROVE  LET t == Sweeps(f, number, rpo)
           IN /\ IsTree(t, Entry(f), number) /\ DOMAIN t = Blocks(f) /\ NothingToAdd(f, t)
              /\ \A b \in Blocks(f) : T[b] \subseteq Dominators(t, b)
              /\ \A b \in Blocks(f) : \A a \in Dominators(t, b) : b \notin r[a][Len(rpo)]
<1> DEFINE N == Len(rpo)
           D == Trees(f)
           t0 == [b \in {Entry(f)} |-> b]
           Step(x) == Sweep(f, number, rpo, x)
           F == [i \in 1 .. N |-> [x \in D |-> IF Step(x) \in D THEN Step(x) ELSE x]]
           g[i \in 0 .. N] ==
             IF i = 0 THEN t0 ELSE CHOOSE w \in {Step(prefix) : prefix \in {g[i - 1]}} : TRUE
           Good(i, x) == IF i = 0 THEN Swept(f, number, T, r, 1, 0, x) ELSE Swept(f, number, T, r, i, N, x)
<1>0. N \in Nat \ {0}
  BY DEF InNumbers
<1>1. Sweeps(f, number, rpo) = g[N]
  BY Zenon DEF Sweeps, PrefixByPrefix
<1>2. ASSUME NEW i \in 1 .. N, NEW x, Good(i - 1, x) PROVE Good(i, Step(x)) /\ Step(x) \in D /\ x \in D
  <2>1. Swept(f, number, T, r, i, 0, x)
    <3>1. CASE i = 1
      <4>1. Good(0, x)
        BY <1>2, <3>1
      <4> QED
        BY <3>1, <4>1
    <3>2. CASE i # 1
      <4>1. i - 1 \in Nat \ {0} /\ (i - 1) + 1 = i
        BY <1>0, <3>2
      <4>2. Swept(f, number, T, r, i - 1, N, x)
        BY <1>2, <4>1
      <4>3. Swept(f, number, T, r, (i - 1) + 1, 0, x)
        BY <4>1, <4>2, SweptAgain
      <4> QED
        BY <4>1, <4>3
    <3> QED
      BY <3>1, <3>2
  <2>2. Swept(f, number, T, r, i, N, Step(x))
    BY <1>0, <2>1, SweepIs
  <2>3. i # 0
    BY <1>0
  <2> QED
    BY <2>1, <2>2, <2>3, SweptIsTree
<1>3. Good(0, t0) /\ t0 \in D
  <2>1. Swept(f, number, T, r, 1, 0, t0)
    BY <1>0, FirstIsSwept
  <2> QED
    BY <2>1, SweptIsTree
<1> HIDE DEF Step, D, Good, N, t0
<1>4. PICK h : IsLoop(h, N, D, t0, F)
  <2>1. F \in [1 .. N -> [D -> D]]
    OBVIOUS
  <2> HIDE DEF F
  <2> QED
    BY <1>0, <1>3, <2>1, LoopExists
<1>5. h \in [0 .. N -> D] /\ h[0] = t0 /\ \A i \in 1 .. N : h[i] = F[i][h[i - 1]]
  BY <1>4 DEF IsLoop
<1> DEFINE S == {i \in 0 .. N : Good(i, h[i])}
<1>6. ASSUME NEW i \in 1 .. N, Good(i - 1, h[i - 1]) PROVE h[i] = Step(h[i - 1]) /\ Good(i, h[i])
  <2>1. h[i] = F[i][h[i - 1]] /\ h[i - 1] \in D
    BY <1>0, <1>5
  <2>2. Good(i, Step(h[i - 1])) /\ Step(h[i - 1]) \in D
    BY <1>2, <1>6
  <2> QED
    BY <2>1, <2>2
<1>7. \A i \in 0 .. N : i \in S
  <2>1. 0 \in S
    BY <1>0, <1>3, <1>5
  <2>2. \A i \in 1 .. N : i - 1 \in S => i \in S
    BY <1>0, <1>6
  <2> HIDE DEF S
  <2> QED
    BY <1>0, <2>1, <2>2, Rounds
<1>8. \A i \in 1 .. N : h[i] = Step(h[i - 1])
  <2> SUFFICES ASSUME NEW i \in 1 .. N PROVE h[i] = Step(h[i - 1])
    OBVIOUS
  <2>1. i - 1 \in S
    BY <1>0, <1>7
  <2> QED
    BY <1>6, <2>1
<1> HIDE DEF F
<1>9. \A u, i : (CHOOSE w \in {Step(prefix) : prefix \in {u[i - 1]}} : TRUE) = Step(u[i - 1])
  OBVIOUS
<1>10. h = [i \in 0 .. N |->
              IF i = 0 THEN t0 ELSE CHOOSE w \in {Step(prefix) : prefix \in {h[i - 1]}} : TRUE]
  <2>1. \A i \in 0 .. N : i # 0 => i \in 1 .. N
    BY <1>0
  <2> QED
    BY <1>5, <1>8, <1>9, <2>1
<1>11. g = [i \in 0 .. N |->
              IF i = 0 THEN t0 ELSE CHOOSE w \in {Step(prefix) : prefix \in {g[i - 1]}} : TRUE]
  BY <1>10, Zenon
<1> HIDE DEF g
<1> DEFINE E == {i \in 0 .. N : g[i] = h[i]}
<1>12. \A i \in 0 .. N : i \in E
  <2>1. 0 \in E
    BY <1>0, <1>5, <1>11
  <2>2. ASSUME NEW i \in 1 .. N, i - 1 \in E PROVE i \in E
    <3>1. i \in 0 .. N /\ i # 0
      BY <1>0
    <3>2. g[i] = CHOOSE w \in {Step(prefix) : prefix \in {g[i - 1]}} : TRUE
      BY <1>11, <3>1
    <3>3. g[i] = Step(g[i - 1])
      BY <1>9, <3>2
    <3> QED
      BY <1>8, <2>2, <3>1, <3>3
  <2> HIDE DEF E
  <2> QED
    BY <1>0, <2>1, <2>2, Rounds
<1> DEFINE t == g[N]
<1>13. Swept(f, number, T, r, N, N, t)
  <2>1. N \in S /\ N \in E /\ N # 0
    BY <1>0, <1>7, <1>12
  <2> QED
    BY <2>1 DEF Good
<1> HIDE DEF t
<1>14. /\ IsTree(t, Entry(f), number) /\ GoesUp(t, Entry(f), T) /\ LeftBehind(f, number, r, N, N, t)
       /\ NothingToAdd(f, t)
  BY <1>13 DEF Swept
<1>15. DOMAIN t = Blocks(f)
  <2>1. \A b \in Blocks(f) : number[b] <= N
    BY DEF InNumbers, N
  <2> QED
    BY <1>13, <2>1 DEF Swept, InTheTree, Numbered
<1>16. \A b \in Blocks(f) : T[b] \subseteq Dominators(t, b)
  BY <1>14, <1>15, MembersAreAbove
<1>17. ASSUME NEW b \in Blocks(f), NEW a \in Dominators(t, b) PROVE b \notin r[a][N]
  <2>1. a \in Blocks(f)
    BY <1>14, <1>15, AboveIsChain DEF IsChain
  <2>2. number[b] <= N
    BY DEF InNumbers, N
  <2> QED
    BY <1>14, <1>15, <2>1, <2>2 DEF LeftBehind
<1> QED
  BY <1>1, <1>14, <1>15, <1>16, <1>17 DEF t, N

-----------------------------------------------------------------------------
(* What a walk reaches *)

\* The successors of a block are blocks.
LEMMA SuccessorsAreBlocks ==
    ASSUME NEW f, IsFunction(f), NEW b \in Blocks(f)
    PROVE  Successors(f, b) \in Seq(Blocks(f))
<1>1. CASE HasTerminator(f, b)
  <2>1. f.code[b] \in Seq(DOMAIN f.inst) /\ f.code[b] # <<>>
    BY <1>1 DEF HasTerminator, IsFunction
  <2>2. Last(f.code[b]) \in DOMAIN f.inst
    BY <2>1 DEF Last
  <2> QED
    BY <1>1, <2>2 DEF Successors, Terminator, IsFunction
<1>2. CASE ~HasTerminator(f, b)
  BY <1>2 DEF Successors
<1> QED
  BY <1>1, <1>2

\* The order of a function has every block once, and the entry first.
LEMMA OrderHasBlocks ==
    ASSUME NEW f, IsFunction(f)
    PROVE  /\ Entry(f) \in Blocks(f) /\ Len(f.order) \in Nat \ {0}
           /\ IsFiniteSet(Blocks(f)) /\ Cardinality(Blocks(f)) = Len(f.order)
<1> DEFINE N == Len(f.order)
           B == Blocks(f)
<1>1. f.order \in Seq(B) /\ f.order # <<>> /\ ToSet(f.order) = B /\ IsInjective(f.order)
  BY DEF IsFunction
<1>2. N \in Nat \ {0} /\ Entry(f) \in B /\ f.order \in [1 .. N -> B]
  BY <1>1 DEF Entry
<1>3. f.order \in Bijection(1 .. N, B)
  <2>1. \A b \in B : \E k \in 1 .. N : f.order[k] = b
    BY <1>1, <1>2 DEF ToSet
  <2> QED
    BY <1>1, <1>2, <2>1 DEF Bijection, Injection, Surjection, IsInjective
<1>4. ExistsBijection(1 .. N, B)
  BY <1>3 DEF ExistsBijection
<1> HIDE DEF N, B
<1>5. IsFiniteSet(1 .. N) /\ Cardinality(1 .. N) = N
  BY <1>2, FS_Interval
<1>6. IsFiniteSet(B) /\ Cardinality(B) = N
  BY <1>4, <1>5, FS_Bijection
<1> QED
  BY <1>2, <1>6 DEF N, B

\* The successors of the blocks of X outside cut
Onward(f, cut, X) == (UNION {ToSet(Successors(f, c)) : c \in X}) \ cut

\* The rounds of ReachableFrom from the entry
AreRounds(h, f, cut) ==
    /\ h \in [0 .. Len(f.order) -> SUBSET Blocks(f)]
    /\ h[0] = {Entry(f)} \ cut
    /\ \A n \in 1 .. Len(f.order) : h[n] = h[n - 1] \cup Onward(f, cut, h[n - 1])
    /\ ReachableFrom(f, Entry(f), cut) = h[Len(f.order)]

\* They stay in the function.
LEMMA OnwardIsInside ==
    ASSUME NEW f, IsFunction(f), NEW cut, NEW X \in SUBSET Blocks(f)
    PROVE  Onward(f, cut, X) \in SUBSET Blocks(f)
<1>1. ASSUME NEW c \in X PROVE ToSet(Successors(f, c)) \subseteq Blocks(f)
  BY SuccessorsAreBlocks DEF ToSet
<1> QED
  BY <1>1 DEF Onward

\* The rounds are what the recursion in the definition of ReachableFrom computes.
LEMMA ReachedInRounds ==
    ASSUME NEW f, IsFunction(f), NEW cut
    PROVE  \E h : AreRounds(h, f, cut)
<1> DEFINE L == Len(f.order)
           D == SUBSET Blocks(f)
           start == {Entry(f)} \ cut
           grown(X) == X \cup Onward(f, cut, X)
           F == [n \in 1 .. L |-> [X \in D |-> grown(X)]]
           g[n \in 0 .. L] ==
              IF n = 0 THEN start
              ELSE LET S == g[n - 1]
                   IN S \cup ((UNION {ToSet(Successors(f, c)) : c \in S}) \ cut)
<1>0. L \in Nat /\ start \in D
  BY OrderHasBlocks
<1>1. \A X \in D : grown(X) \in D
  BY OnwardIsInside
<1>2. ReachableFrom(f, Entry(f), cut) = g[L]
  BY DEF ReachableFrom
<1> HIDE DEF grown, D, L, start
<1>3. F \in [1 .. L -> [D -> D]]
  BY <1>1
<1>4. PICK h : IsLoop(h, L, D, start, F)
  <2> HIDE DEF F
  <2> QED
    BY <1>0, <1>3, LoopExists
<1>5. h \in [0 .. L -> D] /\ h[0] = start /\ \A n \in 1 .. L : h[n] = grown(h[n - 1])
  <2>1. h \in [0 .. L -> D] /\ h[0] = start
    BY <1>4 DEF IsLoop
  <2>2. ASSUME NEW n \in 1 .. L PROVE h[n] = grown(h[n - 1])
    <3>1. h[n - 1] \in D
      BY <1>0, <2>1
    <3> QED
      BY <1>4, <3>1 DEF IsLoop
  <2> QED
    BY <2>1, <2>2
<1>6. h = [n \in 0 .. L |->
             IF n = 0 THEN start
             ELSE LET S == h[n - 1]
                  IN S \cup ((UNION {ToSet(Successors(f, c)) : c \in S}) \ cut)]
  BY <1>0, <1>5 DEF grown, Onward
<1>7. g = [n \in 0 .. L |->
             IF n = 0 THEN start
             ELSE LET S == g[n - 1]
                  IN S \cup ((UNION {ToSet(Successors(f, c)) : c \in S}) \ cut)]
  BY <1>6, Zenon
<1> HIDE DEF g, F
<1> DEFINE E == {i \in 0 .. L : g[i] = h[i]}
<1>8. \A i \in 0 .. L : i \in E
  <2>1. 0 \in E
    BY <1>0, <1>5, <1>7
  <2>2. ASSUME NEW i \in 1 .. L, i - 1 \in E PROVE i \in E
    <3>1. i \in 0 .. L /\ i # 0
      BY <1>0
    <3>2. g[i] = grown(g[i - 1])
      BY <1>7, <3>1 DEF grown, Onward
    <3> QED
      BY <1>5, <2>2, <3>1, <3>2
  <2> HIDE DEF E
  <2> QED
    BY <1>0, <2>1, <2>2, Rounds
<1>9. g[L] = h[L]
  BY <1>0, <1>8
<1> QED
  BY <1>2, <1>5, <1>9 DEF grown, AreRounds, D, L, start

\* What is reachable is what the entry leads to: it is closed under the edges that avoid
\* cut.
LEMMA ReachedIsClosed ==
    ASSUME NEW f, IsFunction(f), NEW cut
    PROVE  LET X == ReachableFrom(f, Entry(f), cut)
           IN /\ X \subseteq Blocks(f) \ cut
              /\ Entry(f) \notin cut => Entry(f) \in X
              /\ \A b \in X : ToSet(Successors(f, b)) \ cut \subseteq X
<1>1. PICK h : AreRounds(h, f, cut)
  BY ReachedInRounds
<1> DEFINE L == Len(f.order)
           B == Blocks(f)
           G == [X \in SUBSET B |-> Onward(f, cut, X)]
           S == {i \in 0 .. L : h[i] \cap cut = {} /\ (Entry(f) \notin cut => Entry(f) \in h[i])}
<1>2. L \in Nat /\ IsFiniteSet(B) /\ Cardinality(B) <= L
  BY OrderHasBlocks
<1>3. G \in [SUBSET B -> SUBSET B]
  BY OnwardIsInside
<1>4. h \in [0 .. L -> SUBSET B] /\ h[0] = {Entry(f)} \ cut
  BY <1>1 DEF AreRounds
<1>5. \A i \in 1 .. L : h[i] = h[i - 1] \cup Onward(f, cut, h[i - 1])
  BY <1>1 DEF AreRounds
<1>6. \A i \in 1 .. L : h[i - 1] \in SUBSET B
  BY <1>2, <1>4
<1>7. \A i \in 1 .. L : h[i] = h[i - 1] \cup G[h[i - 1]]
  BY <1>5, <1>6
<1>8. G[h[L]] \subseteq h[L]
  <2> HIDE DEF G, L, B
  <2> QED
    BY <1>2, <1>3, <1>4, <1>7, SaturatesIn
<1>9. \A i \in 0 .. L : i \in S
  <2>1. 0 \in S
    BY <1>2, <1>4
  <2>2. ASSUME NEW i \in 1 .. L, i - 1 \in S PROVE i \in S
    <3>1. h[i] = h[i - 1] \cup Onward(f, cut, h[i - 1])
      BY <1>5
    <3> QED
      BY <1>2, <2>2, <3>1 DEF Onward
  <2> HIDE DEF S, L
  <2> QED
    BY <1>2, <2>1, <2>2, Rounds
<1>10. h[L] \in SUBSET B /\ ReachableFrom(f, Entry(f), cut) = h[L]
  BY <1>1, <1>2, <1>4 DEF AreRounds
<1>11. Onward(f, cut, h[L]) \subseteq h[L]
  BY <1>8, <1>10
<1>12. L \in S
  BY <1>2, <1>9
<1> HIDE DEF L, G
<1> QED
  BY <1>10, <1>11, <1>12 DEF Onward

\* A set with the entry in it that no edge leaves has every reachable block.
LEMMA ReachedIsLeast ==
    ASSUME NEW f, IsFunction(f), NEW X, Entry(f) \in X,
           \A b \in X \cap Blocks(f) : ToSet(Successors(f, b)) \subseteq X
    PROVE  Reachable(f) \subseteq X
<1>1. PICK h : AreRounds(h, f, {})
  BY ReachedInRounds
<1> DEFINE L == Len(f.order)
           S == {i \in 0 .. L : h[i] \subseteq X}
<1>2. L \in Nat
  BY OrderHasBlocks
<1>3. 0 \in S
  BY <1>1, <1>2 DEF AreRounds
<1>4. ASSUME NEW i \in 1 .. L, i - 1 \in S PROVE i \in S
  <2>1. /\ h[i] = h[i - 1] \cup Onward(f, {}, h[i - 1])
        /\ h[i - 1] \subseteq Blocks(f)
    BY <1>1, <1>2 DEF AreRounds
  <2> QED
    BY <1>2, <1>4, <2>1 DEF Onward
<1>5. L \in S
  <2> HIDE DEF S, L
  <2>1. \A i \in 0 .. L : i \in S
    BY <1>2, <1>3, <1>4, Rounds
  <2> QED
    BY <1>2, <2>1
<1> QED
  BY <1>1, <1>5 DEF AreRounds, Reachable

-----------------------------------------------------------------------------
(* Predecessors and successors *)

\* FlattenSeq has what the sequences have.
LEMMA FlattenHas ==
    ASSUME NEW n \in Nat \ {0}, NEW X, NEW s, s \in [1 .. n -> Seq(X)]
    PROVE  /\ FlattenSeq(s) \in Seq(X)
           /\ \A x : x \in ToSet(FlattenSeq(s)) <=> \E i \in 1 .. n : x \in ToSet(s[i])
<1> DEFINE D == Seq(X)
           cat(u, v) == u \o v
           F == [i \in 1 .. n |-> [w \in D |-> cat(w, s[i])]]
           flatten[i \in 1 .. Len(s)] == IF i = 1 THEN s[i] ELSE flatten[i - 1] \o s[i]
<1>1. s \in Seq(Seq(X)) /\ Len(s) = n /\ \A i \in 1 .. n : s[i] \in D
  OBVIOUS
<1>2. FlattenSeq(s) = flatten[n]
  BY <1>1 DEF FlattenSeq
<1>3. /\ \A u, v \in D : /\ cat(u, v) \in D
                         /\ \A x : x \in ToSet(cat(u, v)) <=> x \in ToSet(u) \/ x \in ToSet(v)
      /\ \A u \in D : cat(<<>>, u) = u
      /\ <<>> \in D /\ ToSet(<<>>) = {}
  <2>1. ASSUME NEW u \in D, NEW v \in D
        PROVE  u \o v \in D /\ ToSet(u \o v) = ToSet(u) \cup ToSet(v)
    BY ElementsOfConcat
  <2>2. ASSUME NEW u \in D PROVE <<>> \o u = u
    OBVIOUS
  <2>3. <<>> \in D /\ ToSet(<<>>) = {}
    BY DEF ToSet
  <2> HIDE DEF D
  <2> QED
    BY <2>1, <2>2, <2>3
<1> HIDE DEF cat, D
<1>4. PICK h : IsLoop(h, n, D, <<>>, F)
  <2>1. F \in [1 .. n -> [D -> D]]
    BY <1>1, <1>3
  <2> HIDE DEF F
  <2> QED
    BY <1>3, <2>1, LoopExists
<1>5. h \in [0 .. n -> D] /\ h[0] = <<>> /\ \A i \in 1 .. n : h[i - 1] \in D /\ h[i] = cat(h[i - 1], s[i])
  <2>1. h \in [0 .. n -> D] /\ h[0] = <<>>
    BY <1>4 DEF IsLoop
  <2>2. ASSUME NEW i \in 1 .. n PROVE h[i - 1] \in D /\ h[i] = cat(h[i - 1], s[i])
    <3>1. h[i - 1] \in D
      BY <2>1
    <3> QED
      BY <1>4, <3>1 DEF IsLoop
  <2> QED
    BY <2>1, <2>2
<1> HIDE DEF F
<1> DEFINE w == [i \in 1 .. n |-> h[i]]
<1>6. w = [i \in 1 .. Len(s) |-> IF i = 1 THEN s[i] ELSE w[i - 1] \o s[i]]
  <2>1. h[1] = s[1]
    BY <1>1, <1>3, <1>5
  <2>2. ASSUME NEW i \in 1 .. n, i # 1 PROVE w[i - 1] = h[i - 1]
    BY <2>2
  <2>3. \A i \in 1 .. n : w[i] = IF i = 1 THEN s[i] ELSE cat(w[i - 1], s[i])
    BY <1>5, <2>1, <2>2
  <2> HIDE DEF w
  <2>4. w = [i \in 1 .. n |-> IF i = 1 THEN s[i] ELSE cat(w[i - 1], s[i])]
    BY <2>3 DEF w
  <2> QED
    BY <1>1, <2>4 DEF cat
<1> HIDE DEF w
<1>7. flatten = [i \in 1 .. Len(s) |-> IF i = 1 THEN s[i] ELSE flatten[i - 1] \o s[i]]
  BY <1>6, Zenon
<1> HIDE DEF flatten
<1> DEFINE S == {i \in 0 .. n : i = 0 \/ flatten[i] = h[i]}
           T == {i \in 0 .. n : \A x : x \in ToSet(h[i]) <=> \E k \in 1 .. i : x \in ToSet(s[k])}
<1>8. \A i \in 0 .. n : i \in S
  <2>1. 0 \in S
    OBVIOUS
  <2>2. ASSUME NEW i \in 1 .. n, i - 1 \in S PROVE i \in S
    <3>1. CASE i = 1
      <4>1. h[1] = s[1]
        BY <1>1, <1>3, <1>5
      <4>2. flatten[1] = s[1]
        BY <1>1, <1>7
      <4> QED
        BY <3>1, <4>1, <4>2
    <3>2. CASE i # 1
      <4>1. flatten[i - 1] = h[i - 1]
        BY <2>2, <3>2
      <4>2. flatten[i] = cat(flatten[i - 1], s[i])
        BY <1>1, <1>7, <3>2 DEF cat
      <4> QED
        BY <1>5, <4>1, <4>2
    <3> QED
      BY <3>1, <3>2
  <2> HIDE DEF S
  <2> QED
    BY <2>1, <2>2, Rounds
<1>9. \A i \in 0 .. n : i \in T
  <2>1. 0 \in T
    BY <1>3, <1>5
  <2>2. ASSUME NEW i \in 1 .. n, i - 1 \in T PROVE i \in T
    <3>1. \A x : x \in ToSet(h[i]) <=> x \in ToSet(h[i - 1]) \/ x \in ToSet(s[i])
      <4>1. h[i - 1] \in D /\ s[i] \in D /\ h[i] = cat(h[i - 1], s[i])
        BY <1>1, <1>5
      <4> QED
        BY <1>3, <4>1
    <3>2. \A x : x \in ToSet(h[i - 1]) <=> \E k \in 1 .. i - 1 : x \in ToSet(s[k])
      BY <2>2
    <3>3. \A x : (\E k \in 1 .. i : x \in ToSet(s[k])) <=> (\E k \in 1 .. i - 1 : x \in ToSet(s[k])) \/ x \in ToSet(s[i])
      OBVIOUS
    <3> QED
      BY <3>1, <3>2, <3>3
  <2> HIDE DEF T
  <2> QED
    BY <2>1, <2>2, Rounds
<1>10. flatten[n] = h[n] /\ (\A x : x \in ToSet(h[n]) <=> \E k \in 1 .. n : x \in ToSet(s[k])) /\ h[n] \in D
  <2>1. n \in 0 .. n /\ n # 0
    OBVIOUS
  <2>2. n \in S /\ n \in T
    BY <1>8, <1>9, <2>1
  <2> QED
    BY <1>5, <2>1, <2>2
<1> QED
  BY <1>2, <1>10 DEF D

\* The predecessors of a block are the blocks it is a successor of.
EdgesBothWays(f) ==
    \A b \in Blocks(f) : \A p : p \in ToSet(f.preds[b]) <=> p \in Blocks(f) /\ b \in ToSet(Successors(f, p))

\* That is what the verifier asks of the predecessor lists, up to how often.
LEMMA InSyncIsBothWays ==
    ASSUME NEW f, IsFunction(f), PredecessorsInSync(f)
    PROVE  EdgesBothWays(f)
<1> SUFFICES ASSUME NEW b \in Blocks(f), NEW p
             PROVE  p \in ToSet(f.preds[b]) <=> p \in Blocks(f) /\ b \in ToSet(Successors(f, p))
  BY DEF EdgesBothWays
<1> DEFINE N == Len(f.order)
           times(c) == Cardinality({k \in DOMAIN Successors(f, c) : Successors(f, c)[k] = b})
           edges(c) == [e \in 1 .. times(c) |-> c]
           lists == [k \in DOMAIN f.order |-> edges(f.order[k])]
<1>1. /\ N \in Nat \ {0} /\ f.order \in [1 .. N -> Blocks(f)] /\ DOMAIN f.order = 1 .. N
      /\ \A c : c \in Blocks(f) <=> \E k \in 1 .. N : f.order[k] = c
  <2>1. f.order \in Seq(Blocks(f)) /\ ToSet(f.order) = Blocks(f) /\ f.order # <<>>
    BY DEF IsFunction
  <2>2. N \in Nat \ {0} /\ f.order \in [1 .. N -> Blocks(f)] /\ DOMAIN f.order = 1 .. N
    BY <2>1
  <2> QED
    BY <2>1, <2>2 DEF ToSet
<1>2. ASSUME NEW c \in Blocks(f)
      PROVE  edges(c) \in Seq(Blocks(f)) /\ \A x : x \in ToSet(edges(c)) <=> x = c /\ b \in ToSet(Successors(f, c))
  <2> DEFINE m == times(c)
             s == Successors(f, c)
             at == {k \in DOMAIN s : s[k] = b}
  <2>1. s \in Seq(Blocks(f))
    BY SuccessorsAreBlocks
  <2>2. IsFiniteSet(1 .. Len(s)) /\ at \in SUBSET (1 .. Len(s))
    BY <2>1, FS_Interval
  <2>3. IsFiniteSet(at)
    <3> HIDE DEF at
    <3> QED
      BY <2>2, FS_Subset
  <2>4. m \in Nat /\ (m = 0 <=> at = {})
    <3> HIDE DEF at
    <3>1. Cardinality(at) \in Nat /\ (Cardinality(at) = 0 <=> at = {})
      BY <2>3, FS_CardinalityType, FS_EmptySet
    <3> QED
      BY <3>1 DEF at
  <2>5. at # {} <=> b \in ToSet(s)
    BY <2>1 DEF ToSet
  <2> HIDE DEF times, at, s
  <2>6. edges(c) \in Seq(Blocks(f)) /\ \A x : x \in ToSet(edges(c)) <=> x = c /\ m # 0
    BY <2>4 DEF ToSet
  <2> QED
    BY <2>4, <2>5, <2>6 DEF s
<1> HIDE DEF edges
<1>3. lists \in [1 .. N -> Seq(Blocks(f))] /\ \A k \in 1 .. N : lists[k] = edges(f.order[k])
  BY <1>1, <1>2
<1>4. RecomputePredecessors(f).preds[b] = FlattenSeq(lists)
  BY DEF RecomputePredecessors, Blocks, edges
<1> HIDE DEF lists, N
<1>5. p \in ToSet(FlattenSeq(lists)) <=> \E k \in 1 .. N : p \in ToSet(lists[k])
  BY <1>1, <1>3, FlattenHas
<1>6. p \in ToSet(FlattenSeq(lists)) <=> p \in Blocks(f) /\ b \in ToSet(Successors(f, p))
  <2>1. ASSUME NEW k \in 1 .. N
        PROVE  p \in ToSet(lists[k]) <=> p = f.order[k] /\ b \in ToSet(Successors(f, f.order[k]))
    BY <1>1, <1>2, <1>3
  <2> QED
    BY <1>1, <1>5, <2>1
<1>7. ToSet(f.preds[b]) = ToSet(FlattenSeq(lists))
  <2>1. ToBag(f.preds[b]) = ToBag(FlattenSeq(lists))
    BY <1>4 DEF PredecessorsInSync
  <2>2. \A s : DOMAIN ToBag(s) = ToSet(s)
    BY DEF ToBag, ToSet, Range
  <2> QED
    BY <2>1, <2>2
<1> QED
  BY <1>6, <1>7

-----------------------------------------------------------------------------
(* What the sweeps are compared with *)

\* The blocks on every path to b
Necessarily(f) == [b \in Blocks(f) |-> {a \in Blocks(f) : DominatesByPaths(f, a, b)}]

\* are on the way to its predecessors.
LEMMA OnEveryPath ==
    ASSUME NEW f, IsFunction(f), EdgesBothWays(f)
    PROVE  Necessary(f, Necessarily(f))
<1> DEFINE e == Entry(f)
           R(a) == ReachableFrom(f, e, {a})
<1>1. e \in Blocks(f)
  BY OrderHasBlocks
<1>2. \A a : /\ R(a) \subseteq Blocks(f) \ {a} /\ (e # a => e \in R(a))
             /\ \A c \in R(a) : ToSet(Successors(f, c)) \ {a} \subseteq R(a)
  BY ReachedIsClosed
<1> HIDE DEF R
<1>3. \A b \in Blocks(f) : \A a : a \in Necessarily(f)[b] <=> a \in Blocks(f) /\ (a = b \/ b \notin R(a))
  BY DEF Necessarily, DominatesByPaths, R
<1>4. Necessarily(f)[e] \subseteq {e}
  BY <1>1, <1>2, <1>3
<1>5. ASSUME NEW b \in Blocks(f), NEW p \in ToSet(f.preds[b]), NEW a \in Necessarily(f)[b] \ {b}
      PROVE  a \in Necessarily(f)[p]
  <2>1. p \in Blocks(f) /\ b \in ToSet(Successors(f, p))
    BY DEF EdgesBothWays
  <2>2. a \in Blocks(f) /\ b \notin R(a) /\ a # b
    BY <1>3
  <2>3. p \notin R(a)
    BY <1>2, <2>1, <2>2
  <2> QED
    BY <1>3, <2>1, <2>2, <2>3
<1> QED
  BY <1>4, <1>5 DEF Necessary

\* The rounds of ReachableFrom without a
Rounded(f) == [a \in Blocks(f) |-> CHOOSE h : AreRounds(h, f, {a})]

\* reach no block without reaching a predecessor of it before.
LEMMA RoundsReach ==
    ASSUME NEW f, IsFunction(f), EdgesBothWays(f)
    PROVE  /\ Reaching(f, Rounded(f), Len(f.order))
           /\ \A a, b \in Blocks(f) : b \notin Rounded(f)[a][Len(f.order)] => DominatesByPaths(f, a, b)
<1> DEFINE N == Len(f.order)
           r == Rounded(f)
<1>0. N \in Nat
  BY OrderHasBlocks
<1>1. ASSUME NEW a \in Blocks(f) PROVE AreRounds(r[a], f, {a})
  <2>1. \E h : AreRounds(h, f, {a})
    BY ReachedInRounds
  <2> QED
    BY <2>1 DEF Rounded
<1> HIDE DEF r
<1>2. ASSUME NEW a \in Blocks(f)
      PROVE  /\ r[a][0] \subseteq {Entry(f)}
             /\ \A k \in 0 .. N : a \notin r[a][k]
             /\ \A k \in 1 .. N : \A x \in r[a][k] \ r[a][k - 1] :
                  \E c \in r[a][k - 1] : c \in ToSet(f.preds[x])
  <2> DEFINE h == r[a]
  <2>1. AreRounds(h, f, {a})
    BY <1>1
  <2> HIDE DEF h
  <2>2. /\ h \in [0 .. N -> SUBSET Blocks(f)] /\ h[0] = {Entry(f)} \ {a}
        /\ \A k \in 1 .. N : h[k] = h[k - 1] \cup Onward(f, {a}, h[k - 1])
    BY <2>1 DEF AreRounds
  <2>3. \A k \in 0 .. N : a \notin h[k]
    <3> DEFINE S == {k \in 0 .. N : a \notin h[k]}
    <3>1. 0 \in S
      BY <1>0, <2>2
    <3>2. ASSUME NEW k \in 1 .. N, k - 1 \in S PROVE k \in S
      BY <1>0, <2>2, <3>2 DEF Onward
    <3>3. \A k \in 0 .. N : k \in S
      <4> HIDE DEF S, N
      <4> QED
        BY <1>0, <3>1, <3>2, Rounds
    <3> QED
      BY <3>3
  <2>4. ASSUME NEW k \in 1 .. N, NEW x \in h[k] \ h[k - 1]
        PROVE  \E c \in h[k - 1] : c \in ToSet(f.preds[x])
    <3> HIDE DEF N
    <3>1. x \in Onward(f, {a}, h[k - 1]) /\ h[k - 1] \subseteq Blocks(f) /\ x \in Blocks(f)
      <4>1. h[k] = h[k - 1] \cup Onward(f, {a}, h[k - 1])
        BY <2>2
      <4>2. k \in 0 .. N /\ k - 1 \in 0 .. N
        BY <1>0
      <4>3. h[k] \in SUBSET Blocks(f) /\ h[k - 1] \in SUBSET Blocks(f)
        BY <2>2, <4>2
      <4> QED
        BY <4>1, <4>3
    <3>2. PICK c \in h[k - 1] : x \in ToSet(Successors(f, c))
      BY <3>1 DEF Onward
    <3> QED
      BY <3>1, <3>2 DEF EdgesBothWays
  <2> QED
    BY <2>2, <2>3, <2>4 DEF h
<1>3. ASSUME NEW a \in Blocks(f), NEW b \in Blocks(f), b \notin r[a][N] PROVE DominatesByPaths(f, a, b)
  BY <1>1, <1>3 DEF DominatesByPaths, AreRounds
<1> QED
  BY <1>2, <1>3 DEF Reaching, r

-----------------------------------------------------------------------------
(* The depth-first search *)

\* A block is on the stack or in the order once at most, and visited if it is;
Apart(stack, visited, order) ==
    /\ \A i, j \in 1 .. Len(stack) : stack[i][1] = stack[j][1] => i = j
    /\ \A i, j \in 1 .. Len(order) : order[i] = order[j] => i = j
    /\ \A i \in 1 .. Len(stack) : \A j \in 1 .. Len(order) : stack[i][1] # order[j]
    /\ \A i \in 1 .. Len(stack) : stack[i][1] \in visited
    /\ \A j \in 1 .. Len(order) : order[j] \in visited
    /\ \A b \in visited : \/ \E i \in 1 .. Len(stack) : stack[i][1] = b
                          \/ \E j \in 1 .. Len(order) : order[j] = b
\* the successors looked at are visited;
LookedAt(f, stack, visited, order) ==
    /\ \A i \in 1 .. Len(stack) :
         /\ stack[i][2] <= Len(Successors(f, stack[i][1]))
         /\ \A k \in 1 .. stack[i][2] : Successors(f, stack[i][1])[k] \in visited
    /\ \A j \in 1 .. Len(order) : ToSet(Successors(f, order[j])) \subseteq visited
\* and but for the entry a block has a predecessor on the stack below it or, in the
\* order, on the stack or before it.
CameFrom(f, stack, order) ==
    /\ Len(stack) >= 1 => stack[1][1] = Entry(f)
    /\ Len(stack) = 0 => Len(order) >= 1 /\ order[1] = Entry(f)
    /\ \A i \in 2 .. Len(stack) : stack[i][1] \in ToSet(Successors(f, stack[i - 1][1]))
    /\ \A j \in 1 .. Len(order) : order[j] = Entry(f) \/
         \E p \in Blocks(f) :
           /\ order[j] \in ToSet(Successors(f, p))
           /\ \/ \E i \in 1 .. Len(stack) : stack[i][1] = p
              \/ \E m \in 1 .. j - 1 : order[m] = p

Searching(f, stack, visited, order) ==
    /\ stack \in Seq(Blocks(f) \X Nat) /\ visited \in SUBSET Blocks(f) /\ order \in Seq(Blocks(f))
    /\ Apart(stack, visited, order)
    /\ LookedAt(f, stack, visited, order)
    /\ CameFrom(f, stack, order)

\* The frames the search has looked at or left: their number grows with every step
Passed(f, stack, order) ==
    {x \in Frames(f) :
        \/ x[2] >= 1 /\ \E i \in 1 .. Len(stack) : stack[i][1] = x[1] /\ x[2] <= stack[i][2]
        \/ \E j \in 1 .. Len(order) : order[j] = x[1]}

\* All successors of the top of the stack are looked at, or child is the next.
IsDone(f, stack) ==
    Len(stack) >= 1 /\ stack[Len(stack)][2] = Len(Successors(f, stack[Len(stack)][1]))
IsNext(f, stack, child) ==
    /\ Len(stack) >= 1 /\ stack[Len(stack)][2] < Len(Successors(f, stack[Len(stack)][1]))
    /\ child = Successors(f, stack[Len(stack)][1])[stack[Len(stack)][2] + 1]

\* The top of the stack is left,
IsLeft(stack, order, less, more) ==
    /\ Len(less) = Len(stack) - 1 /\ \A i \in 1 .. Len(stack) - 1 : less[i] = stack[i]
    /\ Len(more) = Len(order) + 1 /\ more[1] = stack[Len(stack)][1]
    /\ \A j \in 1 .. Len(order) : more[j + 1] = order[j]
\* or a successor of it is looked at, and entered unless it is visited.
IsLooked(stack, visited, child, looked) ==
    /\ \A i \in 1 .. Len(stack) - 1 : looked[i] = stack[i]
    /\ looked[Len(stack)] = <<stack[Len(stack)][1], stack[Len(stack)][2] + 1>>
    /\ \/ child \in visited /\ Len(looked) = Len(stack)
       \/ child \notin visited /\ Len(looked) = Len(stack) + 1 /\ looked[Len(stack) + 1] = <<child, 0>>

\* Leaving a block all of whose successors are looked at keeps this.
LEMMA LeavingKeeps ==
    ASSUME NEW f, IsFunction(f), NEW stack, NEW visited, NEW order, Searching(f, stack, visited, order),
           IsDone(f, stack),
           NEW less \in Seq(Blocks(f) \X Nat), NEW more \in Seq(Blocks(f)), IsLeft(stack, order, less, more)
    PROVE  /\ Searching(f, less, visited, more)
           /\ Passed(f, stack, order) \subseteq Passed(f, less, more)
           /\ \E x \in Passed(f, less, more) : x \notin Passed(f, stack, order)
<1> DEFINE n == Len(stack)
           m == Len(order)
           b == stack[n][1]
<1>1. /\ stack \in Seq(Blocks(f) \X Nat) /\ visited \in SUBSET Blocks(f) /\ order \in Seq(Blocks(f))
      /\ Apart(stack, visited, order) /\ LookedAt(f, stack, visited, order) /\ CameFrom(f, stack, order)
  BY DEF Searching
<1>2. n \in Nat \ {0} /\ m \in Nat /\ Len(less) = n - 1 /\ Len(more) = m + 1
  BY <1>1 DEF IsLeft, IsDone
<1>3. /\ \A i \in 1 .. n : stack[i] \in Blocks(f) \X Nat /\ stack[i][1] \in Blocks(f) /\ stack[i][2] \in Nat
      /\ \A i \in 1 .. n - 1 : less[i] = stack[i]
      /\ more[1] = b /\ \A j \in 1 .. m : more[j + 1] = order[j]
  BY <1>1, <1>2 DEF IsLeft
<1>4. /\ \A j \in 1 .. m + 1 : (j = 1 /\ more[j] = b) \/ (j - 1 \in 1 .. m /\ more[j] = order[j - 1])
  BY <1>2, <1>3
<1>5. b \in Blocks(f) /\ Successors(f, b) \in Seq(Blocks(f))
  BY <1>2, <1>3, SuccessorsAreBlocks
<1>a. /\ \A i, j \in 1 .. n : stack[i][1] = stack[j][1] => i = j
      /\ \A i, j \in 1 .. m : order[i] = order[j] => i = j
      /\ \A i \in 1 .. n : \A j \in 1 .. m : stack[i][1] # order[j]
      /\ \A i \in 1 .. n : stack[i][1] \in visited
      /\ \A j \in 1 .. m : order[j] \in visited
  BY <1>1 DEF Apart
<1>b. n \in 1 .. n /\ \A i \in 1 .. n - 1 : i \in 1 .. n /\ i # n
  BY <1>2
<1>c. b \in visited /\ b = stack[n][1] /\ stack[n][2] = Len(Successors(f, b)) /\ \A j \in 1 .. m : order[j] # b
  BY <1>a, <1>b DEF IsDone
<1>d. /\ n = 1 => b = Entry(f)
      /\ \A i \in 2 .. n : stack[i][1] \in ToSet(Successors(f, stack[i - 1][1]))
      /\ \A j \in 1 .. m : order[j] = Entry(f) \/
           \E p \in Blocks(f) :
             /\ order[j] \in ToSet(Successors(f, p))
             /\ \/ \E i \in 1 .. n : stack[i][1] = p
                \/ \E k \in 1 .. j - 1 : order[k] = p
      /\ stack[1][1] = Entry(f)
  <2>1. n >= 1 /\ CameFrom(f, stack, order) /\ (n = 1 => b = stack[1][1])
    <3>1. n >= 1
      BY <1>2
    <3>2. CameFrom(f, stack, order)
      BY <1>1
    <3>3. n = 1 => b = stack[1][1]
      OBVIOUS
    <3> QED
      BY <3>1, <3>2, <3>3
  <2> HIDE DEF b
  <2> QED
    BY <2>1 DEF CameFrom
<1> HIDE DEF n, m, b
<1>6. Apart(less, visited, more)
  <2>1. \A i, j \in 1 .. n - 1 : less[i][1] = less[j][1] => i = j
    <3>1. ASSUME NEW i \in 1 .. n - 1, NEW j \in 1 .. n - 1, less[i][1] = less[j][1] PROVE i = j
      BY <1>3, <1>a, <1>b, <3>1, SMTT(30)
    <3> QED
      BY <3>1
  <2>2. ASSUME NEW i \in 1 .. m + 1, NEW j \in 1 .. m + 1, more[i] = more[j] PROVE i = j
    <3>0. ASSUME NEW k \in 1 .. m + 1, k # 1 PROVE more[k] # more[1]
      <4>1. k - 1 \in 1 .. m /\ more[k] = order[k - 1]
        BY <1>4, <3>0
      <4> QED
        BY <1>3, <1>c, <4>1
    <3>1. CASE i = 1 \/ j = 1
      BY <2>2, <3>0, <3>1
    <3>2. CASE i # 1 /\ j # 1
      <4>1. i - 1 \in 1 .. m /\ j - 1 \in 1 .. m /\ order[i - 1] = order[j - 1]
        BY <1>4, <2>2, <3>2
      <4>2. i - 1 = j - 1
        BY <1>a, <4>1
      <4> QED
        BY <1>2, <4>2
    <3> QED
      BY <3>1, <3>2
  <2>3. ASSUME NEW i \in 1 .. n - 1, NEW j \in 1 .. m + 1 PROVE less[i][1] # more[j]
    <3>1. stack[i][1] # b /\ \A k \in 1 .. m : stack[i][1] # order[k]
      BY <1>a, <1>b, <1>c
    <3> QED
      BY <1>3, <1>4, <3>1
  <2>4. \A i \in 1 .. n - 1 : less[i][1] \in visited
    BY <1>3, <1>a, <1>b
  <2>5. \A j \in 1 .. m + 1 : more[j] \in visited
    BY <1>4, <1>a, <1>c
  <2>6. ASSUME NEW c \in visited
        PROVE  (\E i \in 1 .. n - 1 : less[i][1] = c) \/ \E j \in 1 .. m + 1 : more[j] = c
    <3>1. CASE \E i \in 1 .. n : stack[i][1] = c
      <4>1. PICK i \in 1 .. n : stack[i][1] = c
        BY <3>1
      <4>2. CASE i = n
        <5>1. 1 \in 1 .. m + 1 /\ more[1] = c
          BY <1>2, <1>3, <1>c, <4>1, <4>2
        <5> QED
          BY <5>1
      <4>3. CASE i # n
        <5>1. i \in 1 .. n - 1 /\ less[i][1] = c
          BY <1>2, <1>3, <4>1, <4>3
        <5> QED
          BY <5>1
      <4> QED
        BY <4>2, <4>3
    <3>2. CASE \E j \in 1 .. m : order[j] = c
      <4>1. PICK j \in 1 .. m : order[j] = c
        BY <3>2
      <4>2. j + 1 \in 1 .. m + 1 /\ more[j + 1] = c
        BY <1>2, <1>3, <4>1
      <4> QED
        BY <4>2
    <3> QED
      BY <1>1, <3>1, <3>2 DEF Apart, n, m
  <2> QED
    BY <1>2, <2>1, <2>2, <2>3, <2>4, <2>5, <2>6 DEF Apart
<1>7. LookedAt(f, less, visited, more)
  <2>1. ToSet(Successors(f, b)) \subseteq visited
    <3>1. \A k \in 1 .. Len(Successors(f, b)) : Successors(f, b)[k] \in visited
      BY <1>1, <1>b, <1>c DEF LookedAt, n
    <3> QED
      BY <1>5, <3>1 DEF ToSet
  <2>2. \A j \in 1 .. m + 1 : ToSet(Successors(f, more[j])) \subseteq visited
    <3>1. \A j \in 1 .. m : ToSet(Successors(f, order[j])) \subseteq visited
      BY <1>1 DEF LookedAt, m
    <3> QED
      BY <1>2, <1>4, <2>1, <3>1
  <2>3. ASSUME NEW i \in 1 .. n - 1
        PROVE  /\ less[i][2] <= Len(Successors(f, less[i][1]))
               /\ \A k \in 1 .. less[i][2] : Successors(f, less[i][1])[k] \in visited
    <3>1. i \in 1 .. n /\ less[i] = stack[i]
      BY <1>2, <1>3
    <3> QED
      BY <1>1, <3>1 DEF LookedAt, n
  <2> QED
    BY <1>2, <2>2, <2>3 DEF LookedAt
<1>8. CameFrom(f, less, more)
  <2>1. n - 1 >= 1 => less[1][1] = Entry(f)
    BY <1>2, <1>3, <1>d
  <2>2. n - 1 = 0 => more[1] = Entry(f)
    BY <1>2, <1>3, <1>d
  <2>3. ASSUME NEW i \in 2 .. n - 1 PROVE less[i][1] \in ToSet(Successors(f, less[i - 1][1]))
    <3>1. i \in 2 .. n /\ i \in 1 .. n - 1 /\ i - 1 \in 1 .. n - 1
      BY <1>2
    <3>2. less[i] = stack[i] /\ less[i - 1] = stack[i - 1]
      BY <1>3, <3>1
    <3> QED
      BY <1>d, <3>1, <3>2
  <2>4. ASSUME NEW j \in 1 .. m + 1, more[j] # Entry(f)
        PROVE  \E p \in Blocks(f) : /\ more[j] \in ToSet(Successors(f, p))
                                    /\ \/ \E i \in 1 .. n - 1 : less[i][1] = p
                                       \/ \E k \in 1 .. j - 1 : more[k] = p
    <3>1. CASE j = 1
      <4>1. more[j] = b
        BY <1>3, <3>1
      <4>2. n \in 2 .. n
        BY <1>2, <1>d, <2>4, <4>1
      <4>3. b \in ToSet(Successors(f, stack[n - 1][1])) /\ less[n - 1] = stack[n - 1]
            /\ n - 1 \in 1 .. n - 1 /\ stack[n - 1][1] \in Blocks(f)
        BY <1>2, <1>3, <1>c, <1>d, <4>2
      <4> QED
        BY <4>1, <4>3
    <3>2. CASE j # 1
      <4>1. j - 1 \in 1 .. m /\ more[j] = order[j - 1]
        BY <1>4, <3>2
      <4>2. PICK p \in Blocks(f) : /\ order[j - 1] \in ToSet(Successors(f, p))
                                   /\ \/ \E i \in 1 .. n : stack[i][1] = p
                                      \/ \E k \in 1 .. (j - 1) - 1 : order[k] = p
        BY <1>d, <2>4, <4>1
      <4>3. ASSUME NEW i \in 1 .. n, stack[i][1] = p
            PROVE  (\E l \in 1 .. n - 1 : less[l][1] = p) \/ \E k \in 1 .. j - 1 : more[k] = p
        <5>1. CASE i = n
          <6>1. 1 \in 1 .. j - 1 /\ more[1] = p
            BY <1>2, <1>3, <1>c, <4>1, <4>3, <5>1
          <6> QED
            BY <6>1
        <5>2. CASE i # n
          <6>1. i \in 1 .. n - 1 /\ less[i][1] = p
            BY <1>2, <1>3, <4>3, <5>2
          <6> QED
            BY <6>1
        <5> QED
          BY <5>1, <5>2
      <4>4. ASSUME NEW k \in 1 .. (j - 1) - 1, order[k] = p PROVE \E l \in 1 .. j - 1 : more[l] = p
        <5>1. k + 1 \in 1 .. j - 1 /\ k \in 1 .. m
          BY <1>2, <4>1
        <5>2. more[k + 1] = p
          BY <1>3, <4>4, <5>1
        <5> QED
          BY <5>1, <5>2
      <4> QED
        BY <4>1, <4>2, <4>3, <4>4
    <3> QED
      BY <3>1, <3>2
  <2>5. Len(less) = n - 1 /\ Len(more) = m + 1 /\ m + 1 >= 1
    BY <1>2
  <2>6. /\ Len(less) >= 1 => less[1][1] = Entry(f)
        /\ Len(less) = 0 => Len(more) >= 1 /\ more[1] = Entry(f)
        /\ \A i \in 2 .. Len(less) : less[i][1] \in ToSet(Successors(f, less[i - 1][1]))
    BY <2>1, <2>2, <2>3, <2>5
  <2>7. \A j \in 1 .. Len(more) : more[j] = Entry(f) \/
          \E p \in Blocks(f) :
            /\ more[j] \in ToSet(Successors(f, p))
            /\ \/ \E i \in 1 .. Len(less) : less[i][1] = p
               \/ \E k \in 1 .. j - 1 : more[k] = p
    BY <2>4, <2>5, Zenon
  <2> QED
    BY <2>6, <2>7 DEF CameFrom
<1>9. Searching(f, less, visited, more)
  BY <1>1, <1>6, <1>7, <1>8 DEF Searching
<1>10. ASSUME NEW x \in Passed(f, stack, order) PROVE x \in Passed(f, less, more)
  <2>1. x \in Frames(f)
    BY DEF Passed
  <2>2. ASSUME NEW j \in 1 .. m, order[j] = x[1] PROVE \E l \in 1 .. m + 1 : more[l] = x[1]
    <3>1. j + 1 \in 1 .. m + 1 /\ more[j + 1] = x[1]
      BY <1>2, <1>3, <2>2
    <3> QED
      BY <3>1
  <2>3. ASSUME NEW i \in 1 .. n, stack[i][1] = x[1], x[2] <= stack[i][2]
        PROVE  \/ \E l \in 1 .. n - 1 : less[l][1] = x[1] /\ x[2] <= less[l][2]
               \/ \E l \in 1 .. m + 1 : more[l] = x[1]
    <3>1. CASE i = n
      <4>1. 1 \in 1 .. m + 1 /\ more[1] = x[1]
        BY <1>2, <1>3, <1>c, <2>3, <3>1
      <4> QED
        BY <4>1
    <3>2. CASE i # n
      <4>1. i \in 1 .. n - 1 /\ less[i] = stack[i]
        BY <1>2, <1>3, <3>2
      <4> QED
        BY <2>3, <4>1
    <3> QED
      BY <3>1, <3>2
  <2> QED
    BY <1>2, <2>1, <2>2, <2>3 DEF Passed, n, m
<1>11. \E x \in Passed(f, less, more) : x \notin Passed(f, stack, order)
  <2> DEFINE x == <<b, 0>>
  <2>1. x \in Frames(f)
    BY <1>5 DEF Frames
  <2>2. x \in Passed(f, less, more)
    <3>1. 1 \in 1 .. m + 1 /\ more[1] = x[1]
      BY <1>2, <1>3
    <3> QED
      BY <1>2, <2>1, <3>1 DEF Passed
  <2>3. x \notin Passed(f, stack, order)
    <3> QED
      BY <1>c DEF Passed, m
  <2> QED
    BY <2>2, <2>3
<1> QED
  BY <1>9, <1>10, <1>11

\* Looking at the next successor of a block keeps it.
LEMMA LookingKeeps ==
    ASSUME NEW f, IsFunction(f), NEW stack, NEW visited, NEW order, Searching(f, stack, visited, order),
           NEW child, IsNext(f, stack, child),
           NEW looked \in Seq(Blocks(f) \X Nat), IsLooked(stack, visited, child, looked)
    PROVE  /\ Searching(f, looked, visited \cup {child}, order)
           /\ Passed(f, stack, order) \subseteq Passed(f, looked, order)
           /\ \E x \in Passed(f, looked, order) : x \notin Passed(f, stack, order)
<1> DEFINE n == Len(stack)
           m == Len(order)
           l == Len(looked)
           b == stack[n][1]
           k == stack[n][2]
           seen == visited \cup {child}
<1>1. /\ stack \in Seq(Blocks(f) \X Nat) /\ visited \in SUBSET Blocks(f) /\ order \in Seq(Blocks(f))
      /\ Apart(stack, visited, order) /\ LookedAt(f, stack, visited, order) /\ CameFrom(f, stack, order)
  BY DEF Searching
<1>2. n \in Nat \ {0} /\ m \in Nat /\ (l = n \/ l = n + 1) /\ l \in Nat
  BY <1>1 DEF IsLooked, IsNext
<1>3. /\ \A i \in 1 .. n : stack[i] \in Blocks(f) \X Nat /\ stack[i][1] \in Blocks(f) /\ stack[i][2] \in Nat
      /\ \A i \in 1 .. l : looked[i] \in Blocks(f) \X Nat /\ looked[i][1] \in Blocks(f) /\ looked[i][2] \in Nat
  <2> DEFINE X == Blocks(f) \X Nat
  <2>1. stack \in Seq(X) /\ looked \in Seq(X)
    BY <1>1
  <2>2. \A x \in X : x[1] \in Blocks(f) /\ x[2] \in Nat
    OBVIOUS
  <2> HIDE DEF X
  <2>3. (\A i \in 1 .. n : stack[i] \in X) /\ \A i \in 1 .. l : looked[i] \in X
    BY <2>1
  <2> QED
    BY <2>2, <2>3 DEF X
<1>4. n \in 1 .. n /\ \A i \in 1 .. n : i = n \/ i \in 1 .. n - 1
  BY <1>2
<1>5. b \in Blocks(f) /\ k \in Nat /\ Successors(f, b) \in Seq(Blocks(f))
  BY <1>3, <1>4, SuccessorsAreBlocks
<1>6. /\ k < Len(Successors(f, b)) /\ child = Successors(f, b)[k + 1] /\ child \in Blocks(f)
      /\ child \in ToSet(Successors(f, b))
  BY <1>5 DEF ToSet, IsNext
<1>7. /\ \A i \in 1 .. n : looked[i][1] = stack[i][1] /\ stack[i][2] <= looked[i][2]
      /\ \A i \in 1 .. n - 1 : looked[i] = stack[i]
      /\ looked[n][2] = k + 1
  <2>1. looked[n] = <<b, k + 1>> /\ \A i \in 1 .. n - 1 : looked[i] = stack[i]
    BY DEF IsLooked
  <2>2. looked[n][1] = b /\ looked[n][2] = k + 1 /\ k <= k + 1
    BY <1>5, <2>1
  <2>3. \A i \in 1 .. n - 1 : looked[i][1] = stack[i][1] /\ stack[i][2] <= looked[i][2]
    <3> SUFFICES ASSUME NEW i \in 1 .. n - 1
                 PROVE  looked[i][1] = stack[i][1] /\ stack[i][2] <= looked[i][2]
      OBVIOUS
    <3>1. i \in 1 .. n
      BY <1>2
    <3>2. looked[i] = stack[i] /\ stack[i][2] \in Nat
      BY <1>3, <2>1, <3>1
    <3> QED
      BY <3>2
  <2> HIDE DEF n
  <2> QED
    BY <1>4, <2>1, <2>2, <2>3 DEF b, k
<1>8. \A i \in 1 .. l : i \in 1 .. n \/ (i = n + 1 /\ child \notin visited /\ looked[i][1] = child /\ looked[i][2] = 0)
  BY <1>2 DEF IsLooked
<1>9. \A i \in 1 .. n : i \in 1 .. l
  BY <1>2
<1>10. child \in visited \/ (l = n + 1 /\ l \in 1 .. l /\ looked[l][1] = child)
  BY <1>2 DEF IsLooked
<1>a. /\ \A i, j \in 1 .. n : stack[i][1] = stack[j][1] => i = j
      /\ \A i, j \in 1 .. m : order[i] = order[j] => i = j
      /\ \A i \in 1 .. n : \A j \in 1 .. m : stack[i][1] # order[j]
      /\ \A i \in 1 .. n : stack[i][1] \in visited
      /\ \A j \in 1 .. m : order[j] \in visited
      /\ \A c \in visited : \/ \E i \in 1 .. n : stack[i][1] = c
                            \/ \E j \in 1 .. m : order[j] = c
  BY <1>1 DEF Apart
<1>b. /\ \A i \in 1 .. n :
           /\ stack[i][2] <= Len(Successors(f, stack[i][1]))
           /\ \A o \in 1 .. stack[i][2] : Successors(f, stack[i][1])[o] \in visited
      /\ \A j \in 1 .. m : ToSet(Successors(f, order[j])) \subseteq visited
  BY <1>1 DEF LookedAt
<1>c. /\ stack[1][1] = Entry(f)
      /\ \A i \in 2 .. n : stack[i][1] \in ToSet(Successors(f, stack[i - 1][1]))
      /\ \A j \in 1 .. m : order[j] = Entry(f) \/
           \E p \in Blocks(f) :
             /\ order[j] \in ToSet(Successors(f, p))
             /\ \/ \E i \in 1 .. n : stack[i][1] = p
                \/ \E o \in 1 .. j - 1 : order[o] = p
  <2>1. n >= 1 /\ CameFrom(f, stack, order)
    BY <1>1, <1>2
  <2> QED
    BY <2>1 DEF CameFrom
<1>d. stack[n][1] = b /\ stack[n][2] = k
  OBVIOUS
<1> HIDE DEF n, m, l, b, k
<1>11. Apart(looked, seen, order)
  <2>1. ASSUME NEW i \in 1 .. l, NEW j \in 1 .. l, looked[i][1] = looked[j][1] PROVE i = j
    <3>1. CASE i \in 1 .. n /\ j \in 1 .. n
      BY <1>7, <1>a, <2>1, <3>1
    <3>2. CASE i \in 1 .. n /\ j \notin 1 .. n
      <4>1. looked[j][1] = child /\ child \notin visited
        BY <1>8, <3>2
      <4> QED
        BY <1>7, <1>a, <2>1, <3>2, <4>1
    <3>3. CASE i \notin 1 .. n /\ j \in 1 .. n
      <4>1. looked[i][1] = child /\ child \notin visited
        BY <1>8, <3>3
      <4> QED
        BY <1>7, <1>a, <2>1, <3>3, <4>1
    <3>4. CASE i \notin 1 .. n /\ j \notin 1 .. n
      BY <1>8, <3>4
    <3> QED
      BY <3>1, <3>2, <3>3, <3>4
  <2>2. ASSUME NEW i \in 1 .. l, NEW j \in 1 .. m PROVE looked[i][1] # order[j]
    <3>1. CASE i \in 1 .. n
      BY <1>7, <1>a, <3>1
    <3>2. CASE i \notin 1 .. n
      <4>1. looked[i][1] = child /\ child \notin visited
        BY <1>8, <3>2
      <4> QED
        BY <1>a, <4>1
    <3> QED
      BY <3>1, <3>2
  <2>3. \A i \in 1 .. l : looked[i][1] \in seen
    BY <1>7, <1>8, <1>a
  <2>4. ASSUME NEW c \in seen
        PROVE  (\E i \in 1 .. l : looked[i][1] = c) \/ \E j \in 1 .. m : order[j] = c
    <3>1. CASE c \in visited
      BY <1>7, <1>9, <1>a, <3>1
    <3>2. CASE c \notin visited
      BY <1>10, <3>2
    <3> QED
      BY <3>1, <3>2
  <2>5. (\A i, j \in 1 .. m : order[i] = order[j] => i = j) /\ \A j \in 1 .. m : order[j] \in seen
    BY <1>a
  <2> HIDE DEF seen
  <2> QED
    BY <2>1, <2>2, <2>3, <2>4, <2>5 DEF Apart, l, m
<1>12. LookedAt(f, looked, seen, order)
  <2>1. ASSUME NEW i \in 1 .. l
        PROVE  /\ looked[i][2] <= Len(Successors(f, looked[i][1]))
               /\ \A o \in 1 .. looked[i][2] : Successors(f, looked[i][1])[o] \in seen
    <3>1. CASE i = n + 1 /\ looked[i][2] = 0 /\ looked[i][1] = child
      <4>1. Len(Successors(f, child)) \in Nat
        BY <1>6, SuccessorsAreBlocks
      <4> QED
        BY <3>1, <4>1
    <3>2. CASE i \in 1 .. n - 1
      <4>1. i \in 1 .. n /\ looked[i] = stack[i]
        BY <1>2, <1>7, <3>2
      <4> QED
        BY <1>b, <4>1
    <3>3. CASE i = n
      <4>1. looked[i][1] = b /\ looked[i][2] = k + 1
        BY <1>4, <1>7, <1>d, <3>3
      <4>2. \A o \in 1 .. k : Successors(f, b)[o] \in visited
        BY <1>4, <1>b, <1>d
      <4>3. \A o \in 1 .. k + 1 : o \in 1 .. k \/ o = k + 1
        BY <1>5
      <4>4. Len(Successors(f, b)) \in Nat
        BY <1>5
      <4> QED
        BY <1>5, <1>6, <4>1, <4>2, <4>3, <4>4
    <3> QED
      BY <1>4, <1>8, <3>1, <3>2, <3>3
  <2>2. \A j \in 1 .. m : ToSet(Successors(f, order[j])) \subseteq seen
    BY <1>b
  <2> HIDE DEF seen
  <2> QED
    BY <2>1, <2>2 DEF LookedAt, l, m
<1>13. CameFrom(f, looked, order)
  <2>1. looked[1][1] = Entry(f)
    BY <1>2, <1>7, <1>c
  <2>2. ASSUME NEW i \in 2 .. l PROVE looked[i][1] \in ToSet(Successors(f, looked[i - 1][1]))
    <3>1. CASE i \in 1 .. n
      <4>1. i \in 2 .. n /\ i - 1 \in 1 .. n
        BY <1>2, <3>1
      <4> QED
        BY <1>7, <1>c, <3>1, <4>1
    <3>2. CASE i = n + 1 /\ looked[i][1] = child
      <4>1. i - 1 = n /\ looked[i - 1][1] = b
        BY <1>2, <1>4, <1>7, <1>d, <3>2
      <4> QED
        BY <1>6, <3>2, <4>1
    <3>3. i \in 1 .. l
      BY <1>2
    <3> QED
      BY <1>8, <3>1, <3>2, <3>3
  <2>3. ASSUME NEW j \in 1 .. m, order[j] # Entry(f)
        PROVE  \E p \in Blocks(f) : /\ order[j] \in ToSet(Successors(f, p))
                                    /\ \/ \E i \in 1 .. l : looked[i][1] = p
                                       \/ \E o \in 1 .. j - 1 : order[o] = p
    <3>1. PICK p \in Blocks(f) : /\ order[j] \in ToSet(Successors(f, p))
                                 /\ \/ \E i \in 1 .. n : stack[i][1] = p
                                    \/ \E o \in 1 .. j - 1 : order[o] = p
      BY <1>c, <2>3
    <3>2. ASSUME NEW i \in 1 .. n, stack[i][1] = p PROVE i \in 1 .. l /\ looked[i][1] = p
      BY <1>7, <1>9, <3>2
    <3> QED
      BY <3>1, <3>2
  <2>4. ~(l = 0)
    BY <1>2
  <2> QED
    BY <2>1, <2>2, <2>3, <2>4 DEF CameFrom, l, m
<1>14. seen \in SUBSET Blocks(f)
  BY <1>1, <1>6
<1>15. Searching(f, looked, seen, order)
  BY <1>1, <1>11, <1>12, <1>13, <1>14 DEF Searching
<1>16. ASSUME NEW x \in Passed(f, stack, order) PROVE x \in Passed(f, looked, order)
  <2>1. x \in Frames(f) /\ x[2] \in Nat
    <3>1. x \in Frames(f)
      BY DEF Passed
    <3> QED
      BY <3>1 DEF Frames
  <2>2. ASSUME NEW i \in 1 .. n, stack[i][1] = x[1], x[2] <= stack[i][2]
        PROVE  i \in 1 .. l /\ looked[i][1] = x[1] /\ x[2] <= looked[i][2]
    BY <1>3, <1>7, <1>9, <2>1, <2>2
  <2> QED
    BY <2>1, <2>2 DEF Passed, n, l
<1>17. \E x \in Passed(f, looked, order) : x \notin Passed(f, stack, order)
  <2> DEFINE x == <<b, k + 1>>
  <2>1. x \in Frames(f) /\ x[1] = b /\ x[2] = k + 1
    <3>1. k + 1 \in 0 .. Len(Successors(f, b))
      BY <1>5, <1>6
    <3> QED
      BY <1>5, <3>1 DEF Frames
  <2> HIDE DEF x
  <2>2. n \in 1 .. l /\ looked[n][1] = x[1] /\ x[2] <= looked[n][2] /\ x[2] >= 1
    BY <1>4, <1>5, <1>7, <1>9, <1>d, <2>1
  <2>3. x \in Passed(f, looked, order)
    BY <2>1, <2>2 DEF Passed, l
  <2>4. \A j \in 1 .. m : order[j] # x[1]
    BY <1>4, <1>a, <1>d, <2>1
  <2>5. ASSUME NEW i \in 1 .. n, stack[i][1] = x[1] PROVE ~(x[2] <= stack[i][2])
    <3>1. i = n /\ stack[i][2] = k
      BY <1>4, <1>a, <1>d, <2>1, <2>5
    <3> QED
      BY <1>5, <2>1, <3>1
  <2>6. x \notin Passed(f, stack, order)
    BY <2>4, <2>5 DEF Passed, n, m
  <2> QED
    BY <2>3, <2>6
<1> QED
  BY <1>15, <1>16, <1>17

-----------------------------------------------------------------------------
(* The depth-first search comes to an end *)

States(f) == [stack : Seq(Blocks(f) \X Nat), visited : SUBSET Blocks(f), order : Seq(Blocks(f))]

\* The state of the search, and how many frames it has passed: i at least, or all
SearchedFor(f, i, s) ==
    /\ s \in States(f)
    /\ Searching(f, s.stack, s.visited, s.order)
    /\ Len(s.stack) = 0 \/ Cardinality(Passed(f, s.stack, s.order)) >= i

\* The list without its last element.
LEMMA FrontIs ==
    ASSUME NEW X, NEW s \in Seq(X), s # <<>>
    PROVE  /\ Len(s) \in Nat \ {0} /\ Last(s) = s[Len(s)] /\ Last(s) \in X
           /\ Front(s) \in Seq(X) /\ Len(Front(s)) = Len(s) - 1
           /\ \A i \in 1 .. Len(s) - 1 : Front(s)[i] = s[i]
<1>1. Len(s) \in Nat \ {0} /\ Last(s) = s[Len(s)] /\ s[Len(s)] \in X
  BY DEF Last
<1>2. Front(s) = SubSeq(s, 1, Len(s) - 1)
  BY DEF Front
<1> DEFINE w == [i \in 1 .. Len(s) - 1 |-> s[i]]
<1>3. SubSeq(s, 1, Len(s) - 1) = w
  <2> DEFINE n == Len(s) - 1
  <2>1. \A i \in 1 .. n : s[1 + i - 1] = s[i]
    OBVIOUS
  <2>2. (1 .. (n - 1) + 1) = 1 .. n
    BY <1>1
  <2> HIDE DEF n
  <2> QED
    BY <2>1, <2>2 DEF n
<1>4. w \in Seq(X) /\ Len(w) = Len(s) - 1 /\ \A i \in 1 .. Len(s) - 1 : w[i] = s[i]
  BY <1>1
<1> QED
  BY <1>1, <1>2, <1>3, <1>4

\* A larger set, in numbers.
LEMMA OneMore ==
    ASSUME NEW B, IsFiniteSet(B), NEW V \in SUBSET B, NEW W \in SUBSET B, V \subseteq W,
           \E x \in W : x \notin V
    PROVE  Cardinality(V) \in Nat /\ Cardinality(W) \in Nat /\ Cardinality(W) >= Cardinality(V) + 1
<1>1. PICK x \in W : x \notin V
  OBVIOUS
<1>2. IsFiniteSet(V) /\ IsFiniteSet(W)
  BY FS_Subset
<1>3. Cardinality(V) \in Nat /\ Cardinality(W) \in Nat
  BY <1>2, FS_CardinalityType
<1>4. Cardinality(V \cup {x}) = Cardinality(V) + 1
  BY <1>1, <1>2, FS_AddElement
<1>5. V \cup {x} \in SUBSET W
  BY <1>1
<1>6. Cardinality(V \cup {x}) <= Cardinality(W)
  BY <1>2, <1>5, FS_Subset
<1> QED
  BY <1>3, <1>4, <1>6

\* There are finitely many frames.
LEMMA FramesAreFinite ==
    ASSUME NEW f, IsFunction(f)
    PROVE  IsFiniteSet(Frames(f))
<1> DEFINE of(b) == {b} \X (0 .. Len(Successors(f, b)))
           F == [b \in Blocks(f) |-> of(b)]
           C == {of(b) : b \in Blocks(f)}
<1>1. ASSUME NEW b \in Blocks(f) PROVE IsFiniteSet(of(b))
  <2>1. Len(Successors(f, b)) \in Nat
    BY SuccessorsAreBlocks
  <2>2. IsFiniteSet({b}) /\ IsFiniteSet(0 .. Len(Successors(f, b)))
    <3> DEFINE n == Len(Successors(f, b))
    <3>1. 0 \in Int /\ n \in Int
      BY <2>1
    <3> HIDE DEF n
    <3>2. IsFiniteSet(0 .. n)
      BY <3>1, FS_Interval
    <3> QED
      BY <3>2, FS_Singleton DEF n
  <2> DEFINE A == {b}
             L == 0 .. Len(Successors(f, b))
  <2> HIDE DEF A, L
  <2>3. IsFiniteSet(A \X L)
    BY <2>2, FS_Product DEF A, L
  <2> QED
    BY <2>3 DEF A, L
<1> HIDE DEF of
<1>2. F \in Surjection(Blocks(f), C)
  BY DEF Surjection
<1>3. IsFiniteSet(C)
  <2> HIDE DEF F, C
  <2> QED
    BY <1>2, OrderHasBlocks, FS_Surjection
<1>4. IsFiniteSet(UNION C)
  BY <1>1, <1>3, FS_UNION
<1> QED
  BY <1>4 DEF Frames, of

\* One look at the top of the stack passes a frame.
LEMMA LookSearches ==
    ASSUME NEW f, IsFunction(f), NEW i \in Nat, NEW s, SearchedFor(f, i, s)
    PROVE  SearchedFor(f, i + 1, LookAtTop(f, s))
<1> DEFINE stack == s.stack
           visited == s.visited
           order == s.order
           n == Len(stack)
           b == stack[n][1]
           k == stack[n][2]
           succ == Successors(f, b)
           child == succ[k + 1]
<1>1. /\ s \in States(f) /\ Searching(f, stack, visited, order)
      /\ stack \in Seq(Blocks(f) \X Nat) /\ visited \in SUBSET Blocks(f) /\ order \in Seq(Blocks(f))
      /\ n \in Nat /\ (stack = <<>> <=> n = 0)
      /\ s = [stack |-> stack, visited |-> visited, order |-> order]
  BY DEF SearchedFor, States
<1>2. CASE stack = <<>>
  <2>1. LookAtTop(f, s) = s
    BY <1>2 DEF LookAtTop
  <2> QED
    BY <1>1, <1>2, <2>1 DEF SearchedFor
<1>3. CASE stack # <<>>
  <2>1. /\ n \in Nat \ {0} /\ Last(stack) = stack[n] /\ stack[n] \in Blocks(f) \X Nat
        /\ Front(stack) \in Seq(Blocks(f) \X Nat) /\ Len(Front(stack)) = n - 1
        /\ \A j \in 1 .. n - 1 : Front(stack)[j] = stack[j]
    <3> DEFINE X == Blocks(f) \X Nat
    <3>1. stack \in Seq(X) /\ stack # <<>>
      BY <1>1, <1>3
    <3> HIDE DEF stack, X
    <3>2. /\ n \in Nat \ {0} /\ Last(stack) = stack[n] /\ Last(stack) \in X
          /\ Front(stack) \in Seq(X) /\ Len(Front(stack)) = n - 1
          /\ \A j \in 1 .. n - 1 : Front(stack)[j] = stack[j]
      BY <3>1, FrontIs
    <3> QED
      BY <3>2 DEF X
  <2>2. b \in Blocks(f) /\ k \in Nat /\ succ \in Seq(Blocks(f)) /\ k <= Len(succ) /\ Len(succ) \in Nat
    <3> HIDE DEF stack, visited, order
    <3>1. b \in Blocks(f) /\ k \in Nat
      BY <2>1
    <3>2. LookedAt(f, stack, visited, order)
      BY <1>1 DEF Searching
    <3>3. n \in 1 .. n
      BY <2>1
    <3>4. k <= Len(succ)
      BY <3>2, <3>3 DEF LookedAt
    <3> QED
      BY <3>1, <3>4, SuccessorsAreBlocks
  <2>3. ASSUME NEW u, NEW st, NEW vi, NEW or, u = [stack |-> st, visited |-> vi, order |-> or],
               Searching(f, st, vi, or),
               Passed(f, stack, order) \subseteq Passed(f, st, or),
               \E x \in Passed(f, st, or) : x \notin Passed(f, stack, order)
        PROVE  SearchedFor(f, i + 1, u)
    <3>1. u.stack = st /\ u.visited = vi /\ u.order = or /\ u \in States(f)
      BY <2>3 DEF Searching, States
    <3>2. Cardinality(Passed(f, stack, order)) >= i
      BY <1>1, <1>3 DEF SearchedFor
    <3>3. /\ Passed(f, stack, order) \in SUBSET Frames(f)
          /\ Passed(f, st, or) \in SUBSET Frames(f)
      BY DEF Passed
    <3> HIDE DEF stack, order
    <3>4. /\ Cardinality(Passed(f, st, or)) \in Nat /\ Cardinality(Passed(f, stack, order)) \in Nat
          /\ Cardinality(Passed(f, st, or)) >= Cardinality(Passed(f, stack, order)) + 1
      BY <2>3, <3>3, FramesAreFinite, OneMore
    <3>5. Cardinality(Passed(f, st, or)) >= i + 1
      BY <3>2, <3>4
    <3> QED
      BY <2>3, <3>1, <3>5 DEF SearchedFor
  <2>4. CASE k = Len(succ)
    <3> DEFINE less == Front(stack)
               more == <<b>> \o order
    <3>1. LookAtTop(f, s) = [stack |-> less, visited |-> visited, order |-> more]
      <4>1. Last(s.stack) = stack[n] /\ s.stack # <<>>
        BY <1>3, <2>1
      <4> QED
        BY <1>1, <2>4, <4>1 DEF LookAtTop
    <3> HIDE DEF stack, visited, order
    <3>2. more \in Seq(Blocks(f))
      BY <1>1, <2>2
    <3>3. IsLeft(stack, order, less, more)
      <4>1. Len(more) = Len(order) + 1 /\ more[1] = b /\ \A j \in 1 .. Len(order) : more[j + 1] = order[j]
        BY <1>1, <2>2
      <4> HIDE DEF more
      <4> QED
        BY <2>1, <4>1 DEF IsLeft
    <3>4. less \in Seq(Blocks(f) \X Nat)
      BY <2>1
    <3>5. n >= 1 /\ k = Len(Successors(f, b))
      BY <2>1, <2>4
    <3> HIDE DEF more, less
    <3>6. /\ Searching(f, less, visited, more)
          /\ Passed(f, stack, order) \subseteq Passed(f, less, more)
          /\ \E x \in Passed(f, less, more) : x \notin Passed(f, stack, order)
      <4>1. IsDone(f, stack)
        BY <3>5 DEF IsDone
      <4> QED
        BY <1>1, <3>2, <3>3, <3>4, <4>1, LeavingKeeps
    <3> QED
      BY <2>3, <3>1, <3>6
  <2>5. CASE k # Len(succ)
    <3> DEFINE once == Append(Front(stack), <<b, k + 1>>)
               looked == IF child \in visited THEN once ELSE Append(once, <<child, 0>>)
    <3>1. child \in Blocks(f) /\ <<b, k + 1>> \in Blocks(f) \X Nat
      BY <2>2, <2>5
    <3>2. LookAtTop(f, s) = [stack |-> looked, visited |-> visited \cup {child}, order |-> order]
      <4>0. Last(s.stack) = stack[n] /\ s.stack # <<>>
        BY <1>3, <2>1
      <4>1. CASE child \in visited
        BY <1>1, <2>5, <4>0, <4>1 DEF LookAtTop
      <4>2. CASE child \notin visited
        BY <1>1, <2>5, <4>0, <4>2 DEF LookAtTop
      <4> QED
        BY <4>1, <4>2
    <3> HIDE DEF stack, visited, order
    <3>3. once \in Seq(Blocks(f) \X Nat) /\ Len(once) = n /\ once[n] = <<b, k + 1>>
          /\ \A j \in 1 .. n - 1 : once[j] = stack[j]
      <4> DEFINE next == <<b, k + 1>>
                 base == Front(stack)
                 X == Blocks(f) \X Nat
      <4>1. base \in Seq(X) /\ Len(base) = n - 1 /\ next \in X /\ \A j \in 1 .. n - 1 : base[j] = stack[j]
        BY <2>1, <3>1
      <4>2. n \in Nat \ {0}
        BY <2>1
      <4> HIDE DEF next, base, X, n
      <4>3. Append(base, next) \in Seq(X) /\ Len(Append(base, next)) = n /\ Append(base, next)[n] = next
        BY <4>1, <4>2
      <4>4. \A j \in 1 .. n - 1 : Append(base, next)[j] = base[j]
        BY <4>1, <4>2
      <4> QED
        BY <4>1, <4>3, <4>4 DEF next, base, X
    <3>4. looked \in Seq(Blocks(f) \X Nat) /\ IsLooked(stack, visited, child, looked)
      <4> HIDE DEF once, child
      <4>1. looked \in Seq(Blocks(f) \X Nat)
        BY <3>1, <3>3
      <4>2. CASE child \in visited
        BY <2>1, <3>3, <4>1, <4>2 DEF IsLooked
      <4>3. CASE child \notin visited
        <5>1. Len(looked) = n + 1 /\ looked[n + 1] = <<child, 0>> /\ \A j \in 1 .. n : looked[j] = once[j]
          BY <3>1, <3>3, <4>3
        <5> HIDE DEF looked
        <5>2. \A j \in 1 .. n - 1 : looked[j] = stack[j]
          BY <2>1, <3>3, <5>1
        <5>3. n \in 1 .. n
          BY <2>1
        <5>4. looked[n] = <<b, k + 1>>
          BY <3>3, <5>1, <5>3
        <5> QED
          BY <4>1, <4>3, <5>1, <5>2, <5>4 DEF IsLooked
      <4> QED
        BY <4>2, <4>3
    <3>5. n >= 1 /\ k < Len(Successors(f, b))
      BY <2>1, <2>2, <2>5
    <3> HIDE DEF looked
    <3>6. /\ Searching(f, looked, visited \cup {child}, order)
          /\ Passed(f, stack, order) \subseteq Passed(f, looked, order)
          /\ \E x \in Passed(f, looked, order) : x \notin Passed(f, stack, order)
      <4>1. IsNext(f, stack, child)
        BY <3>5 DEF IsNext
      <4> HIDE DEF child, n, b, k, succ
      <4> QED
        BY <1>1, <3>4, <4>1, LookingKeeps
    <3> QED
      BY <2>3, <3>2, <3>6
  <2> QED
    BY <2>4, <2>5
<1> QED
  BY <1>2, <1>3

-----------------------------------------------------------------------------
(* The order the search leaves *)

\* The search starts at the entry.
LEMMA StartSearches ==
    ASSUME NEW f, IsFunction(f)
    PROVE  SearchedFor(f, 0, [stack |-> <<<<Entry(f), 0>>>>, visited |-> {Entry(f)}, order |-> <<>>])
<1> DEFINE e == Entry(f)
           frame == <<e, 0>>
           stack == <<frame>>
           s == [stack |-> stack, visited |-> {e}, order |-> <<>>]
<1>1. e \in Blocks(f) /\ Successors(f, e) \in Seq(Blocks(f)) /\ Len(Successors(f, e)) \in Nat
  BY OrderHasBlocks, SuccessorsAreBlocks
<1>2. frame \in Blocks(f) \X Nat /\ frame[1] = e /\ frame[2] = 0
  BY <1>1
<1> HIDE DEF frame, e
<1>3. stack \in Seq(Blocks(f) \X Nat) /\ Len(stack) = 1 /\ stack[1] = frame
  BY <1>2
<1>4. Len(<<>>) = 0
  OBVIOUS
<1>5. s \in States(f) /\ s.stack = stack /\ s.visited = {e} /\ s.order = <<>>
  BY <1>1, <1>3 DEF States
<1> HIDE DEF stack
<1>6. \A i \in 1 .. 1 : i = 1
  OBVIOUS
<1>7. Apart(stack, {e}, <<>>)
  BY <1>2, <1>3, <1>4, <1>6 DEF Apart
<1>8. LookedAt(f, stack, {e}, <<>>)
  BY <1>1, <1>2, <1>3, <1>4, <1>6 DEF LookedAt
<1>9. CameFrom(f, stack, <<>>)
  BY <1>2, <1>3, <1>4 DEF CameFrom, e
<1>10. Searching(f, stack, {e}, <<>>)
  BY <1>1, <1>3, <1>7, <1>8, <1>9 DEF Searching
<1>11. Cardinality(Passed(f, stack, <<>>)) >= 0
  <2>1. Passed(f, stack, <<>>) \in SUBSET Frames(f)
    BY DEF Passed
  <2>2. IsFiniteSet(Passed(f, stack, <<>>))
    BY <2>1, FramesAreFinite, FS_Subset
  <2>3. Cardinality(Passed(f, stack, <<>>)) \in Nat
    BY <2>2, FS_CardinalityType
  <2> QED
    BY <2>3
<1>12. SearchedFor(f, 0, s)
  BY <1>5, <1>10, <1>11 DEF SearchedFor
<1> QED
  BY <1>12 DEF stack, frame, e

\* The search ends with an empty stack.
LEMMA SearchEnds ==
    ASSUME NEW f, IsFunction(f)
    PROVE  \E visited : Searching(f, <<>>, visited, ReversePostorder(f))
<1> DEFINE N == Cardinality(Frames(f))
           rounds == [n \in 1 .. N |-> n]
           D == States(f)
           s0 == [stack |-> <<<<Entry(f), 0>>>>, visited |-> {Entry(f)}, order |-> <<>>]
           Step(x) == LookAtTop(f, x)
           F == [i \in 1 .. N |-> [x \in D |-> IF Step(x) \in D THEN Step(x) ELSE x]]
           g[i \in 0 .. Len(rounds)] ==
             IF i = 0 THEN s0 ELSE CHOOSE w \in {Step(prefix) : prefix \in {g[i - 1]}} : TRUE
           Good(i, x) == SearchedFor(f, i, x)
<1>0. N \in Nat
  BY FramesAreFinite, FS_CardinalityType
<1>1. ReversePostorder(f) = g[Len(rounds)].order
  BY Zenon DEF ReversePostorder, PrefixByPrefix
<1>2. Len(rounds) = N
  BY <1>0
<1>3. ASSUME NEW i \in 1 .. N, NEW x, Good(i - 1, x) PROVE Good(i, Step(x)) /\ Step(x) \in D /\ x \in D
  <2>1. i - 1 \in Nat /\ (i - 1) + 1 = i
    BY <1>0
  <2>2. SearchedFor(f, (i - 1) + 1, Step(x))
    BY <1>3, <2>1, LookSearches
  <2> QED
    BY <1>3, <2>1, <2>2 DEF SearchedFor
<1>4. Good(0, s0) /\ s0 \in D
  BY StartSearches DEF SearchedFor
<1> HIDE DEF Step, D, Good, N, s0, rounds
<1>5. PICK h : IsLoop(h, N, D, s0, F)
  <2>1. F \in [1 .. N -> [D -> D]]
    OBVIOUS
  <2> HIDE DEF F
  <2> QED
    BY <1>0, <1>4, <2>1, LoopExists
<1>6. h \in [0 .. N -> D] /\ h[0] = s0 /\ \A i \in 1 .. N : h[i] = F[i][h[i - 1]]
  BY <1>5 DEF IsLoop
<1> DEFINE S == {i \in 0 .. N : Good(i, h[i])}
<1>7. ASSUME NEW i \in 1 .. N, Good(i - 1, h[i - 1]) PROVE h[i] = Step(h[i - 1]) /\ Good(i, h[i])
  <2>1. h[i] = F[i][h[i - 1]] /\ h[i - 1] \in D
    BY <1>0, <1>6
  <2>2. Good(i, Step(h[i - 1])) /\ Step(h[i - 1]) \in D
    BY <1>3, <1>7
  <2> QED
    BY <2>1, <2>2
<1>8. \A i \in 0 .. N : i \in S
  <2>1. 0 \in S
    BY <1>0, <1>4, <1>6
  <2>2. \A i \in 1 .. N : i - 1 \in S => i \in S
    BY <1>0, <1>7
  <2> HIDE DEF S
  <2> QED
    BY <1>0, <2>1, <2>2, Rounds
<1>9. \A i \in 1 .. N : h[i] = Step(h[i - 1])
  <2> SUFFICES ASSUME NEW i \in 1 .. N PROVE h[i] = Step(h[i - 1])
    OBVIOUS
  <2>1. i - 1 \in S
    BY <1>0, <1>8
  <2> QED
    BY <1>7, <2>1
<1> HIDE DEF F
<1>10. \A u, i : (CHOOSE w \in {Step(prefix) : prefix \in {u[i - 1]}} : TRUE) = Step(u[i - 1])
  OBVIOUS
<1>11. h = [i \in 0 .. Len(rounds) |->
              IF i = 0 THEN s0 ELSE CHOOSE w \in {Step(prefix) : prefix \in {h[i - 1]}} : TRUE]
  <2>1. \A i \in 0 .. N : i # 0 => i \in 1 .. N
    BY <1>0
  <2> QED
    BY <1>2, <1>6, <1>9, <1>10, <2>1
<1>12. g = [i \in 0 .. Len(rounds) |->
              IF i = 0 THEN s0 ELSE CHOOSE w \in {Step(prefix) : prefix \in {g[i - 1]}} : TRUE]
  BY <1>11, Zenon
<1> HIDE DEF g
<1> DEFINE E == {i \in 0 .. N : g[i] = h[i]}
<1>13. \A i \in 0 .. N : i \in E
  <2>1. 0 \in E
    BY <1>0, <1>2, <1>6, <1>12
  <2>2. ASSUME NEW i \in 1 .. N, i - 1 \in E PROVE i \in E
    <3>1. i \in 0 .. N /\ i # 0
      BY <1>0
    <3>2. g[i] = CHOOSE w \in {Step(prefix) : prefix \in {g[i - 1]}} : TRUE
      BY <1>2, <1>12, <3>1
    <3>3. g[i] = Step(g[i - 1])
      BY <1>10, <3>2
    <3> QED
      BY <1>9, <2>2, <3>1, <3>3
  <2> HIDE DEF E
  <2> QED
    BY <1>0, <2>1, <2>2, Rounds
<1> DEFINE s == g[N]
<1>14. SearchedFor(f, N, s)
  <2>1. N \in S /\ N \in E
    BY <1>0, <1>8, <1>13
  <2> QED
    BY <2>1 DEF Good
<1> HIDE DEF s
<1>15. /\ s.stack \in Seq(Blocks(f) \X Nat) /\ Searching(f, s.stack, s.visited, s.order)
       /\ Len(s.stack) = 0 \/ Cardinality(Passed(f, s.stack, s.order)) >= N
  BY <1>14 DEF SearchedFor, Searching
<1>16. Len(s.stack) = 0
  <2> SUFFICES ASSUME Len(s.stack) # 0 PROVE FALSE
    OBVIOUS
  <2> DEFINE passed == Passed(f, s.stack, s.order)
             b == s.stack[1][1]
             x == <<b, 0>>
  <2>1. 1 \in 1 .. Len(s.stack) /\ b \in Blocks(f)
    <3>1. s.stack[1] \in Blocks(f) \X Nat /\ 1 \in 1 .. Len(s.stack)
      BY <1>15
    <3> QED
      BY <3>1
  <2>2. x \in Frames(f)
    <3>1. Len(Successors(f, b)) \in Nat
      BY <2>1, SuccessorsAreBlocks
    <3> QED
      BY <2>1, <3>1 DEF Frames
  <2>3. x \notin passed
    <3>1. \A j \in 1 .. Len(s.order) : b # s.order[j]
      BY <1>15, <2>1 DEF Searching, Apart
    <3> QED
      BY <3>1 DEF Passed
  <2>4. passed \in SUBSET Frames(f)
    BY DEF Passed
  <2> HIDE DEF passed, x
  <2>5. Cardinality(passed) \in Nat /\ N >= Cardinality(passed) /\ N # Cardinality(passed)
    <3>1. IsFiniteSet(passed) /\ Cardinality(passed) <= N /\ (N = Cardinality(passed) => Frames(f) = passed)
      BY <2>4, FramesAreFinite, FS_Subset DEF N
    <3>2. Cardinality(passed) \in Nat
      BY <3>1, FS_CardinalityType
    <3> QED
      BY <1>0, <2>2, <2>3, <3>1, <3>2
  <2> QED
    BY <1>0, <1>15, <2>5 DEF passed
<1>17. s.stack = <<>>
  BY <1>15, <1>16
<1>18. Searching(f, <<>>, s.visited, s.order)
  BY <1>15, <1>17
<1>19. ReversePostorder(f) = s.order
  BY <1>1, <1>2 DEF s
<1> QED
  BY <1>18, <1>19

\* The reverse postorder has every block once, the entry first, and every other block
\* after one of its predecessors.
LEMMA PostorderIs ==
    ASSUME NEW f, IsFunction(f), AllReachable(f)
    PROVE  LET rpo == ReversePostorder(f)
           IN /\ rpo \in Seq(Blocks(f)) /\ Len(rpo) >= 1 /\ rpo[1] = Entry(f)
              /\ \A i, j \in 1 .. Len(rpo) : rpo[i] = rpo[j] => i = j
              /\ \A b \in Blocks(f) : \E j \in 1 .. Len(rpo) : rpo[j] = b
              /\ \A j \in 1 .. Len(rpo) : rpo[j] = Entry(f) \/
                   \E m \in 1 .. j - 1 : rpo[j] \in ToSet(Successors(f, rpo[m]))
<1> DEFINE rpo == ReversePostorder(f)
<1>1. PICK visited : Searching(f, <<>>, visited, rpo)
  BY SearchEnds
<1> HIDE DEF rpo
<1>2. /\ visited \in SUBSET Blocks(f) /\ rpo \in Seq(Blocks(f))
      /\ Apart(<<>>, visited, rpo) /\ LookedAt(f, <<>>, visited, rpo) /\ CameFrom(f, <<>>, rpo)
  BY <1>1 DEF Searching
<1>3. Len(<<>>) = 0 /\ \A i \in 1 .. 0 : FALSE
  OBVIOUS
<1>4. Len(rpo) >= 1 /\ rpo[1] = Entry(f)
  BY <1>2, <1>3 DEF CameFrom
<1>5. /\ \A i, j \in 1 .. Len(rpo) : rpo[i] = rpo[j] => i = j
      /\ \A j \in 1 .. Len(rpo) : rpo[j] \in visited
      /\ \A b \in visited : \E j \in 1 .. Len(rpo) : rpo[j] = b
  BY <1>2, <1>3 DEF Apart
<1>6. \A b \in Blocks(f) : b \in visited
  <2>1. Entry(f) \in visited
    <3>1. Len(rpo) \in Nat
      BY <1>2
    <3>2. 1 \in 1 .. Len(rpo)
      BY <1>4, <3>1
    <3> QED
      BY <1>4, <1>5, <3>2
  <2>2. \A b \in visited : ToSet(Successors(f, b)) \subseteq visited
    BY <1>2, <1>5 DEF LookedAt
  <2>3. Reachable(f) \subseteq visited
    BY <2>1, <2>2, ReachedIsLeast
  <2> QED
    BY <2>3 DEF AllReachable
<1>7. ASSUME NEW j \in 1 .. Len(rpo), rpo[j] # Entry(f)
      PROVE  \E m \in 1 .. j - 1 : rpo[j] \in ToSet(Successors(f, rpo[m]))
  <2>1. \E p \in Blocks(f) : /\ rpo[j] \in ToSet(Successors(f, p))
                             /\ \E m \in 1 .. j - 1 : rpo[m] = p
    BY <1>2, <1>3, <1>7 DEF CameFrom
  <2> QED
    BY <2>1
<1> QED
  BY <1>2, <1>4, <1>5, <1>6, <1>7 DEF rpo

-----------------------------------------------------------------------------
(* The tree computeIdoms builds *)

\* Where in the reverse postorder a block is
NumberOf(rpo) == [b \in ToSet(rpo) |-> CHOOSE k \in DOMAIN rpo : rpo[k] = b]

\* The numbers the blocks get are what the sweeps need.
LEMMA BlocksAreNumbered ==
    ASSUME NEW f, IsFunction(f), AllReachable(f), EdgesBothWays(f)
    PROVE  LET rpo == ReversePostorder(f)
               number == NumberOf(rpo)
           IN /\ Numbered(f, number) /\ InNumbers(f, number, rpo)
              /\ rpo # <<>> /\ Len(rpo) = Len(f.order)
<1> DEFINE rpo == ReversePostorder(f)
           number == NumberOf(rpo)
           N == Len(rpo)
           B == Blocks(f)
<1>1. /\ rpo \in Seq(B) /\ N >= 1 /\ rpo[1] = Entry(f)
      /\ \A i, j \in 1 .. N : rpo[i] = rpo[j] => i = j
      /\ \A b \in B : \E j \in 1 .. N : rpo[j] = b
      /\ \A j \in 1 .. N : rpo[j] = Entry(f) \/
           \E m \in 1 .. j - 1 : rpo[j] \in ToSet(Successors(f, rpo[m]))
  BY PostorderIs
<1> HIDE DEF rpo, B
<1>2. N \in Nat \ {0} /\ DOMAIN rpo = 1 .. N /\ rpo # <<>> /\ rpo \in [1 .. N -> B]
  BY <1>1
<1>3. ToSet(rpo) = B
  BY <1>1, <1>2 DEF ToSet
<1>4. number = [b \in B |-> CHOOSE k \in 1 .. N : rpo[k] = b]
  BY <1>2, <1>3 DEF NumberOf
<1>5. \A b \in B : number[b] \in 1 .. N /\ rpo[number[b]] = b
  BY <1>1, <1>4
<1>6. DOMAIN number = B /\ number = [b \in B |-> number[b]]
  BY <1>4
<1> HIDE DEF number, N
<1>7. \A n \in 1 .. N : rpo[n] \in B /\ number[rpo[n]] = n
  <2> SUFFICES ASSUME NEW n \in 1 .. N PROVE rpo[n] \in B /\ number[rpo[n]] = n
    OBVIOUS
  <2>1. rpo[n] \in B
    BY <1>2
  <2>2. number[rpo[n]] \in 1 .. N /\ rpo[number[rpo[n]]] = rpo[n]
    BY <1>5, <2>1
  <2> QED
    BY <1>1, <2>1, <2>2
<1>8. InNumbers(f, number, rpo)
  BY <1>1, <1>5, <1>7 DEF InNumbers, N, B
<1>9. number \in [B -> Nat]
  <2>1. \A b \in B : number[b] \in Nat
    BY <1>2, <1>5
  <2> QED
    BY <1>6, <2>1
<1>10. \A b, c \in B : number[b] = number[c] => b = c
  <2> SUFFICES ASSUME NEW b \in B, NEW c \in B, number[b] = number[c] PROVE b = c
    OBVIOUS
  <2>1. rpo[number[b]] = b /\ rpo[number[c]] = c
    BY <1>5
  <2> QED
    BY <2>1
<1>11. Entry(f) \in B /\ number[Entry(f)] = 1 /\ \A b \in B : 1 <= number[b]
  <2>1. 1 \in 1 .. N
    BY <1>2
  <2>2. Entry(f) \in B /\ number[Entry(f)] = 1
    BY <1>1, <1>7, <2>1
  <2> QED
    BY <1>2, <1>5, <2>2
<1>12. ASSUME NEW b \in B \ {Entry(f)} PROVE \E p \in ToSet(f.preds[b]) : number[p] < number[b]
  <2>1. number[b] \in 1 .. N /\ rpo[number[b]] = b /\ b # Entry(f)
    BY <1>5
  <2>2. PICK m \in 1 .. number[b] - 1 : b \in ToSet(Successors(f, rpo[m]))
    BY <1>1, <2>1
  <2>3. m \in 1 .. N /\ m < number[b]
    BY <1>2, <2>1
  <2>4. rpo[m] \in B /\ number[rpo[m]] = m
    BY <1>7, <2>3
  <2>5. rpo[m] \in ToSet(f.preds[b])
    BY <2>2, <2>4 DEF EdgesBothWays, B
  <2> QED
    BY <2>3, <2>4, <2>5
<1>13. Numbered(f, number)
  <2>1. f.preds \in [B -> Seq(B)]
    BY DEF IsFunction, B
  <2> QED
    BY <1>9, <1>10, <1>11, <1>12, <2>1 DEF Numbered, B
<1>14. N = Len(f.order)
  <2>1. rpo \in Bijection(1 .. N, B)
    BY <1>1, <1>2 DEF Bijection, Injection, Surjection, IsInjective
  <2>2. ExistsBijection(1 .. N, B)
    BY <2>1 DEF ExistsBijection
  <2>3. IsFiniteSet(1 .. N) /\ Cardinality(1 .. N) = N
    BY <1>2, FS_Interval
  <2>4. Cardinality(B) = N
    BY <2>2, <2>3, FS_Bijection
  <2> QED
    BY <2>4, OrderHasBlocks DEF B
<1> QED
  BY <1>2, <1>8, <1>13, <1>14 DEF rpo, number, N

\* The tree says what dominance means, and nothing is above all predecessors of a block
\* and not above the block.
IsExactTree(f, number, t) ==
    /\ Numbered(f, number) /\ IsTree(t, Entry(f), number) /\ DOMAIN t = Blocks(f)
    /\ NothingToAdd(f, t)
    /\ \A a, b \in Blocks(f) : a \in Dominators(t, b) <=> DominatesByPaths(f, a, b)

\* It is what computeIdoms builds.
LEMMA TreeIsExact ==
    ASSUME NEW f, IsFunction(f), AllReachable(f), EdgesBothWays(f)
    PROVE  \E number : IsExactTree(f, number, ImmediateDominators(f))
<1> DEFINE rpo == ReversePostorder(f)
           number == NumberOf(rpo)
           t == Sweeps(f, number, rpo)
           T == Necessarily(f)
           r == Rounded(f)
<1>1. ImmediateDominators(f) = t
  BY DEF ImmediateDominators, NumberOf
<1>2. Numbered(f, number) /\ InNumbers(f, number, rpo) /\ rpo # <<>> /\ Len(rpo) = Len(f.order)
  BY BlocksAreNumbered
<1>3. Necessary(f, T) /\ Reaching(f, r, Len(rpo))
  BY <1>2, OnEveryPath, RoundsReach
<1>4. \A a, b \in Blocks(f) : b \notin r[a][Len(rpo)] => DominatesByPaths(f, a, b)
  BY <1>2, RoundsReach
<1>5. \A a, b \in Blocks(f) : a \in T[b] <=> DominatesByPaths(f, a, b)
  BY DEF Necessarily
<1> HIDE DEF rpo, number, T, r
<1>6. /\ IsTree(t, Entry(f), number) /\ DOMAIN t = Blocks(f) /\ NothingToAdd(f, t)
      /\ \A b \in Blocks(f) : T[b] \subseteq Dominators(t, b)
      /\ \A b \in Blocks(f) : \A a \in Dominators(t, b) : b \notin r[a][Len(rpo)]
  BY <1>2, <1>3, SweepsAre
<1> HIDE DEF t
<1>7. \A a, b \in Blocks(f) : a \in Dominators(t, b) <=> DominatesByPaths(f, a, b)
  BY <1>4, <1>5, <1>6
<1> QED
  BY <1>1, <1>2, <1>6, <1>7 DEF IsExactTree

\* A block is in the frontier where its dominance ends: it dominates a predecessor, and
\* not the block itself.
LEMMA FrontierIsExact ==
    ASSUME NEW f, IsFunction(f), WellStructured(f), EdgesBothWays(f),
           NEW number, NEW t, IsExactTree(f, number, t),
           NEW b \in Blocks(f), NEW c \in Blocks(f)
    PROVE  c \in Frontier(f, t)[b] <=>
             /\ \E p \in ToSet(f.preds[c]) : DominatesByPaths(f, b, p)
             /\ b = c \/ ~DominatesByPaths(f, b, c)
<1> DEFINE e == Entry(f)
           Ends == /\ \E p \in ToSet(f.preds[c]) : DominatesByPaths(f, b, p)
                   /\ b = c \/ ~DominatesByPaths(f, b, c)
<1>1. /\ Numbered(f, number) /\ IsTree(t, e, number) /\ DOMAIN t = Blocks(f) /\ NothingToAdd(f, t)
      /\ \A x, y \in Blocks(f) : x \in Dominators(t, y) <=> DominatesByPaths(f, x, y)
  BY DEF IsExactTree
<1>2. c \in Frontier(f, t)[b] <=>
        Len(f.preds[c]) >= 2 /\ \E p \in ToSet(f.preds[c]) : b \in Dominators(t, p) /\ b \notin Dominators(t, t[c])
  BY DEF Frontier
<1>3. f.preds[c] \in Seq(Blocks(f)) /\ Len(f.preds[c]) \in Nat /\ \A p \in ToSet(f.preds[c]) : p \in Blocks(f)
  BY DEF IsFunction, ToSet
<1>4. CASE c = e
  <2>1. f.preds[c] = <<>>
    BY <1>4 DEF WellStructured
  <2>2. ToSet(f.preds[c]) = {}
    BY <2>1 DEF ToSet
  <2> QED
    BY <1>2, <2>2
<1>5. CASE c # e
  <2>1. /\ t[c] \in Blocks(f) /\ number[t[c]] < number[c] /\ number[c] \in Nat /\ number[t[c]] \in Nat
        /\ \A x \in Blocks(f) : number[x] \in Nat
    BY <1>1, <1>5 DEF IsTree
  <2>2. Dominators(t, c) = {c} \cup Dominators(t, t[c])
    BY <1>1, <1>5, AboveIs
  <2>3. c \notin Dominators(t, t[c])
    <3>1. IsChain(t, e, number, t[c])
      BY <1>1, <2>1, AboveIsChain
    <3>2. \A x \in Dominators(t, t[c]) : x \in Blocks(f) /\ (x = t[c] \/ number[x] < number[t[c]])
      BY <1>1, <3>1 DEF IsChain
    <3> QED
      BY <2>1, <3>2
  <2>4. b \notin Dominators(t, t[c]) <=> b = c \/ ~DominatesByPaths(f, b, c)
    BY <1>1, <2>2, <2>3
  <2>5. \A p \in ToSet(f.preds[c]) : b \in Dominators(t, p) <=> DominatesByPaths(f, b, p)
    BY <1>1, <1>3
  <2>6. ASSUME ~(Len(f.preds[c]) >= 2), NEW p \in ToSet(f.preds[c]), b \in Dominators(t, p)
        PROVE  b \in Dominators(t, t[c])
    <3>1. \A q \in ToSet(f.preds[c]) : q = p
      <4>1. \A i \in DOMAIN f.preds[c] : i = 1
        BY <1>3, <2>6
      <4> QED
        BY <4>1 DEF ToSet
    <3>2. \A q \in Known(f, t, c) : b \in Dominators(t, q)
      BY <2>6, <3>1 DEF Known
    <3>3. b \in Dominators(t, c)
      BY <1>1, <1>5, <3>2 DEF NothingToAdd
    <3>4. PICK q \in ToSet(f.preds[c]) : number[q] < number[c]
      BY <1>1, <1>5 DEF Numbered
    <3>5. p \in Blocks(f) /\ number[p] < number[c]
      BY <1>3, <3>1, <3>4
    <3>6. b # c
      <4>1. IsChain(t, e, number, p)
        BY <1>1, <3>5, AboveIsChain
      <4>2. b = p \/ number[b] < number[p]
        BY <2>6, <4>1 DEF IsChain
      <4> QED
        BY <2>1, <3>5, <4>2
    <3> QED
      BY <2>2, <3>3, <3>6
  <2> QED
    BY <1>2, <2>4, <2>5, <2>6
<1> QED
  BY <1>4, <1>5

\* For every function the verifier accepts: the tree computeIdoms builds by sweeping over
\* the reverse postorder says what dominance means, and the frontiers built from it say
\* where the dominance of a block ends.
THEOREM DominanceIsExact ==
    ASSUME NEW f, IsFunction(f), VerifierAccepts(f)
    PROVE  LET idom == ImmediateDominators(f)
               frontier == Frontier(f, idom)
           IN /\ \A a, b \in Blocks(f) : Dominates(idom, a, b) <=> DominatesByPaths(f, a, b)
              /\ \A b, c \in Blocks(f) : c \in frontier[b] <=>
                   /\ \E p \in ToSet(f.preds[c]) : DominatesByPaths(f, b, p)
                   /\ b = c \/ ~DominatesByPaths(f, b, c)
<1> DEFINE idom == ImmediateDominators(f)
<1>1. WellStructured(f) /\ PredecessorsInSync(f) /\ AllReachable(f)
  BY DEF VerifierAccepts, VerifierAcceptsIn
<1>2. EdgesBothWays(f)
  BY <1>1, InSyncIsBothWays
<1>3. PICK number : IsExactTree(f, number, idom)
  BY <1>1, <1>2, TreeIsExact
<1> HIDE DEF idom
<1>4. \A a, b \in Blocks(f) : Dominates(idom, a, b) <=> DominatesByPaths(f, a, b)
  BY <1>3 DEF IsExactTree, Dominates
<1>5. ASSUME NEW b \in Blocks(f), NEW c \in Blocks(f)
      PROVE  c \in Frontier(f, idom)[b] <=>
               /\ \E p \in ToSet(f.preds[c]) : DominatesByPaths(f, b, p)
               /\ b = c \/ ~DominatesByPaths(f, b, c)
  BY <1>1, <1>2, <1>3, FrontierIsExact
<1> QED
  BY <1>4, <1>5 DEF idom

\* As long as the passes leave valid IR, the dominator tree and the dominance frontiers
\* of the function between two passes are exact (computeIdoms, DominanceFrontier).
THEOREM DominatorsStayExact == Spec /\ []PassesLeaveValidIR => []DominatorsAreExact
<1>1. PassesLeaveValidIR => DominatorsAreExact
  <2> SUFFICES ASSUME PassesLeaveValidIR, pass = "idle"
               PROVE  LET idom == ImmediateDominators(func)
                          frontier == Frontier(func, idom)
                      IN /\ \A a, b \in Blocks(func) : Dominates(idom, a, b) <=> DominatesByPaths(func, a, b)
                         /\ \A b, c \in Blocks(func) : c \in frontier[b] <=>
                              /\ \E p \in ToSet(func.preds[c]) : DominatesByPaths(func, b, p)
                              /\ b = c \/ ~DominatesByPaths(func, b, c)
    BY DEF DominatorsAreExact
  <2>1. IsFunction(func) /\ VerifierAccepts(func)
    BY DEF PassesLeaveValidIR
  <2> QED
    BY <2>1, DominanceIsExact
<1> QED
  BY <1>1, PTL
=============================================================================
