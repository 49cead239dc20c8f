----------------------------- MODULE LoopUnroll -----------------------------
(***************************************************************************)
(* The loop unroller of src/transforms/LoopUnroll.cpp: Unroller::run on a  *)
(* loop describe() accepts, one action per copy it makes, and then the     *)
(* unrolled loop executed beside the loop it came from.                    *)
(*                                                                         *)
(* A loop is a header (phis, instructions, a test) and one body block.     *)
(* Its instructions are numbers: Phis, then HeaderOps and BodyOps in the   *)
(* order of their blocks.  An instruction is what it reads; what it does   *)
(* with that is left out, so a value is numbered by where it is first      *)
(* computed: <<i, n>> is what instruction i yields in iteration n of the   *)
(* original loop, if no earlier iteration gave it the same operands, and   *)
(* <<p, -1>> what phi p starts with.  Wrong is what an instruction yields  *)
(* from operands that none of its executions in the original loop has.     *)
(***************************************************************************)
EXTENDS Integers, FiniteSets

CONSTANTS
    Phis, HeaderOps, BodyOps,  \* the instructions of the loop, all positive
    Loops,          \* records: reads, latch, test, after, size (see below)
    TripCounts,     \* measured average trip counts, the whole ones
    MaxIterations   \* bound: the loop is left by then

Ops == HeaderOps \cup BodyOps
Names == Phis \cup Ops

ASSUME LoopAssumption ==
    /\ Names \subseteq Nat \ {0}
    /\ Phis \cap Ops = {} /\ HeaderOps \cap BodyOps = {}
    /\ TripCounts \subseteq Nat /\ MaxIterations \in Nat
    /\ Loops \subseteq [reads : [Ops -> SUBSET Names],  \* operands
                        latch : [Phis -> Names],  \* the phis' next values
                        test : Names,             \* what the branch tests
                        after : SUBSET Names,     \* read after the loop
                        size : Nat]               \* instructions, both blocks

kUnrolledSizeBudget == 400
kCarriedValueBudget == 4

VARIABLES
    original,      \* original[n][v]: what v is in iteration n of the loop
    loop, factor,  \* the loop being unrolled, and how many bodies it gets
    copies,        \* bodies there are so far, the original one included
    phiValues,     \* phiValues[c]: the map with which copy c was made
    code,          \* code[<<i, c>>]: what the copy of i in copy c reads for
                   \* each operand of i
    tests,         \* tests[c]: the value tested before copy c
    carried,       \* what each phi takes from the back edge
    merged,        \* merged[p][c]: what p's exit merge takes from test c
    phase, copy, iteration,  \* execution: the copy run for that iteration
    toRun,         \* what is left to run of its test or of its body
    env,           \* the value every name <<i, c>> holds
    seen           \* the values read after the loop

unrolled == <<original, loop, factor, copies, phiValues, code, tests, carried, merged>>
execution == <<copy, iteration, toRun, env, seen>>
vars == <<unrolled, phase, execution>>

-----------------------------------------------------------------------------
(* Which loops are unrolled, and how often *)

\* SSA: an operand is defined above its use
WellFormed(l) ==
    /\ \A h \in HeaderOps : l.reads[h] \subseteq Phis \cup {g \in HeaderOps : g < h}
    /\ \A b \in BodyOps : l.reads[b] \subseteq Phis \cup HeaderOps \cup {c \in BodyOps : c < b}
    /\ l.test \in Phis \cup HeaderOps

\* describe(), for a loop that has the shape: nothing of the body is read after
Described(l) == l.after \cap BodyOps = {}

\* Halved until the copies fit the budget
Fitting(f, size) ==
    LET g[n \in 0 .. f] == IF n > 1 /\ size * n > kUnrolledSizeBudget THEN g[n \div 2] ELSE n
    IN g[f]

\* factorFor()
FactorFor(trips, size) ==
    CASE trips < 2 -> 1
      [] trips = 2 -> Fitting(2, size)
      [] trips \in 3 .. 4 -> Fitting(4, size)
      [] trips \in 5 .. 7 -> Fitting(8, size)
      [] trips \in 8 .. 31 -> Fitting(4, size)
      [] trips >= 32 -> Fitting(8, size)

-----------------------------------------------------------------------------
(* The rewriting *)

Translate(map, v) == IF v \in DOMAIN map THEN map[v] ELSE <<v, 0>>

\* Mutant: the next copy starts from the values of the original body
Incoming_First(c) == [p \in Phis |-> Translate(phiValues[0], loop.latch[p])]

\* What the phis hold at the top of copy c
Incoming(c) == [p \in Phis |-> Translate(phiValues[c - 1], loop.latch[p])]

\* The copies of some instructions in copy c, with the phis replaced
Cloned(instructions, phis, c) ==
    [i \in instructions \cup Phis |-> IF i \in Phis THEN phis[i] ELSE <<i, c>>]

\* The code of those copies, their operands rewritten through map
Code(instructions, map, c) ==
    [n \in instructions \X {c} |-> [o \in loop.reads[n[1]] |-> Translate(map, o)]]

Join(f, g) == [x \in DOMAIN f \cup DOMAIN g |-> IF x \in DOMAIN g THEN g[x] ELSE f[x]]

Least(S) == CHOOSE n \in S : \A m \in S : n <= m

\* What v is in iteration n, from the earlier iterations and from what is
\* computed before v in this one
Computed(l, n, earlier, value, v) ==
    IF v \in Phis
      THEN IF n = 0 THEN <<v, -1>> ELSE earlier[n - 1][l.latch[v]]
      ELSE <<v, Least({n} \cup {m \in 0 .. n - 1 :
                          \A o \in l.reads[v] : earlier[m][o] = value[o]})>>

\* The values of all instructions in iterations 0 .. MaxIterations of a loop
ValueTable(l) ==
    LET row[n \in 0 .. MaxIterations] ==
          LET value[v \in Names] == Computed(l, n, row, value, v) IN value
    IN row

Init ==
    /\ loop \in {l \in Loops : WellFormed(l) /\ Described(l)}
    /\ original = ValueTable(loop)
    /\ Cardinality(Phis) <= kCarriedValueBudget
    /\ factor \in {f \in {FactorFor(t, loop.size) : t \in TripCounts} : f >= 2}
    /\ copies = 1
    /\ phiValues = [c \in {0} |-> [p \in Phis |-> <<p, 0>>]]
    /\ code = [n \in Ops \X {0} |-> [o \in loop.reads[n[1]] |-> <<o, 0>>]]
    /\ tests = [c \in {0} |-> <<loop.test, 0>>]
    /\ carried = [p \in Phis |-> <<loop.latch[p], 0>>]
    /\ merged = [p \in Phis |-> <<>>]
    /\ phase = "replicate"
    /\ copy = 0 /\ iteration = 0 /\ toRun = HeaderOps
    /\ env = [n \in Phis \X {0} |-> <<n[1], -1>>]
    /\ seen = <<>>

\* One round of the loop over the copies: the test at the end of the previous
\* copy, then the next body
Replicate ==
    /\ phase = "replicate"
    /\ copies < factor
    /\ LET testMap == Cloned(HeaderOps, Incoming(copies), copies)
           bodyMap == Cloned(BodyOps, Incoming(copies), copies)
       IN /\ code' = Join(code, Join(Code(HeaderOps, testMap, copies),
                                     Code(BodyOps, bodyMap, copies)))
          /\ tests' = Join(tests, [c \in {copies} |-> Translate(testMap, loop.test)])
          /\ phiValues' = Join(phiValues, [c \in {copies} |-> bodyMap])
    /\ copies' = copies + 1
    /\ UNCHANGED <<original, loop, factor, carried, merged, phase, execution>>

\* Mutant: the merge takes the values of the copy that was not entered
Escaping_OffByOne(p, c) ==
    IF c = 0 THEN <<p, 0>> ELSE Translate(phiValues[c], loop.latch[p])

\* The value of phi p when the loop is left by the test before copy c
Escaping(p, c) ==
    IF c = 0 THEN <<p, 0>> ELSE Translate(phiValues[c - 1], loop.latch[p])

\* Close the loop, merge what escapes, and bring the phis round from the last
\* copy
Close ==
    /\ phase = "replicate"
    /\ copies = factor
    /\ merged' = [p \in Phis |-> [c \in 0 .. factor - 1 |-> Escaping(p, c)]]
    /\ carried' = [p \in Phis |-> Translate(phiValues[factor - 1], loop.latch[p])]
    /\ phase' = "test"
    /\ UNCHANGED <<original, loop, factor, copies, phiValues, code, tests, execution>>

-----------------------------------------------------------------------------
(* Execution of the unrolled loop beside the original *)

Wrong == <<0, 0>>

Holds(n) == IF n \in DOMAIN env THEN env[n] ELSE Wrong

Iterations == 0 .. MaxIterations

\* A copy of i yields what i does on the same operands
Yields(i, c) ==
    LET alike == {n \in Iterations : \A o \in loop.reads[i] :
                                        Holds(code[<<i, c>>][o]) = original[n][o]}
    IN IF alike = {} THEN Wrong ELSE <<i, Least(alike)>>

\* The next instruction of the test or of the body of the current copy
Execute ==
    /\ phase \in {"test", "body"}
    /\ \E i \in toRun :
        /\ \A j \in toRun : i <= j
        /\ env' = Join(env, [n \in {<<i, copy>>} |-> Yields(i, copy)])
        /\ toRun' = toRun \ {i}
    /\ UNCHANGED <<unrolled, phase, copy, iteration, seen>>

\* The test holds: on into the body of the current copy
Enter ==
    /\ phase = "test"
    /\ toRun = {}
    /\ iteration < MaxIterations
    /\ phase' = "body"
    /\ toRun' = BodyOps
    /\ UNCHANGED <<unrolled, copy, iteration, env, seen>>

\* The end of a body: to the next copy's test, or round to the header
Advance ==
    /\ phase = "body"
    /\ toRun = {}
    /\ iteration' = iteration + 1
    /\ phase' = "test"
    /\ toRun' = HeaderOps
    /\ IF copy + 1 < factor
         THEN copy' = copy + 1 /\ env' = env
         ELSE /\ copy' = 0
              /\ env' = Join(env, [n \in Phis \X {0} |-> Holds(carried[n[1]])])
    /\ UNCHANGED <<unrolled, seen>>

\* The test fails: what is read afterwards is a merged phi or an instruction of
\* the header
Leave ==
    /\ phase = "test"
    /\ toRun = {}
    /\ phase' = "left"
    /\ seen' = [v \in loop.after |-> Holds(IF v \in Phis THEN merged[v][copy] ELSE <<v, 0>>)]
    /\ UNCHANGED <<unrolled, copy, iteration, toRun, env>>

Next == Replicate \/ Close \/ Execute \/ Enter \/ Advance \/ Leave

Spec == Init /\ [][Next]_vars

-----------------------------------------------------------------------------
(* Properties *)

\* Every copy tests, computes and leaves behind what the original loop does in
\* that iteration.
Agrees ==
    /\ phase = "test" /\ toRun = {} => Holds(tests[copy]) = original[iteration][loop.test]
    /\ phase = "body" /\ toRun = {} =>
          \A b \in BodyOps : env[<<b, copy>>] = original[iteration][b]
    /\ phase = "left" => \A v \in loop.after : seen[v] = original[iteration][v]

\* The header computes nothing but its own test
HeaderOnlyTests ==
    /\ \A b \in BodyOps : loop.reads[b] \cap HeaderOps = {}
    /\ \A p \in Phis : loop.latch[p] \notin HeaderOps
    /\ loop.after \cap HeaderOps = {}

\* Unrolling preserves the values of a loop whose header computes nothing but
\* the test, wherever it is left from.
PlainLoopsAgree == HeaderOnlyTests => Agrees

\* Unrolling preserves the values of every loop it accepts, as the comments at
\* describe and Unroller say.
UnrolledLoopsAgree == Agrees

\* Nothing is read before it is computed, on any path through the copies and
\* the merge.
DefinedBeforeUse ==
    /\ phase \in {"test", "body"} =>
          \A i \in toRun : \A o \in loop.reads[i] :
              \/ code[<<i, copy>>][o] \in DOMAIN env
              \/ o \in toRun
    /\ phase = "test" =>
          \/ toRun # {}
          \/ \A p \in Phis : tests[copy] \in DOMAIN env /\ merged[p][copy] \in DOMAIN env
=============================================================================
