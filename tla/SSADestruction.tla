--------------------------- MODULE SSADestruction ---------------------------
(***************************************************************************)
(* destroySSA of src/transforms/SSADestruction.cpp over a whole function:  *)
(* critical edges are split, every phi becomes a location of its own (its  *)
(* root), each predecessor block gets the copies of one parallel copy, and *)
(* the result is then executed beside the SSA program it came from.        *)
(*                                                                         *)
(* A block is a number, 1 the entry; a phi is a number too, in the order   *)
(* the pass collects them, and stands for its root copy.  The other        *)
(* sources are numbers that are not positive.  What a block does besides   *)
(* its phis is left out: no instruction but the copies writes a root, and  *)
(* the value a condition branches on is arbitrary.  The temporaries of two *)
(* blocks share numbers: each is read in the block that wrote it.          *)
(***************************************************************************)
EXTENDS Integers, Sequences, FiniteSets, SequencesExt

CONSTANTS
    CFGs,    \* the control-flow graphs: a sequence of successor lists
    NPhis,   \* phis are numbered 1 .. NPhis
    Consts   \* sources that are no phi, not positive

\* A function has an entry block, and a branch names blocks of its own function
ASSUME SSAAssumption ==
    /\ NPhis \in Nat
    /\ Consts # {} /\ Consts \subseteq {l \in Int : l <= 0}
    /\ \A g \in CFGs : g \in Seq(Seq(1 .. Len(g))) /\ Len(g) >= 1

VARIABLES
    cfg, homeOf, operands,   \* the SSA program: successors, the block of each
                             \* phi, and its operand for each predecessor
    phase, succ, predCount,  \* the function as the pass rewrites it; the size
                             \* of the stored predecessor lists
    incoming,                \* the phis' operands, renamed to the bridges
    current, code,           \* the block being given copies; the copies
    wanted, pending, source, temps, mem,  \* emitParallelCopy on that block
    at, env, loc             \* execution: block, phi values, location contents

program == <<cfg, homeOf, operands>>
function == <<succ, predCount, incoming>>
copying == <<wanted, pending, source, temps, mem>>
running == <<at, env, loc>>
vars == <<program, phase, function, current, code, copying, running>>

Phis == 1 .. NPhis
Sources == Phis \cup Consts

PC == INSTANCE ParallelCopy WITH MaxRoot <- NPhis, Others <- Consts

-----------------------------------------------------------------------------
(* The SSA programs destroySSA may be given *)

Blocks == DOMAIN cfg
Targets(graph, b) == {graph[b][i] : i \in DOMAIN graph[b]}
Preds(graph, b) == {p \in DOMAIN graph : b \in Targets(graph, p)}

\* The blocks reachable from the entry on paths that avoid the blocks in cut
ReachableAvoiding(graph, cut) ==
    LET f[n \in 0 .. Len(graph)] ==
          IF n = 0 THEN {1} \ cut
                   ELSE f[n - 1] \cup ((UNION {Targets(graph, b) : b \in f[n - 1]}) \ cut)
    IN f[Len(graph)]

Dominates(graph, d, b) == b \notin ReachableAvoiding(graph, {d})

\* Every block is reachable, the entry has no predecessor, and no branch names
\* one target twice
ProperCFG(graph) ==
    /\ ReachableAvoiding(graph, {}) = DOMAIN graph
    /\ Preds(graph, 1) = {}
    /\ \A b \in DOMAIN graph : Len(graph[b]) <= 2 /\ IsInjective(graph[b])

\* One operand for each predecessor, and an operand's definition reaches it
StrictSSA ==
    \A p \in Phis :
        /\ DOMAIN operands[p] = Preds(cfg, homeOf[p])
        /\ DOMAIN operands[p] # {}
        /\ \A b \in DOMAIN operands[p] :
              operands[p][b] \in Phis => Dominates(cfg, homeOf[operands[p][b]], b)

Init ==
    /\ cfg \in {g \in CFGs : ProperCFG(g)}
    /\ homeOf \in {h \in [Phis -> 2 .. Len(cfg)] :
                      \A p, q \in Phis : p <= q => h[p] <= h[q]}
    /\ operands \in [Phis -> UNION {[Preds(cfg, homeOf[p]) -> Sources] : p \in Phis}]
    /\ StrictSSA
    /\ phase = "split"
    /\ succ = cfg
    /\ predCount = [b \in Blocks |-> Cardinality(Preds(cfg, b))]
    /\ incoming = operands
    /\ current = 0
    /\ code = [b \in Blocks |-> <<>>]
    /\ wanted = <<>> /\ pending = {} /\ source = <<>> /\ temps = 0
    /\ mem = [l \in Sources |-> l]
    /\ at = 1
    /\ env = [p \in Phis |-> CHOOSE c \in Consts : TRUE]
    /\ loc = [p \in Phis |-> 0]

-----------------------------------------------------------------------------
(* splitCriticalEdges *)

\* Mutant: only the branch of the entry block is looked at
Critical_EntryOnly(b, i) ==
    b = 1 /\ Len(succ[b]) >= 2 /\ i \in DOMAIN succ[b] /\ predCount[succ[b][i]] >= 2

\* An edge from a block that branches both ways into a block that has other
\* predecessors; only blocks that were there at the start are visited
Critical(b, i) ==
    /\ b \in Blocks
    /\ Len(succ[b]) >= 2
    /\ i \in DOMAIN succ[b]
    /\ predCount[succ[b][i]] >= 2

\* The phis of target name the bridge where they named the old source
Rename(target, old, bridge) ==
    [p \in Phis |->
        IF homeOf[p] = target /\ old \in DOMAIN incoming[p]
          THEN [b \in (DOMAIN incoming[p] \ {old}) \cup {bridge} |->
                    IF b = bridge THEN incoming[p][old] ELSE incoming[p][b]]
          ELSE incoming[p]]

CriticalEdges == {e \in Blocks \X {1, 2} : Critical(e[1], e[2])}

SplitEdge ==
    /\ phase = "split"
    /\ \E e \in CriticalEdges :
        LET b == e[1]
            target == succ[b][e[2]]
            bridge == Len(succ) + 1
        IN /\ \A o \in CriticalEdges : b < o[1] \/ (b = o[1] /\ e[2] <= o[2])
           /\ succ' = Append([succ EXCEPT ![b][e[2]] = bridge], <<target>>)
           /\ predCount' = Append([predCount EXCEPT ![target] = @ + 1], 0)
           /\ incoming' = Rename(target, b, bridge)
           /\ code' = Append(code, <<>>)
    /\ UNCHANGED <<program, phase, current, copying, running>>

\* recomputePredecessors, and on to the copies
SplitDone ==
    /\ phase = "split"
    /\ CriticalEdges = {}
    /\ phase' = "copies"
    /\ predCount' = [b \in DOMAIN succ |-> Cardinality(Preds(succ, b))]
    /\ UNCHANGED <<program, succ, incoming, current, code, copying, running>>

-----------------------------------------------------------------------------
(* The copies, block by block in the function's own order *)

\* The assignments the edge out of block b owes, grouped as one parallel copy
Owed(b) == [p \in {q \in Phis : b \in DOMAIN incoming[q]} |-> incoming[p][b]]

NextBlock ==
    /\ phase = "copies"
    /\ pending = {}
    /\ current < Len(succ)
    /\ current' = current + 1
    /\ wanted' = Owed(current + 1)
    /\ pending' = DOMAIN wanted'
    /\ source' = wanted'
    /\ temps' = 0
    /\ mem' = [l \in Sources |-> l]
    /\ UNCHANGED <<program, phase, function, code, running>>

EmitCopy ==
    /\ phase = "copies"
    /\ PC!Emit
    /\ \E r \in pending \ pending' :
          code' = [code EXCEPT ![current] = Append(@, <<r, source[r]>>)]
    /\ UNCHANGED <<program, phase, function, current, running>>

SaveCopy ==
    /\ phase = "copies"
    /\ PC!Save
    /\ \E victim \in pending :
        /\ \A r \in pending : victim <= r
        /\ code' = [code EXCEPT ![current] = Append(@, <<NPhis + temps', victim>>)]
    /\ UNCHANGED <<program, phase, function, current, running>>

\* Every phi is replaced by its root and erased
CopiesDone ==
    /\ phase = "copies"
    /\ pending = {}
    /\ current = Len(succ)
    /\ phase' = "block"
    /\ UNCHANGED <<program, function, current, code, copying, running>>

-----------------------------------------------------------------------------
(* Execution of the rewritten function beside the SSA program *)

ValueOf(l, contents) == IF l \in Consts THEN l ELSE contents[l]

Copied(copy, contents) ==
    [l \in DOMAIN contents \cup {copy[1]} |->
        IF l = copy[1] THEN ValueOf(copy[2], contents) ELSE contents[l]]

\* What the location contents are after a list of copies
Execute(copies, contents) ==
    LET after[n \in 0 .. Len(copies)] ==
          IF n = 0 THEN contents ELSE Copied(copies[n], after[n - 1])
    IN after[Len(copies)]

\* The copies before the terminator of the current block
RunCopies ==
    /\ phase = "block"
    /\ loc' = Execute(code[at], loc)
    /\ phase' = "branch"
    /\ UNCHANGED <<program, function, current, code, copying, at, env>>

\* The branch, through the bridge if the edge was split
RunBranch ==
    /\ phase = "branch"
    /\ \E i \in DOMAIN cfg[at] :
        /\ at' = cfg[at][i]
        /\ env' = [p \in Phis |-> IF homeOf[p] = cfg[at][i]
                                    THEN ValueOf(operands[p][at], env) ELSE env[p]]
        /\ loc' = IF succ[at][i] \in Blocks THEN loc ELSE Execute(code[succ[at][i]], loc)
    /\ phase' = "block"
    /\ UNCHANGED <<program, function, current, code, copying>>

Next ==
    \/ SplitEdge \/ SplitDone
    \/ NextBlock \/ EmitCopy \/ SaveCopy \/ CopiesDone
    \/ RunCopies \/ RunBranch

Spec == Init /\ [][Next]_vars

-----------------------------------------------------------------------------
(* Properties *)

Defined(p, b) == Dominates(cfg, homeOf[p], b)

\* Wherever a phi's value may be used, its location holds that value: no copy for
\* another edge, another phi or an earlier iteration got in between.  The copies come
\* before the terminator, which still reads the old values: in a block that can branch
\* two ways they leave every usable location alone.
LocationsHoldPhis ==
    phase = "block" \/ (phase = "branch" /\ Len(cfg[at]) = 2) =>
        \A p \in Phis : Defined(p, at) => loc[p] = env[p]
=============================================================================
