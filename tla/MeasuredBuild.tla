---------------------------- MODULE MeasuredBuild ----------------------------
(***************************************************************************)
(* A program is built with --profile and run; it may be killed at any time *)
(* and leave no file or a part of one.  What is there is read by a second  *)
(* build (--use-profile), which writes the counts onto its blocks, unrolls *)
(* hot loops (LoopUnroll.cpp), destroys SSA, writes the counts again and   *)
(* lays the blocks out.                                                    *)
(*                                                                         *)
(* Both builds have the same optimised functions: control flow, calls, and *)
(* the conditions branches test; which way a branch goes is arbitrary.     *)
(* The field site of a function gives, for the blocks inlining made, the   *)
(* block the call was in.  Builds that inline something else because of    *)
(* the profile are left out.                                               *)
(***************************************************************************)
EXTENDS Instrument, Profile, Layout

CONSTANTS
    Programs,   \* sequences of functions, main first; calls name a place in it
    MaxCount    \* bound: blocks a run enters

\* A function of program p as the verifier lets it through, with numbered blocks and
\* instructions, of which only what concerns the control flow is there
IsPart(f, p) ==
    /\ IsFunction(f) /\ WellStructured(f) /\ PredecessorsInSync(f)
    /\ {"order", "code", "inst", "preds"} \subseteq DOMAIN f
    /\ Blocks(f) \subseteq Nat /\ DOMAIN f.inst \subseteq Nat
    /\ \A i \in DOMAIN f.inst : LET ins == f.inst[i] IN
         /\ ins = Inst(ins.op, ins.type, ins.attr, ins.args, ins.to)
         /\ ins.op = "call" => ins.attr \in DOMAIN p

ASSUME ProgramsAssumption ==
    \A p \in Programs :
      Len(p) \in Nat \ {0} /\ DOMAIN p = 1 .. Len(p) /\ \A k \in DOMAIN p : IsPart(p[k], p)

VARIABLES
    program, stage,
    frames, counters,   \* the run: where each active function is; the counters
    file,               \* the lines on disk; no file reads like an empty one
    profile,            \* what the second build read
    built, label, executionCount   \* its functions, their labels and counts

execution == <<frames, counters>>
build == <<built, label, executionCount>>
buildVars == <<program, stage, execution, file, profile, build>>

Functions == DOMAIN program

\* The labels of f: those there were, and the ones a new block gets with this prefix
Labelled(f, prefix, old) ==
    [b \in Blocks(f) |-> IF b \in DOMAIN old THEN old[b] ELSE <<prefix, b>>]
Original(f) == [b \in Blocks(f) |-> <<"block", b>>]

\* Destroying SSA has split most critical edges already, with the same result
Measured(k) == SplitCriticalEdges(program[k])
Records ==
    FlattenSeq([k \in Functions |->
        RecordsOf(k, Measured(k), Labelled(Measured(k), "crit.edge", Original(program[k])))])

BuildInit ==
    /\ program \in Programs
    /\ stage = "run"
    /\ frames = <<[fn |-> 1, block |-> Entry(program[1]), calls |-> 0]>>
    /\ counters = [c \in UNION {{<<k, b>> : b \in Blocks(Measured(k))} : k \in Functions} |->
                      IF c = <<1, Entry(program[1])>> THEN 1 ELSE 0]
    /\ file = <<>>
    /\ profile = Parse(<<>>)
    /\ built = program
    /\ label = [k \in Functions |-> Original(program[k])]
    /\ executionCount = [k \in Functions |-> [b \in Blocks(program[k]) |-> 0]]

-----------------------------------------------------------------------------
(* The run.  Every block entered counts, before anything else in it *)

Top == Last(frames)
CallsIn(f, b) ==
    FlattenSeq([n \in DOMAIN f.code[b] |->
        IF f.inst[f.code[b][n]].op = "call" THEN <<f.code[b][n]>> ELSE <<>>])
CallsHere == CallsIn(Measured(Top.fn), Top.block)

Count(fn, block) ==
    /\ SumOver(DOMAIN counters, counters) < MaxCount
    /\ counters' = [counters EXCEPT ![<<fn, block>>] = @ + 1]

Call ==
    /\ stage = "run"
    /\ Top.calls < Len(CallsHere)
    /\ LET callee == Measured(Top.fn).inst[CallsHere[Top.calls + 1]].attr
       IN /\ Count(callee, Entry(program[callee]))
          /\ frames' = Append([frames EXCEPT ![Len(frames)].calls = @ + 1],
                              [fn |-> callee, block |-> Entry(program[callee]), calls |-> 0])
    /\ UNCHANGED <<program, stage, file, profile, build>>

GoTo ==
    /\ stage = "run"
    /\ Top.calls >= Len(CallsHere)
    /\ \E to \in ToSet(Successors(Measured(Top.fn), Top.block)) :
         /\ Count(Top.fn, to)
         /\ frames' = [frames EXCEPT ![Len(frames)] = [@ EXCEPT !.block = to, !.calls = 0]]
    /\ UNCHANGED <<program, stage, file, profile, build>>

\* The end of main is the end of the program: the exit handlers run
Return ==
    /\ stage = "run"
    /\ Top.calls >= Len(CallsHere)
    /\ Successors(Measured(Top.fn), Top.block) = <<>>
    /\ frames' = Front(frames)
    /\ stage' = IF Len(frames) = 1 THEN "exit" ELSE stage
    /\ UNCHANGED <<program, counters, file, profile, build>>

\* A signal, and there is no file
Die ==
    /\ stage = "run"
    /\ stage' = "load"
    /\ UNCHANGED <<program, execution, file, profile, build>>

\* ofprof_dump, to the end or not; or the files of two equal runs in one
DumpProfile ==
    /\ stage = "exit"
    /\ \E lines \in {Dump(Records, counters)} :
         file' \in CutShort(lines) \cup {lines \o lines}
    /\ stage' = "load"
    /\ UNCHANGED <<program, execution, profile, build>>

-----------------------------------------------------------------------------
(* The second build *)

\* loadAndValidateProfile warns and goes on, whatever it finds
LoadProfile ==
    /\ stage = "load"
    /\ profile' = Parse(file)
    /\ stage' = "annotate"
    /\ UNCHANGED <<program, execution, file, build>>

\* annotateBlockCounts, when each function k has the blocks present[k]
Annotate(present) ==
    LET count(k) == Annotated(profile, k, label[k], executionCount[k])
    IN executionCount' = [k \in Functions |-> [b \in Blocks(built[k]) |->
                             IF b \in present[k] THEN count(k)[b] ELSE executionCount[k][b]]]

\* As IR generation left the functions
AnnotateFirst ==
    /\ stage = "annotate"
    /\ Annotate([k \in Functions |-> Blocks(built[k]) \ DOMAIN built[k].site])
    /\ stage' = "inline"
    /\ UNCHANGED <<program, execution, file, profile, built, label>>

\* inlineCall: what it makes takes the count of the block the call was in.  No call
\* is inlined where the profile is cold
Inline ==
    /\ stage = "inline"
    /\ \A k \in Functions : \A b \in Range(built[k].site) :
         LET site == <<k, label[k][b]>>
         IN site \in DOMAIN profile.blockHeat => profile.blockHeat[site] # "cold"
    /\ executionCount' = [k \in Functions |-> [b \in Blocks(built[k]) |->
            executionCount[k][IF b \in DOMAIN built[k].site THEN built[k].site[b] ELSE b]]]
    /\ stage' = "unroll"
    /\ UNCHANGED <<program, execution, file, profile, built, label>>

\* factorFor: the least power of two that covers a short trip count, 8 at most; the
\* budgets for the code and for the carried values are large enough here
FactorFor(measured) ==
    LET trips(n) == measured.b >= n * measured.a
    IN CASE measured.a = 0 \/ ~trips(2) -> 1
         [] measured.a # 0 /\ trips(2) /\ ~trips(8) ->
              Min({p \in {2, 4, 8} : p = 8 \/ measured.b <= p * measured.a})
         [] OTHER -> IF trips(32) THEN 8 ELSE 4

\* The header and the only other block of a loop the unroller takes
SimpleLoop(f, loop, body) ==
    LET to == Successors(f, loop.header)
        exits == {c \in ToSet(to) : c # body}
    IN /\ body \in loop.body \ {loop.header} /\ loop.body = {loop.header, body}
       /\ Len(to) = 2 /\ body \in ToSet(to) /\ exits \cap loop.body = {} /\ exits # {}
       /\ Successors(f, body) = <<loop.header>> /\ f.preds[body] = <<loop.header>>
       /\ CallsIn(f, body) = <<>>
       /\ LeadingPhis(f, CHOOSE c \in exits : TRUE) = {}

\* Unroller: n copies of the body one after the other, the test of the header again
\* between them, and one block through which all of them leave.  The comparison is
\* copied when it is the header's own; the other instructions are left out
Unrolled(f, header, body, n) ==
    LET merge == FreshBlock(f)
        chain == <<body>> \o [j \in 1 .. n - 1 |-> merge + j]
        branch == Terminator(f, header)
        exit == IF branch.to[1] = body THEN branch.to[2] ELSE branch.to[1]
        Leave(next) == [branch EXCEPT !.to = [e \in {1, 2} |-> IF branch.to[e] = body THEN next ELSE merge]]
        Test(g, j) ==
          LET i == FreshInst(g)
          IN IF Fused(f, header)
               THEN Emit(Emit(g, chain[j], i, f.inst[branch.args[1][2]]), chain[j], i + 1,
                         [Leave(chain[j + 1]) EXCEPT !.args = <<Ref(i)>>])
               ELSE Emit(g, chain[j], i, Leave(chain[j + 1]))
        opened == Erase(InOrder(CreateBlock, f, <<merge>> \o Tail(chain)), {Last(f.code[body])})
        tested == InOrder(Test, opened, [j \in 1 .. n - 1 |-> j])
        closed == Emit(tested, Last(chain), FreshInst(tested), Branch(header))
        escaping == Inst("phi", "i64", "", [j \in 1 .. n |-> I64(0)], <<header>> \o Front(chain))
        merged == IF LeadingPhis(f, header) = {} THEN closed
                  ELSE InsertAtTop(closed, merge, FreshInst(closed), escaping)
        left == Emit(merged, merge, FreshInst(merged), Branch(exit))
    IN RecomputePredecessors(RenameIncoming([left EXCEPT !.inst[Last(f.code[header])] = Leave(body)],
                                            {header}, body, Last(chain)))

\* The loops of function k worth unrolling, with the factor: hot, and measured
Unrollable(k) ==
    LET f == built[k]
        name(h) == <<k, label[k][h]>>
        measured(h) == profile.loops[name(h)]
    IN {u \in [loop : LoopsOf(f, ImmediateDominators(f)), body : Blocks(f), factor : {2, 4, 8}] :
          /\ name(u.loop.header) \in DOMAIN profile.loops
          /\ name(u.loop.header) \in DOMAIN profile.blockHeat
          /\ profile.blockHeat[name(u.loop.header)] = "hot"
          /\ SimpleLoop(f, u.loop, u.body)
          /\ u.factor = FactorFor(measured(u.loop.header))}

\* One loop per sweep.  The copies take the count of the body, the block through which
\* they leave that of the exit
Unroll ==
    /\ stage = "unroll"
    /\ \E k \in Functions : \E u \in Unrollable(k) :
       \E g \in {Unrolled(built[k], u.loop.header, u.body, u.factor)} :
        LET f == built[k]
            merge == FreshBlock(f)
            exit == Last(g.code[merge])
            inherited(b) == IF b = merge THEN g.inst[exit].to[1] ELSE u.body
        IN /\ built' = [built EXCEPT ![k] = g]
           /\ label' = [label EXCEPT ![k] =
                  Labelled(g, "unroll.body", (merge :> <<"unroll.exit", merge>>) @@ @)]
           /\ executionCount' = [executionCount EXCEPT ![k] =
                  [b \in Blocks(g) |-> IF b \in Blocks(f) THEN @[b] ELSE @[inherited(b)]]]
    /\ UNCHANGED <<program, stage, execution, file, profile>>

\* A function with phis has its critical edges split
DestroySSA ==
    /\ stage = "unroll"
    /\ \A k \in Functions : Unrollable(k) = {}
    /\ LET phis(f) == UNION {LeadingPhis(f, b) : b \in Blocks(f)}
           split(k) == IF phis(built[k]) = {} THEN built[k] ELSE SplitCriticalEdges(built[k])
       IN /\ built' = [k \in Functions |-> split(k)]
          /\ label' = [k \in Functions |-> Labelled(split(k), "crit.edge", label[k])]
          /\ executionCount' = [k \in Functions |-> [b \in Blocks(split(k)) |->
                IF b \in Blocks(built[k]) THEN executionCount[k][b] ELSE 0]]
    /\ stage' = "annotate again"
    /\ UNCHANGED <<program, execution, file, profile>>

AnnotateSecond ==
    /\ stage = "annotate again"
    /\ Annotate([k \in Functions |-> Blocks(built[k])])
    /\ stage' = "layout"
    /\ UNCHANGED <<program, execution, file, profile, built, label>>

\* The counts are what the order is made from, when there is a profile
Machine(k) == LayoutBlocks(built[k], executionCount[k], profile.valid)

BuildNext ==
    \/ Call \/ GoTo \/ Return \/ Die \/ DumpProfile
    \/ LoadProfile \/ AnnotateFirst \/ Inline \/ Unroll \/ DestroySSA \/ AnnotateSecond

BuildSpec == BuildInit /\ [][BuildNext]_buildVars

-----------------------------------------------------------------------------
(* Properties *)

\* How many whole runs the file tells of: none when it was cut, one, or two in one
Runs ==
    CHOOSE n \in 0 .. 2 : \E lines \in {Dump(Records, counters)} :
        n = IF file = lines THEN 1 ELSE IF file = lines \o lines THEN 2 ELSE 0

\* A file written to its end, or two of them in one, contradicts itself in no record:
\* what a branch's sides and a loop's entries and iterations add up to is what the
\* block ran, although only blocks are counted (Profile.cpp warns of anything else).
FlowConserved ==
    stage = "annotate" /\ Runs > 0 => profile.violations = {}

\* The copies of a loop body in function k, and the body or copy before one
Copies(k) == {b \in Blocks(built[k]) : label[k][b][1] = "unroll.body"}
Before(k, b) == Head(built[k].preds[b])

\* When the backend reads them, the counts of the blocks both builds have are those
\* of the run; a cut file makes them smaller and never larger, but for inlined blocks,
\* which then keep the count of the call; and the copies of a loop body are worth as
\* much as the body, whatever the file says, unless the loop was inlined.
AnnotatedCountsAreMeasured ==
    stage = "layout" /\ profile.valid =>
        \A runs \in {Runs} : \A k \in Functions :
            /\ \A b \in Blocks(program[k]) :
                 IF runs > 0 THEN executionCount[k][b] = runs * counters[<<k, b>>]
                 ELSE \/ executionCount[k][b] <= counters[<<k, b>>]
                      \/ b \in DOMAIN program[k].site
                         /\ executionCount[k][b] <= counters[<<k, program[k].site[b]>>]
            /\ \A b \in Copies(k) :
                 Before(k, b) \notin DOMAIN program[k].site =>
                   executionCount[k][b] = executionCount[k][Before(k, b)]

\* The heat of what has one: the busiest that together reach the threshold, and no
\* more of them than it takes, are hot unless below the floor; the others are cold
\* when they never ran or next to never.  So nothing is hotter than what ran more.
HeatFollowsTheDefinition ==
    stage = "annotate" =>
        \A group \in {<<profile.work, profile.functionHeat>>, <<profile.blocks, profile.blockHeat>>} :
            LET weight == group[1]
                heat == group[2]
                all == SumOver(DOMAIN weight, weight)
                hot == {x \in DOMAIN weight : heat[x] = "hot"}
            IN /\ \A x \in hot : weight[x] >= HotFloor
               /\ \A x \in hot : \A y \in DOMAIN weight : weight[y] > weight[x] => y \in hot
               /\ \A x \in hot : 100 * SumOver(hot \ {x}, weight) < HotThreshold * all \/ hot = {x}
               /\ 100 * SumOver(hot, weight) >= HotThreshold * all
                  \/ \A x \in DOMAIN weight \ hot : weight[x] < HotFloor
               /\ \A x \in DOMAIN weight \ hot : heat[x] = "cold" <=> Negligible(weight, x)

\* Layout is handed functions it can lay out, and after every branch the machine
\* code goes where the IR goes, whatever the order of the blocks and whichever jumps were
\* removed or inverted.
LayoutKeepsFlow ==
    stage = "layout" => \A k \in Functions :
        CanBeLaidOut(built[k], executionCount[k]) /\ KeepsFlow(built[k], Machine(k))
=============================================================================
