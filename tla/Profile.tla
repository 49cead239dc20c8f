------------------------------- MODULE Profile -------------------------------
(***************************************************************************)
(* The profile file: what the runtime writes at exit (ofprof_dump of       *)
(* runtime/ofprof/ofprof.c), what is left of it when the program is killed *)
(* meanwhile, and what the compiler reads from it (src/profile/Profile.cpp *)
(* and transforms/ProfileAnnotate.cpp): the counts, the heat of blocks and *)
(* functions, and the records that contradict each other.                  *)
(*                                                                         *)
(* A file is a sequence of lines, each the kind of a record, its name and  *)
(* its numbers; what a cut leaves of a line and cannot be read is the line *)
(* Malformed.  Of the header, only its first line and SRCHASH are there.   *)
(***************************************************************************)
EXTENDS Integers, SequencesExt, FiniteSetsExt

CONSTANTS
    HotThreshold,  \* --hot-threshold, in percent; 80 in the code
    HotFloor,      \* hotFloor, 1000 in the code
    ColdOneIn,     \* coldFractionOfMax as 1 / ColdOneIn; 1 / 10000 in the code
    Digit          \* what one digit of a number is worth, 10 in the code

ASSUME ProfileAssumption ==
    /\ HotThreshold \in 0 .. 100 /\ HotFloor \in Nat
    /\ ColdOneIn \in Nat \ {0} /\ Digit \in Nat \ {0, 1}

Line(kind, name, a, b) == [kind |-> kind, name |-> name, a |-> a, b |-> b]
Malformed == Line("malformed", <<>>, 0, 0)
Header == <<Line("OPTIFORGE_PROFILE", <<>>, 1, 0), Line("SRCHASH", <<>>, 0, 0)>>
Kinds == <<"FUNCTION", "BLOCK", "BRANCH", "LOOP">>

-----------------------------------------------------------------------------
(* Writing *)

\* What a record says; the iterations of a loop are clamped at zero
Written(r, counters) ==
    LET a == counters[r.a]
        b == counters[r.b]
    IN CASE r.kind = "LOOP" -> Line(r.kind, r.name, b, IF a > b THEN a - b ELSE 0)
         [] r.kind = "BRANCH" -> Line(r.kind, r.name, a, b)
         [] OTHER -> Line(r.kind, r.name, a, 0)

\* The whole file, the records grouped by kind
Dump(records, counters) ==
    LET group(kind) == FlattenSeq([n \in DOMAIN records |->
                          IF records[n].kind = kind THEN <<records[n]>> ELSE <<>>])
        written == FlattenSeq([n \in DOMAIN Kinds |-> group(Kinds[n])])
    IN Header \o [n \in DOMAIN written |-> Written(written[n], counters)]

\* n without some of its last digits, as long as one is left
Shortened(n) == {m \in 1 .. n : \E d \in 1 .. n : m = n \div Digit ^ d}

\* What is left of a line cut in the middle: of its last number, or of nothing
\* that can be read
Cut(line) ==
    {Malformed} \cup
    CASE line.kind \in {"FUNCTION", "BLOCK"} -> {[line EXCEPT !.a = n] : n \in Shortened(line.a)}
      [] line.kind \in {"BRANCH", "LOOP"} -> {[line EXCEPT !.b = n] : n \in Shortened(line.b)}
      [] OTHER -> {}

\* What can be on disk when the writer is killed after it opened the file
CutShort(lines) ==
    UNION {{SubSeq(lines, 1, n)} \cup
           {Append(SubSeq(lines, 1, n), c) : c \in IF n = Len(lines) THEN {} ELSE Cut(lines[n + 1])} :
               n \in 0 .. Len(lines)}

-----------------------------------------------------------------------------
(* Classification *)

\* The busiest come first, equals by their names
Earlier(weight, x, y) ==
    \/ weight[x] > weight[y]
    \/ weight[x] = weight[y] /\ (x[1] < y[1] \/ (x[1] = y[1] /\ x[2][2] < y[2][2]))

SumOver(S, weight) == FoldSet(LAMBDA x, n : weight[x] + n, 0, S)
Largest(weight) == FoldSet(LAMBDA x, n : IF weight[x] > n THEN weight[x] ELSE n, 0, DOMAIN weight)

Negligible(weight, x) == weight[x] = 0 \/ weight[x] * ColdOneIn < Largest(weight)

\* Mutant: the entry with which the threshold is reached is left out of the prefix
Closed_Early(weight, x) ==
    LET first == {y \in DOMAIN weight : Earlier(weight, y, x) \/ y = x}
    IN 100 * SumOver(first, weight) >= HotThreshold * SumOver(DOMAIN weight, weight)

\* The sum of those that come before x reaches the threshold
Closed(weight, x) ==
    LET first == {y \in DOMAIN weight : Earlier(weight, y, x)}
    IN first # {} /\ 100 * SumOver(first, weight) >= HotThreshold * SumOver(DOMAIN weight, weight)

\* classifyGroup
Classify(weight) ==
    [x \in DOMAIN weight |->
        CASE ~Closed(weight, x) /\ weight[x] >= HotFloor -> "hot"
          [] (Closed(weight, x) \/ weight[x] < HotFloor) /\ Negligible(weight, x) -> "cold"
          [] OTHER -> "warm"]

-----------------------------------------------------------------------------
(* Reading *)

\* The numbers of the lines of one kind, added up for each name
Sums(file, kind) ==
    LET at == {n \in DOMAIN file : file[n].kind = kind}
        same(name) == {n \in at : file[n].name = name}
        a == [n \in at |-> file[n].a]
        b == [n \in at |-> file[n].b]
    IN [name \in {file[n].name : n \in at} |-> [a |-> SumOver(same(name), a), b |-> SumOver(same(name), b)]]

First(sums) == [name \in DOMAIN sums |-> sums[name].a]

\* The work inside a function; zero for one with no BLOCK record
Executions(calls, blocks) ==
    LET named == {<<name[1], <<"function", 0>>>> : name \in DOMAIN blocks} \cup DOMAIN calls
    IN [f \in named |-> SumOver({name \in DOMAIN blocks : name[1] = f[1]}, blocks)]

\* Names whose parts do not add up to the count of their block
FlowViolations(parts, blocks) ==
    {name \in DOMAIN parts \cap DOMAIN blocks : parts[name].a + parts[name].b # blocks[name]}

\* parseProfile: a file that does not begin as one is no profile, and any other line
\* that makes no sense is dropped
Parse(file) ==
    LET valid == file # <<>> /\ file[1].kind = "OPTIFORGE_PROFILE"
        lines == IF valid THEN file ELSE <<>>
        calls == First(Sums(lines, "FUNCTION"))
        blocks == First(Sums(lines, "BLOCK"))
        branches == Sums(lines, "BRANCH")
        loops == Sums(lines, "LOOP")
    IN [valid |-> valid, calls |-> calls, blocks |-> blocks, loops |-> loops,
        work |-> Executions(calls, blocks),
        functionHeat |-> Classify(Executions(calls, blocks)), blockHeat |-> Classify(blocks),
        violations |-> FlowViolations(branches, blocks) \cup FlowViolations(loops, blocks)]

\* Mutant: a block the profile does not know is set to zero
Annotated_Forgets(profile, k, label, counts) ==
    IF ~profile.valid THEN counts
    ELSE [b \in DOMAIN counts |->
            IF <<k, label[b]>> \in DOMAIN profile.blocks THEN profile.blocks[<<k, label[b]>>] ELSE 0]

\* annotateBlockCounts on function k: a block the profile does not know keeps its count
Annotated(profile, k, label, counts) ==
    IF ~profile.valid THEN counts
    ELSE [b \in DOMAIN counts |->
            IF <<k, label[b]>> \in DOMAIN profile.blocks THEN profile.blocks[<<k, label[b]>>]
            ELSE counts[b]]
=============================================================================
