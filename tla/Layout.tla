------------------------------- MODULE Layout -------------------------------
(***************************************************************************)
(* layoutBlocks of src/backend/Layout.cpp, and as much of CodeGen.cpp as   *)
(* it reads: the jumps a block ends with.  Blocks are ordered by how often *)
(* they ran when there is a profile, and jumps to the block that follows   *)
(* are removed in every build.                                             *)
(*                                                                         *)
(* Machine code is a sequence of blocks: the label, the count, and the     *)
(* jumps, each a mnemonic and where it goes.  What a conditional jump      *)
(* reads is how the two sides of a comparison are ordered; a condition     *)
(* that is tested against itself is "eq" to zero when it is false.         *)
(***************************************************************************)
EXTENDS IR

Orders == {"less", "equal", "greater"}

\* jccForInt and what the processor makes of it; the test of a value is jne
JumpFor == [eq |-> "je", ne |-> "jne", lt |-> "jl", gt |-> "jg", le |-> "jle", ge |-> "jge"]
JumpsOn == [je |-> {"equal"}, jne |-> {"less", "greater"}, jl |-> {"less"}, jg |-> {"greater"},
            jle |-> {"less", "equal"}, jge |-> {"greater", "equal"}, jmp |-> Orders]

\* Mutant: a strict comparison for a strict one
Inverted_Strict == [je |-> "jne", jne |-> "je", jl |-> "jg", jge |-> "jl", jg |-> "jl", jle |-> "jg"]

\* The opposite jumps; those for unsigned and unordered operands, which no branch
\* of the code generator uses, are left out
Inverted == [je |-> "jne", jne |-> "je", jl |-> "jge", jge |-> "jl", jg |-> "jle", jle |-> "jg"]

-----------------------------------------------------------------------------
(* What a branch is lowered to *)

\* fusesWithNextBranch: the comparison comes right before the branch, its only user
Fused(f, b) ==
    LET code == f.code[b]
        condition == Terminator(f, b).args[1]
    IN /\ Len(code) >= 2 /\ condition = Ref(code[Len(code) - 1])
       /\ f.inst[condition[2]].op = "icmp"
       /\ Users(f, condition) = {Last(code)}

Jump(mnemonic, to) == [mnemonic |-> mnemonic, to |-> to]

JumpsOf(f, b) ==
    LET to == Successors(f, b)
        condition == Terminator(f, b).args[1]
        first == IF Fused(f, b) THEN JumpFor[f.inst[condition[2]].attr] ELSE "jne"
    IN CASE Len(to) = 0 -> <<>>
         [] Len(to) = 1 -> <<Jump("jmp", to[1])>>
         [] Len(to) > 1 -> <<Jump(first, to[1]), Jump("jmp", to[2])>>

Lowered(f, counts) ==
    [n \in DOMAIN f.order |-> [label |-> f.order[n], count |-> counts[f.order[n]],
                               jumps |-> JumpsOf(f, f.order[n])]]

-----------------------------------------------------------------------------
(* Order by frequency *)

\* The first of the most frequent of the positions of machine at some places of a list
Hottest(machine, positions, places) ==
    positions[CHOOSE n \in places : \A m \in places :
        LET a == machine[positions[n]].count
            b == machine[positions[m]].count
        IN a > b \/ (a = b /\ n <= m)]

\* The block that comes next: the hottest successor of the last one placed that is not
\* placed yet, or else the hottest of all the blocks that are not
NextPlaced(machine, placed) ==
    LET position(b) == CHOOSE n \in DOMAIN machine : machine[n].label = b
        jumps == machine[Last(placed)].jumps
        targets == [j \in DOMAIN jumps |-> position(jumps[j].to)]
        all == [n \in DOMAIN machine |-> n]
        unplaced(positions) == {n \in DOMAIN positions : ~Contains(placed, positions[n])}
    IN IF unplaced(targets) # {} THEN Hottest(machine, targets, unplaced(targets))
       ELSE Hottest(machine, all, unplaced(all))

\* The entry leads: it carries the prologue
PlacedByFrequency(machine) ==
    PrefixByPrefix(LAMBDA placed, n : Append(placed, NextPlaced(machine, placed)),
                   <<1>>, Tail(machine))

OrderByFrequency(machine) ==
    LET order == PlacedByFrequency(machine) IN [n \in DOMAIN machine |-> machine[order[n]]]

-----------------------------------------------------------------------------
(* Jumps to the block that follows *)

\* The jumps of a block without the last one, when it goes to the block that follows;
\* of two jumps the first may be the one that does, and then it is inverted
Elided(jumps, next) ==
    LET last == Last(jumps)
        conditional == jumps[Len(jumps) - 1]
    IN IF jumps # <<>> /\ last.to = next THEN Front(jumps)
       ELSE IF Len(jumps) = 2 /\ conditional.to = next
         THEN <<Jump(Inverted[conditional.mnemonic], last.to)>>
         ELSE jumps

ElideFallThroughJumps(machine) ==
    [n \in DOMAIN machine |->
        IF n = Len(machine) THEN machine[n]
        ELSE [machine[n] EXCEPT !.jumps = Elided(@, machine[n + 1].label)]]

LayoutBlocks(f, counts, useProfile) ==
    LET lowered == Lowered(f, counts)
    IN ElideFallThroughJumps(IF useProfile /\ Len(lowered) > 2 THEN OrderByFrequency(lowered) ELSE lowered)

-----------------------------------------------------------------------------
(* Where control goes *)

\* From the end of block n of the machine code, when its comparison gave order
GoesTo(machine, n, order) ==
    LET jumps == machine[n].jumps
        taken == {j \in DOMAIN jumps : order \in JumpsOn[jumps[j].mnemonic]}
    IN IF taken # {} THEN jumps[Min(taken)].to ELSE machine[n + 1].label

\* What the branch of b is about to do in the IR
Chosen(f, b, order) ==
    LET to == Successors(f, b)
        condition == Terminator(f, b).args[1]
        holds == [eq |-> {"equal"}, ne |-> {"less", "greater"}, lt |-> {"less"}, gt |-> {"greater"},
                  le |-> {"less", "equal"}, ge |-> {"greater", "equal"}]
        true == IF Fused(f, b) THEN holds[f.inst[condition[2]].attr] ELSE {"less", "greater"}
    IN IF Len(to) = 1 \/ order \in true THEN to[1] ELSE to[2]

\* At most two ways out of a block, and a comparison before a branch is one of the six
Branching(f) ==
    \A b \in Blocks(f) :
      /\ Len(Successors(f, b)) <= 2
      /\ Len(Successors(f, b)) = 2 /\ Fused(f, b) =>
           f.inst[Terminator(f, b).args[1][2]].attr \in DOMAIN JumpFor

\* A function with a count for every block
CanBeLaidOut(f, counts) == IsFunction(f) /\ Branching(f) /\ counts \in [Blocks(f) -> Nat]

\* Every block is there once, the entry first, and after every branch the machine code
\* goes where the IR goes
KeepsFlow(f, machine) ==
    /\ DOMAIN machine = DOMAIN f.order /\ machine[1].label = Entry(f)
    /\ {machine[n].label : n \in DOMAIN machine} = Blocks(f)
    /\ \A n \in DOMAIN machine : Successors(f, machine[n].label) # <<>> =>
         \A order \in Orders : GoesTo(machine, n, order) = Chosen(f, machine[n].label, order)
=============================================================================
