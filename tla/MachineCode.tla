----------------------------- MODULE MachineCode -----------------------------
(***************************************************************************)
(* From a function out of SSA form and the registers its values were given *)
(* to machine code: the frame, the prologue and epilogue, and what is      *)
(* selected for every instruction (src/backend/CodeGen.cpp for the Windows *)
(* x64 target of X86Target.cpp).                                           *)
(*                                                                         *)
(* An operand is a register, a constant, or a word of memory at an offset  *)
(* from a register.  movq, movsd and movups are one "mov" of a word, a     *)
(* label is the block it names, and the names that go into the assembly    *)
(* are left out.  home is the assignment: its domain are the values with a *)
(* register, and it maps them to theirs.                                   *)
(***************************************************************************)
EXTENDS Interference

CONSTANTS
    IntArgs, FloatArgs,   \* rcx, rdx, r8, r9 and xmm0 .. xmm3, in order
    FloatRegisters,       \* the registers isFloatReg() answers true for
    ProbeThreshold        \* kStackProbeThreshold

Shadow == 32
Alignment == 16
MaxRegisterArgs == 4

ASSUME TargetAssumption ==
    Len(IntArgs) = MaxRegisterArgs /\ Len(FloatArgs) = MaxRegisterArgs

Reg(r) == <<"reg", r>>
Imm(n) == <<"imm", n>>
Mem(base, offset) == <<"mem", base, offset>>
IsFloat(r) == r \in FloatRegisters
Scratch(type) == IF type = "f64" THEN <<"xmm4", "xmm5">> ELSE <<"rax", "r10">>
ReturnRegister(type) == IF type = "f64" THEN "xmm0" ELSE "rax"
Move(from, to) == IF from = to THEN <<>> ELSE <<<<"mov", from, to>>>>

-----------------------------------------------------------------------------
(* assignSlots: cg is the generator's state for one function *)

AlignUp(n, to) == ((n + to - 1) \div to) * to

Elements(f, i) == IF i \in DOMAIN f.elements THEN f.elements[i] ELSE 1

\* The values with a slot of their own, in the order they get one, and its size
Aliased(f, i) == i \in DOMAIN f.alias /\ f.alias[i] # i
SlotOwners(f, home) ==
    SelectSeq(Values(f), LAMBDA v :
        /\ v \notin DOMAIN home
        /\ IsRef(v) => ~Aliased(f, v[2]) /\ HasResult(f.inst[v[2]]))
SlotSize(f, v) == IF IsRef(v) /\ f.inst[v[2]].op = "alloca" THEN 8 * Elements(f, v[2]) ELSE 8

\* The offset grows by the whole slot first: element 0 of an array is the lowest
SlotsBelow(f, owners, offset) ==
    LET upTo(n) == FoldLeft(+, offset, [k \in 1 .. n |-> SlotSize(f, owners[k])])
    IN [v \in ToSet(owners) |-> -upTo(CHOOSE n \in DOMAIN owners : owners[n] = v)]

MostCallArgs(f) == Max({0} \cup {Len(f.inst[i].args) : i \in {j \in DOMAIN f.inst : f.inst[j].op = "call"}})

\* Mutant: the pushed registers are not counted when the frame is aligned
FrameSize_IgnoresPushes(local, outgoing, pushes) == AlignUp(local + outgoing, Alignment)

\* An odd number of pushes leaves rsp eight bytes out
FrameSize(local, outgoing, pushes) ==
    AlignUp(local + outgoing, Alignment) + (IF pushes % 2 = 1 THEN 8 ELSE 0)

AssignSlots(f, home, usedCalleeSaved) ==
    LET gprs == SetToSeq(usedCalleeSaved \ FloatRegisters)
        xmms == SetToSeq(usedCalleeSaved \cap FloatRegisters)
        pushed == 8 * Len(gprs)
        owners == SlotOwners(f, home)
        slots == SlotsBelow(f, owners, pushed + 16 * Len(xmms))
        \* copies share the slot of their root when that has one
        sharing == {i \in DOMAIN f.alias : Aliased(f, i) /\ Ref(i) \notin DOMAIN home
                                            /\ Ref(f.alias[i]) \in DOMAIN slots}
        local == FoldLeft(+, 16 * Len(xmms), [k \in DOMAIN owners |-> SlotSize(f, owners[k])])
        extra == Max({0, MostCallArgs(f) - MaxRegisterArgs})
    IN [f |-> f, home |-> home, gprs |-> gprs,
        xmms |-> [k \in DOMAIN xmms |-> <<xmms[k], -(pushed + 16 * k)>>],
        slots |-> slots @@ [v \in {Ref(i) : i \in sharing} |-> slots[Ref(f.alias[v[2]])]],
        frame |-> FrameSize(local, Shadow + 8 * extra, Len(gprs))]

HasHome(cg, v) == v \in DOMAIN cg.home
HasSlot(cg, v) == v \in DOMAIN cg.slots
Slot(cg, v) == Mem("rbp", cg.slots[v])
IsDirectSlot(cg, v) == IsRef(v) /\ cg.f.inst[v[2]].op = "alloca" /\ HasSlot(cg, v)

-----------------------------------------------------------------------------
(* Prologue and epilogue *)

IncomingArg(n) == Mem("rbp", 16 + Shadow + 8 * (n - 1 - MaxRegisterArgs))

\* An incoming argument on its way to its home
HomeArgument(cg, n) ==
    LET v == Arg(n)
        type == cg.f.params[n]
        source == IF n <= MaxRegisterArgs
                    THEN Reg((IF type = "f64" THEN FloatArgs ELSE IntArgs)[n])
                    ELSE IncomingArg(n)
        through == Reg(Scratch(type)[1])
    IN CASE HasHome(cg, v) -> Move(source, Reg(cg.home[v]))
         [] ~HasHome(cg, v) /\ n <= MaxRegisterArgs -> Move(source, Slot(cg, v))
         [] OTHER -> Move(source, through) \o Move(through, Slot(cg, v))

\* A frame larger than a page is touched page by page before rsp moves
ReserveFrame(cg) ==
    CASE cg.frame = 0 -> <<>>
      [] cg.frame > ProbeThreshold ->
           <<<<"mov", Imm(cg.frame), Reg("rax")>>, <<"probe">>, <<"sub", Reg("rax"), Reg("rsp")>>>>
      [] OTHER -> <<<<"sub", Imm(cg.frame), Reg("rsp")>>>>

Prologue(cg) ==
    <<<<"push", "rbp">>, <<"mov", Reg("rsp"), Reg("rbp")>>>>
    \o [k \in DOMAIN cg.gprs |-> <<"push", cg.gprs[k]>>]
    \o ReserveFrame(cg)
    \o [k \in DOMAIN cg.xmms |-> <<"mov", Reg(cg.xmms[k][1]), Mem("rbp", cg.xmms[k][2])>>]
    \o FlattenSeq([n \in DOMAIN cg.f.params |-> HomeArgument(cg, n)])

Epilogue(cg) ==
    [k \in DOMAIN cg.xmms |-> <<"mov", Mem("rbp", cg.xmms[k][2]), Reg(cg.xmms[k][1])>>]
    \o <<<<"lea", Mem("rbp", -8 * Len(cg.gprs)), Reg("rsp")>>>>
    \o [k \in DOMAIN cg.gprs |-> <<"pop", Reverse(cg.gprs)[k]>>]
    \o <<<<"pop", "rbp">>, <<"ret">>>>

-----------------------------------------------------------------------------
(* Value movement *)

\* loadInt and loadFloat; the value of an alloca is the address of its slot
Load(cg, v, r) ==
    CASE HasHome(cg, v) -> Move(Reg(cg.home[v]), Reg(r))
      [] IsDirectSlot(cg, v) -> <<<<"lea", Slot(cg, v), Reg(r)>>>>
      [] ~HasHome(cg, v) /\ ~IsDirectSlot(cg, v) /\ HasSlot(cg, v) -> Move(Slot(cg, v), Reg(r))
      [] OTHER -> Move(Imm(IF IsConstant(v) THEN v[2] ELSE 0), Reg(r))

StoreResult(cg, i, r) ==
    CASE HasHome(cg, Ref(i)) -> Move(Reg(r), Reg(cg.home[Ref(i)]))
      [] ~HasHome(cg, Ref(i)) /\ HasSlot(cg, Ref(i)) -> Move(Reg(r), Slot(cg, Ref(i)))
      [] OTHER -> <<>>

\* destinationFor: where the result lives, if that is a register of the class
DestinationFor(cg, i, fallback) ==
    IF HasHome(cg, Ref(i)) /\ IsFloat(cg.home[Ref(i)]) = IsFloat(fallback)
      THEN cg.home[Ref(i)] ELSE fallback

\* An operand where it lives, or in scratch after it was loaded there
InPlace(cg, v, scratch) == IF HasHome(cg, v) THEN cg.home[v] ELSE scratch
LoadUnlessInPlace(cg, v, scratch) == IF HasHome(cg, v) THEN <<>> ELSE Load(cg, v, scratch)

-----------------------------------------------------------------------------
(* Instruction lowering *)

\* Mutant: the right operand is read where it lives, whatever the result overwrites
LowerBinary_NoCollision(cg, i) ==
    LET ins == cg.f.inst[i]
        lhs == DestinationFor(cg, i, Scratch(ins.type)[1])
        rhs == InPlace(cg, ins.args[2], Scratch(ins.type)[2])
    IN LoadUnlessInPlace(cg, ins.args[2], rhs)
       \o Load(cg, ins.args[1], lhs) \o <<<<ins.op, Reg(rhs), Reg(lhs)>>>> \o StoreResult(cg, i, lhs)

\* The right operand where it lives, unless the left one is about to overwrite it
LowerBinary(cg, i) ==
    LET ins == cg.f.inst[i]
        lhs == DestinationFor(cg, i, Scratch(ins.type)[1])
        collides == InPlace(cg, ins.args[2], lhs) = lhs
        rhs == IF collides THEN Scratch(ins.type)[2] ELSE cg.home[ins.args[2]]
    IN (IF collides THEN Load(cg, ins.args[2], rhs) ELSE <<>>)
       \o Load(cg, ins.args[1], lhs) \o <<<<ins.op, Reg(rhs), Reg(lhs)>>>> \o StoreResult(cg, i, lhs)

\* The count goes to cl first: the destination may be the register it lives in
LowerShift(cg, i) ==
    LET ins == cg.f.inst[i]
        value == DestinationFor(cg, i, "rax")
    IN Load(cg, ins.args[2], "rcx") \o Load(cg, ins.args[1], value)
       \o <<<<ins.op, Reg("rcx"), Reg(value)>>>> \o StoreResult(cg, i, value)

LowerDivRem(cg, i) ==
    LET ins == cg.f.inst[i]
    IN Load(cg, ins.args[1], "rax") \o Load(cg, ins.args[2], "r10") \o <<<<"idiv", Reg("r10")>>>>
       \o StoreResult(cg, i, IF ins.op = "srem" THEN "rdx" ELSE "rax")

LowerUnary(cg, i) ==
    LET ins == cg.f.inst[i]
        r == DestinationFor(cg, i, Scratch(ins.type)[1])
    IN Load(cg, ins.args[1], r) \o <<<<ins.op, Reg(r)>>>> \o StoreResult(cg, i, r)

LowerSIToFP(cg, i) ==
    LET r == DestinationFor(cg, i, "xmm4")
    IN Load(cg, cg.f.inst[i].args[1], "rax") \o <<<<"cvtsi2sd", Reg("rax"), Reg(r)>>>>
       \o StoreResult(cg, i, r)

\* The operands of a comparison, left and right, wherever they are
Compared(cg, ins, op) ==
    LET s == Scratch(TypeOf(cg.f, ins.args[1]))
        left == InPlace(cg, ins.args[1], s[1])
        right == InPlace(cg, ins.args[2], s[2])
    IN LoadUnlessInPlace(cg, ins.args[1], left) \o LoadUnlessInPlace(cg, ins.args[2], right)
       \o (IF op = "comisd" /\ ins.attr \in {"lt", "le"}
             THEN <<<<op, Reg(left), Reg(right)>>>> ELSE <<<<op, Reg(right), Reg(left)>>>>)

\* setccForFloat: the above conditions are false for unordered operands
FloatCondition(predicate) ==
    [eq |-> "e", ne |-> "ne", lt |-> "a", gt |-> "a", le |-> "ae", ge |-> "ae"][predicate]

\* ZF says "equal" of unordered operands too: the parity flag decides
Parity(predicate, r) ==
    CASE predicate = "eq" -> <<<<"set", "np", Reg("r10")>>, <<"and", Reg("r10"), Reg(r)>>>>
      [] predicate = "ne" -> <<<<"set", "p", Reg("r10")>>, <<"or", Reg("r10"), Reg(r)>>>>
      [] OTHER -> <<>>

LowerCompare(cg, i) ==
    LET ins == cg.f.inst[i]
        r == DestinationFor(cg, i, "rax")
    IN (IF ins.op = "icmp" THEN Compared(cg, ins, "cmp") \o <<<<"set", ins.attr, Reg(r)>>>>
        ELSE Compared(cg, ins, "comisd") \o <<<<"set", FloatCondition(ins.attr), Reg(r)>>>>
             \o Parity(ins.attr, r))
       \o StoreResult(cg, i, r)

\* fusesWithNextBranch: used once, by the branch right after it
Fuses(f, b, n) ==
    /\ f.inst[f.code[b][n]].op = "icmp" /\ n = Len(f.code[b]) - 1
    /\ Terminator(f, b).op = "condbr" /\ Terminator(f, b).args = <<Ref(f.code[b][n])>>
    /\ Users(f, Ref(f.code[b][n])) = {Last(f.code[b])}

\* The index is read before the destination, which may be its register, is written
LowerGep(cg, i) ==
    LET ins == cg.f.inst[i]
        r == DestinationFor(cg, i, "r10")
    IN Load(cg, ins.args[2], "rax") \o <<<<"shl", Imm(3), Reg("rax")>>>>
       \o Load(cg, ins.args[1], r) \o <<<<"add", Reg("rax"), Reg(r)>>>> \o StoreResult(cg, i, r)

\* Nothing when source and destination are one register or one slot
LowerCopy(cg, i) ==
    LET ins == cg.f.inst[i]
        v == ins.args[1]
        r == DestinationFor(cg, i, Scratch(ins.type)[1])
        same(place) == {v, Ref(i)} \subseteq DOMAIN place /\ place[v] = place[Ref(i)]
    IN IF same(cg.home) \/ same(cg.slots) THEN <<>>
       ELSE Load(cg, v, r) \o StoreResult(cg, i, r)

\* The memory an address operand names, and the code that gets the address
Addressed(cg, v) ==
    IF IsDirectSlot(cg, v) THEN [code |-> <<>>, at |-> Slot(cg, v)]
    ELSE [code |-> Load(cg, v, "r10"), at |-> Mem("r10", 0)]

LowerLoad(cg, i) ==
    LET ins == cg.f.inst[i]
        r == DestinationFor(cg, i, Scratch(ins.type)[1])
        from == Addressed(cg, ins.args[1])
    IN from.code \o Move(from.at, Reg(r)) \o StoreResult(cg, i, r)

LowerStore(cg, i) ==
    LET v == cg.f.inst[i].args[1]
        r == InPlace(cg, v, Scratch(TypeOf(cg.f, v))[1])
        to == Addressed(cg, cg.f.inst[i].args[2])
    IN LoadUnlessInPlace(cg, v, r) \o to.code \o Move(Reg(r), to.at)

OutgoingArg(n) == Mem("rsp", Shadow + 8 * (n - 1 - MaxRegisterArgs))

LowerCall(cg, i) ==
    LET ins == cg.f.inst[i]
        Stage(n) ==
          LET type == TypeOf(cg.f, ins.args[n])
              r == IF n > MaxRegisterArgs THEN Scratch(type)[1]
                   ELSE (IF type = "f64" THEN FloatArgs ELSE IntArgs)[n]
          IN Load(cg, ins.args[n], r)
             \o (IF n > MaxRegisterArgs THEN Move(Reg(r), OutgoingArg(n)) ELSE <<>>)
    IN FlattenSeq([n \in DOMAIN ins.args |-> Stage(n)]) \o <<<<"call", ins.attr>>>>
       \o (IF HasResult(ins) THEN StoreResult(cg, i, ReturnRegister(ins.type)) ELSE <<>>)

LowerReturn(cg, i) ==
    LET args == cg.f.inst[i].args
    IN (IF args = <<>> THEN <<>> ELSE Load(cg, args[1], ReturnRegister(TypeOf(cg.f, args[1]))))
       \o Epilogue(cg)

\* fused says that the comparison before the branch left its flags to it
LowerCondBr(cg, i, fused) ==
    LET ins == cg.f.inst[i]
        c == InPlace(cg, ins.args[1], "rax")
        compare == cg.f.inst[ins.args[1][2]]
    IN (IF fused THEN Compared(cg, compare, "cmp") \o <<<<"jcc", compare.attr, ins.to[1]>>>>
        ELSE LoadUnlessInPlace(cg, ins.args[1], c)
             \o <<<<"cmp", Imm(0), Reg(c)>>, <<"jcc", "ne", ins.to[1]>>>>)
       \o <<<<"jmp", ins.to[2]>>>>

LowerInstruction(cg, b, n) ==
    LET i == cg.f.code[b][n]
        op == cg.f.inst[i].op
    IN CASE op \in {"add", "sub", "mul"} \cup FloatArithmetic -> LowerBinary(cg, i)
         [] op \in {"shl", "ashr"} -> LowerShift(cg, i)
         [] op \in {"sdiv", "srem"} -> LowerDivRem(cg, i)
         [] op \in {"neg", "fneg", "not"} -> LowerUnary(cg, i)
         [] op = "sitofp" -> LowerSIToFP(cg, i)
         [] op = "fcmp" \/ (op = "icmp" /\ ~Fuses(cg.f, b, n)) -> LowerCompare(cg, i)
         [] op = "icmp" /\ Fuses(cg.f, b, n) -> <<>>
         [] op = "alloca" -> <<>>
         [] op = "gep" -> LowerGep(cg, i)
         [] op = "copy" -> LowerCopy(cg, i)
         [] op = "load" -> LowerLoad(cg, i)
         [] op = "store" -> LowerStore(cg, i)
         [] op = "br" -> <<<<"jmp", cg.f.inst[i].to[1]>>>>
         [] op = "condbr" -> LowerCondBr(cg, i, n > 1 /\ Fuses(cg.f, b, n - 1))
         [] op = "ret" -> LowerReturn(cg, i)
         [] op = "call" -> LowerCall(cg, i)

\* lowerFunction
LowerFunction(f, home, usedCalleeSaved) ==
    LET cg == AssignSlots(f, home, usedCalleeSaved)
        Lowered(b) == FlattenSeq([n \in DOMAIN f.code[b] |-> LowerInstruction(cg, b, n)])
    IN [entry |-> Entry(f), params |-> f.params, type |-> f.type,
        code |-> [b \in Blocks(f) |->
                    (IF b = Entry(f) THEN Prologue(cg) ELSE <<>>) \o Lowered(b)]]
=============================================================================
