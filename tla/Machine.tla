------------------------------ MODULE Machine ------------------------------
(***************************************************************************)
(* What the processor, the calling convention and the runtime library make *)
(* of the code module MachineCode selects.  None of it is in the source:   *)
(* it is modelled from what CodeGen.cpp relies on.                         *)
(*                                                                         *)
(* Memory is one stack that grows down from 0, a word for every multiple   *)
(* of eight.  A register or a word nobody wrote holds Junk, and a call     *)
(* leaves Junk in everything the convention lets the callee destroy.  A    *)
(* call with a misaligned stack, a return to another place than the        *)
(* caller, and a write further below the stack than one page end the run.  *)
(***************************************************************************)
EXTENDS MachineCode

CONSTANTS
    CallerSaved,    \* the registers a callee need not keep
    KeptRegisters,  \* the list of those it has to, rbp and rsp among them
    PageSize        \* the stack grows by one guard page at a time

Junk == 2 ^ 13 + 77
ReturnAddress(depth) == 2 ^ 28 + depth

AddressOf(m, x) == m.reg[x[2]] + x[3]
ReadFrom(m, x) ==
    CASE x[1] = "reg" -> m.reg[x[2]]
      [] x[1] = "imm" -> x[2]
      [] x[1] = "mem" -> IF AddressOf(m, x) \in DOMAIN m.mem THEN m.mem[AddressOf(m, x)] ELSE Junk

\* A word of memory; low is the lowest address touched so far
Poke(m, a, w) ==
    IF a < m.low - PageSize THEN [m EXCEPT !.status = "fault"]
    ELSE [m EXCEPT !.mem = (a :> w) @@ @, !.low = IF a < @ THEN a ELSE @]
WriteTo(m, x, w) ==
    IF x[1] = "reg" THEN [m EXCEPT !.reg[x[2]] = w] ELSE Poke(m, AddressOf(m, x), w)

\* cmp and comisd leave what they compared; a condition is read off it
ConditionHolds(c, a, b) ==
    LET unordered == NaN \in {a, b} IN
    CASE c \in {"e", "eq"} -> unordered \/ a = b
      [] c = "ne" -> ~unordered /\ a # b
      [] c = "a" -> ~unordered /\ a > b
      [] c = "ae" -> ~unordered /\ a >= b
      [] c = "b" -> unordered \/ a < b
      [] c = "be" -> unordered \/ a <= b
      [] c = "p" -> unordered
      [] c = "np" -> ~unordered
      [] OTHER -> Holds(c, a, b)

\* The instructions with a source and a destination, given what both hold
Calculated(op, from, to) ==
    CASE op = "and" -> IF from = 1 /\ to = 1 THEN 1 ELSE 0
      [] op = "or" -> IF from = 1 \/ to = 1 THEN 1 ELSE 0
      [] op = "cvtsi2sd" -> FromInt(from)
      [] OTHER -> Computed(op, "", <<to, from>>)

Pushed(m, w) ==
    LET below == [m EXCEPT !.reg.rsp = @ - 8] IN Poke(below, below.reg.rsp, w)
Popped(m, r) ==
    [m EXCEPT !.reg = [@ EXCEPT ![r] = ReadFrom(m, Mem("rsp", 0)), !.rsp = @ + 8]]

\* Where a callee finds its arguments, rsp being what it is at the call
ArgumentAt(types, n) ==
    IF n > MaxRegisterArgs THEN OutgoingArg(n)
    ELSE Reg((IF types[n] = "f64" THEN FloatArgs ELSE IntArgs)[n])

\* A function of the runtime: prints its arguments, destroys what it may
CallRuntime(m, name, types) ==
    LET home == m.reg.rsp
        destroyed == {home + 8 * k : k \in 0 .. (Shadow \div 8) - 1}
    IN [m EXCEPT !.out = Append(@, <<name, [n \in DOMAIN types |-> ReadFrom(m, ArgumentAt(types, n))]>>),
                 !.reg = [r \in DOMAIN @ |-> IF r \in CallerSaved THEN Junk ELSE @[r]],
                 !.mem = [a \in destroyed |-> Junk] @@ @]

\* program: the functions by name, those of the runtime without code
RECURSIVE CallTo(_, _, _, _)

Step(program, m, ins, depth) ==
    LET op == ins[1] IN
    CASE m.status # "running" \/ m.at # 0 -> m
      [] OTHER ->
         CASE op = "mov" -> WriteTo(m, ins[3], ReadFrom(m, ins[2]))
           [] op = "lea" -> WriteTo(m, ins[3], AddressOf(m, ins[2]))
           [] op = "push" -> Pushed(m, m.reg[ins[2]])
           [] op = "pop" -> Popped(m, ins[2])
           [] op = "probe" -> [m EXCEPT !.low = IF m.reg.rsp - m.reg.rax < @ THEN m.reg.rsp - m.reg.rax ELSE @]
           [] op \in {"cmp", "comisd"} ->
                [m EXCEPT !.flags = <<ReadFrom(m, ins[3]), ReadFrom(m, ins[2])>>]
           [] op = "set" ->
                WriteTo(m, ins[3], IF ConditionHolds(ins[2], m.flags[1], m.flags[2]) THEN 1 ELSE 0)
           [] op = "jmp" -> [m EXCEPT !.at = ins[2]]
           [] op = "jcc" ->
                IF ConditionHolds(ins[2], m.flags[1], m.flags[2]) THEN [m EXCEPT !.at = ins[3]] ELSE m
           [] op = "idiv" ->
                LET x == <<m.reg.rax, ReadFrom(m, ins[2])>> IN
                IF Traps("sdiv", x) THEN [m EXCEPT !.status = "trapped"]
                ELSE [m EXCEPT !.reg.rax = Quotient(x[1], x[2]), !.reg.rdx = Remainder(x[1], x[2])]
           [] op \in {"neg", "fneg", "not"} ->
                WriteTo(m, ins[2], Computed(op, "", <<ReadFrom(m, ins[2])>>))
           [] op = "call" -> CallTo(program, m, ins[2], depth)
           [] op = "ret" ->
                IF ReadFrom(m, Mem("rsp", 0)) = ReturnAddress(depth)
                  THEN [m EXCEPT !.reg.rsp = @ + 8, !.at = -1]
                  ELSE [m EXCEPT !.status = "wild"]
           [] OTHER -> WriteTo(m, ins[3], Calculated(op, ReadFrom(m, ins[2]), ReadFrom(m, ins[3])))

\* A call runs the callee up to its ret; at is where it jumped, -1 once it returned
CallTo(program, m, name, depth) ==
    LET callee == program[name]
        RunBlock(s, k) ==
          IF s.status # "running" \/ s.at = -1 THEN s
          ELSE InOrder(LAMBDA t, ins : Step(program, t, ins, depth + 1),
                       [s EXCEPT !.at = 0], callee.code[s.at])
        entered == [Pushed(m, ReturnAddress(depth + 1)) EXCEPT !.at = callee.entry]
        left == InOrder(RunBlock, entered, [k \in 1 .. Fuel |-> k])
    IN CASE m.reg.rsp % Alignment # 0 -> [m EXCEPT !.status = "misaligned"]
         [] m.reg.rsp % Alignment = 0 /\ callee.code = <<>> -> CallRuntime(m, name, callee.params)
         [] m.reg.rsp % Alignment = 0 /\ callee.code # <<>> /\ depth < Fuel ->
              IF left.status = "running" /\ left.at # -1 THEN [left EXCEPT !.status = "diverges"]
              ELSE [left EXCEPT !.at = 0]
         [] OTHER -> [m EXCEPT !.status = "diverges"]

\* Every register a callee has to keep with a value of its own before the program starts
Machine0 ==
    [reg |-> [r \in CallerSaved \cup ToSet(KeptRegisters) |->
                CASE r = "rsp" -> 0
                  [] r \in CallerSaved -> Junk
                  [] OTHER -> Junk + (CHOOSE n \in DOMAIN KeptRegisters : KeptRegisters[n] = r)],
     mem |-> <<>>, flags |-> <<0, 0>>, out |-> <<>>, status |-> "running", at |-> 0, low |-> 0]

\* main called by the runtime's start-up code; kept says that it returned with
\* every register it has to keep as it was
RunProgram(program) ==
    LET start == [Machine0 EXCEPT !.reg.rsp = -Shadow]
        end == CallTo(program, start, "main", 0)
    IN [out |-> end.out, value |-> end.reg.rax,
        status |-> IF end.status = "running" THEN "returned" ELSE end.status,
        kept |-> end.status = "running" => \A r \in ToSet(KeptRegisters) : end.reg[r] = start.reg[r]]
=============================================================================
