--------------------------- MODULE BoundedMachine ---------------------------
(***************************************************************************)
(* The bounded interpreter of static ELF files (session.ts): it loads the  *)
(* PT_LOAD segments and a stack, decodes the instruction at RIP and carries *)
(* it out on X86State. One action per group of mnemonics; an exception of   *)
(* any of them traps the session with what was done before it kept.         *)
(***************************************************************************)
EXTENDS X86State, Bitwise

CONSTANTS Programs,          \* code, base, entry, segments and path length of the images
          MaxInstructions, IoLimit, StackTop, StackBytes, PageBudget,
          Syscalls,          \* policy.syscallPolicy is not 'none'
          Inputs             \* encodings of policy.stdin and of typed text

VARIABLES program, cpu, status, instructionCount, lastInstruction,
          exitCode, stdout, stderr, stdinBytes, stdinCursor

vars == <<program, cpu, status, instructionCount, lastInstruction,
          exitCode, stdout, stderr, stdinBytes, stdinCursor>>
streams == <<exitCode, stdout, stderr, stdinBytes, stdinCursor>>

Terminal == {"exited", "halted", "trapped"}
None == -1
NoInstruction == [op |-> "none", args |-> << >>, target |-> None, end |-> 0]

(* i.args: registers and memory with the alias that gives their width, and *)
(* immediates; i.target: the direct target of a transfer, or None.         *)
At(address) ==
  LET k == (address - program.base) \div program.stride
  IN  [op |-> program.code[k + 1].op, args |-> program.code[k + 1].args,
       target |-> program.code[k + 1].target, end |-> address + program.stride]
Decodes(address) ==
  /\ address \in {program.base + k * program.stride : k \in 0..(Len(program.code) - 1)}
  /\ CanAccess(cpu.mem, address, program.stride, "x")

(******************************* preparation *******************************)
Supported(p) ==
  \E k \in DOMAIN p.segments :
    LET s == p.segments[k] IN "x" \in s.perms /\ p.entry \in Span(s.address, s.size)

MapSegment(mem, s) ==
  IF s.size = 0 THEN mem ELSE LoadCells(MapPages(mem, s.address, s.size, s.perms), s.address, s.bytes)

LoadedMemory(p) ==
  LET upTo[k \in 0..Len(p.segments)] ==
        IF k = 0 THEN EmptyMemory ELSE MapSegment(upTo[k - 1], p.segments[k])
  IN  MapPages(upTo[Len(p.segments)], StackTop - StackBytes, StackBytes, {"r", "w"})

Fits(p) == Cardinality(DOMAIN LoadedMemory(p).page) <= PageBudget

(* argc, argv[0] and its terminator, no environment, AT_PAGESZ, AT_ENTRY   *)
StackWords(p) == <<1, StackTop - p.path, 0, 0, 6, PageSize, 9, p.entry, 0, 0>>
InitialSp(p) ==
  LET align(a) == (a \div 16) * 16
  IN  align(align(StackTop - p.path) - Len(StackWords(p)) * Cells("q"))
StackWritten(p, mem) ==
  LET sp == InitialSp(p)
      upTo[k \in 0..Len(StackWords(p))] ==
        IF k = 0 THEN mem
        ELSE Written(upTo[k - 1], sp + (k - 1) * 8, Digits(StackWords(p)[k], 8))
  IN  upTo[Len(StackWords(p))]

Prepared ==
  /\ cpu = [regs  |-> [[r \in Names |-> 0] EXCEPT !["rip"] = program.entry, !["rsp"] = InitialSp(program)],
            flags |-> NoFlags,
            mem   |-> StackWritten(program, LoadedMemory(program)),
            fault |-> FALSE]
  /\ status = "ready" /\ instructionCount = 0 /\ lastInstruction = NoInstruction
  /\ exitCode = None /\ stdout = << >> /\ stderr = << >>
  /\ stdinBytes \in Inputs /\ stdinCursor = 0

Init == program \in {p \in Programs : Supported(p) /\ Fits(p)} /\ Prepared

(******************************** operands ********************************)
Bits(o) == Width[o.as]

(* The base and the index are read by the alias that names them.           *)
Address(c, o) ==
  (o.disp + (IF o.base = "none" THEN 0 ELSE Register(c, o.base, o.baseAs))
          + (IF o.index = "none" THEN 0 ELSE Register(c, o.index, o.indexAs) * o.scale)) % Word

Readable(c, o) ==
  o.kind = "memory" => ~o.thread /\ CanAccess(c.mem, Address(c, o), Cells(o.as), "r")

Value(c, o) ==
  CASE o.kind = "register"  -> Register(c, o.name, o.as)
    [] o.kind = "immediate" -> o.value
    [] o.kind = "memory"    -> ReadUnsigned(c.mem, Address(c, o), Cells(o.as))

Assign(c, o, v) ==
  CASE o.kind = "register"  -> SetRegister(c, o.name, o.as, v)
    [] o.kind = "memory"    -> IF o.thread THEN Fault(c)
                               ELSE StoreBytes(c, Address(c, o), Digits(v, Cells(o.as)))
    [] o.kind = "immediate" -> Fault(c)

Using(c, o, Then(_)) == IF Readable(c, o) THEN Then(Value(c, o)) ELSE Fault(c)
UsingBoth(c, i, Then(_, _)) ==
  Using(c, i.args[1], LAMBDA l : Using(c, i.args[2], LAMBDA r : Then(l, r)))

(********************************* flags *********************************)
ParityEven(x) == x \in {0, 3}
Top(v, bits) == Clip(v, bits) >= 2 ^ (bits - 1)

Common(f, result, bits) ==
  [f EXCEPT !.zf = Clip(result, bits) = 0, !.sf = Top(result, bits),
            !.pf = ParityEven(Clip(result, bits) % 4)]

Logical(f, result, bits) == [Common(f, result, bits) EXCEPT !.cf = FALSE, !.of = FALSE]

(* A sum of exactly 2^bits - 1 counted as a carry.                          *)
AddedEarly(f, l, r, bits) ==
  [Common(f, l + r, bits) EXCEPT
     !.cf = Clip(l, bits) + Clip(r, bits) >= 2 ^ bits - 1,
     !.of = Top(l, bits) = Top(r, bits) /\ Top(l, bits) # Top(l + r, bits)]

Added(f, l, r, bits) ==
  [Common(f, l + r, bits) EXCEPT
     !.cf = Clip(l, bits) + Clip(r, bits) > 2 ^ bits - 1,
     !.of = Top(l, bits) = Top(r, bits) /\ Top(l, bits) # Top(l + r, bits)]

Subtracted(f, l, r, bits) ==
  [Common(f, l - r, bits) EXCEPT
     !.cf = Clip(l, bits) < Clip(r, bits),
     !.of = Top(l, bits) # Top(r, bits) /\ Top(l, bits) # Top(l - r, bits)]

Taken(f, op) ==
  CASE op = "je"  -> f.zf              [] op = "jne" -> ~f.zf
    [] op = "ja"  -> ~f.cf /\ ~f.zf    [] op = "jbe" -> f.cf \/ f.zf
    [] op = "jae" -> ~f.cf             [] op = "jb"  -> f.cf
    [] op = "jg"  -> ~f.zf /\ f.sf = f.of
    [] op = "jle" -> f.zf \/ f.sf # f.of
    [] op = "jge" -> f.sf = f.of       [] op = "jl"  -> f.sf # f.of
    [] op = "js"  -> f.sf              [] op = "jns" -> ~f.sf
    [] op = "jo"  -> f.of              [] op = "jno" -> ~f.of
    [] op = "jp"  -> f.pf              [] op = "jnp" -> ~f.pf

Branches == {"je", "jne", "ja", "jbe", "jae", "jb", "jg", "jle", "jge", "jl",
             "js", "jns", "jo", "jno", "jp", "jnp"}
Groups == {"nop", "hlt", "cld", "std", "mov", "movzx", "movsx", "lea", "xchg", "push", "pop", "leave",
           "xor", "and", "or", "test", "add", "sub", "cmp", "inc", "dec", "neg", "not",
           "shl", "shr", "sar", "imul", "cdqe", "cqo", "call", "ret", "jmp", "syscall"} \cup Branches

(******************************* stepping *******************************)
Begin(i) == [cpu EXCEPT !.regs["rip"] = i.end]

After(reached) == IF reached \in Terminal \cup {"running"} THEN reached ELSE "paused"

(* step: the instruction is counted before it is executed.                 *)
SteppingFree(i) ==
  /\ status \notin Terminal /\ instructionCount < MaxInstructions
  /\ Decodes(cpu.regs["rip"]) /\ i = At(cpu.regs["rip"])
  /\ lastInstruction' = i
  /\ UNCHANGED <<program, instructionCount>>
Stepping(i) ==
  /\ status \notin Terminal /\ instructionCount < MaxInstructions
  /\ Decodes(cpu.regs["rip"]) /\ i = At(cpu.regs["rip"])
  /\ instructionCount' = instructionCount + 1 /\ lastInstruction' = i
  /\ UNCHANGED program

Retire(i, c) ==
  /\ Stepping(i) /\ cpu' = c
  /\ status' = IF c.fault THEN "trapped" ELSE After(status)
  /\ UNCHANGED streams

Trap ==
  /\ status \notin Terminal
  /\ instructionCount >= MaxInstructions \/ ~Decodes(cpu.regs["rip"])
  /\ status' = "trapped"
  /\ UNCHANGED <<program, cpu, instructionCount, lastInstruction, streams>>

Nop(i) == i.op = "nop" /\ Retire(i, Begin(i))
Halt(i) ==
  /\ i.op = "hlt" /\ Stepping(i)
  /\ cpu' = Begin(i) /\ status' = "halted" /\ UNCHANGED streams
Direction(i) == i.op \in {"cld", "std"} /\ Retire(i, [Begin(i) EXCEPT !.flags.df = i.op = "std"])

Move(i) ==
  /\ i.op = "mov"
  /\ LET c == Begin(i) IN Retire(i, Using(c, i.args[2], LAMBDA v : Assign(c, i.args[1], v)))

Extend(i) ==
  /\ i.op \in {"movzx", "movsx"}
  /\ LET c == Begin(i)
         bits == Bits(i.args[2])
         extended(v) == IF i.op = "movzx" THEN Clip(v, bits) ELSE SignedValue(v, bits)
     IN  Retire(i, Using(c, i.args[2], LAMBDA v : Assign(c, i.args[1], extended(v))))

Lea(i) ==
  /\ i.op = "lea"
  /\ LET c == Begin(i)
     IN  Retire(i, IF i.args[2].thread THEN Fault(c) ELSE Assign(c, i.args[1], Address(c, i.args[2])))

Exchange(i) ==
  /\ i.op = "xchg"
  /\ LET c == Begin(i)
         swapped(l, r) ==
           LET first == Assign(c, i.args[1], r)
           IN  IF first.fault THEN first ELSE Assign(first, i.args[2], l)
     IN  Retire(i, UsingBoth(c, i, swapped))

(********************************* the stack *********************************)
Pushed(c, v) ==
  LET sp == (c.regs["rsp"] - 8) % Word
      stored == StoreBytes(c, sp, Digits(v, 8))
  IN  IF stored.fault THEN stored ELSE SetRegister(stored, "rsp", "q", sp)

Popping(c, Then(_, _)) ==
  IF CanAccess(c.mem, c.regs["rsp"], 8, "r")
  THEN Then(SetRegister(c, "rsp", "q", c.regs["rsp"] + 8), ReadUnsigned(c.mem, c.regs["rsp"], 8))
  ELSE Fault(c)

Push(i) ==
  /\ i.op = "push"
  /\ LET c == Begin(i) IN Retire(i, Using(c, i.args[1], LAMBDA v : Pushed(c, v)))

Pop(i) ==
  /\ i.op = "pop"
  /\ Retire(i, Popping(Begin(i), LAMBDA c, v : Assign(c, i.args[1], v)))

Leave(i) ==
  /\ i.op = "leave"
  /\ LET c == Begin(i)
     IN  Retire(i, Popping(SetRegister(c, "rsp", "q", c.regs["rbp"]),
                           LAMBDA d, v : SetRegister(d, "rbp", "q", v)))

(******************************* arithmetic *******************************)
Combined(op, l, r) == CASE op = "xor" -> l ^^ r [] op \in {"and", "test"} -> l & r [] op = "or" -> l | r

Logic(i) ==
  /\ i.op \in {"xor", "and", "or", "test"}
  /\ LET c == Begin(i)
         bits == Bits(i.args[1])
         effect(l, r) ==
           LET v == Combined(i.op, Clip(l, bits), Clip(r, bits))
               flagged == [c EXCEPT !.flags = Logical(@, v, bits)]
           IN  IF i.op = "test" THEN flagged ELSE Assign(flagged, i.args[1], v)
     IN  Retire(i, UsingBoth(c, i, effect))

AddSub(i) ==
  /\ i.op \in {"add", "sub", "cmp"}
  /\ LET c == Begin(i)
         bits == Bits(i.args[1])
         effect(l, r) ==
           LET flagged == [c EXCEPT !.flags = IF i.op = "add" THEN Added(@, l, r, bits)
                                                             ELSE Subtracted(@, l, r, bits)]
           IN  IF i.op = "cmp" THEN flagged
               ELSE Assign(flagged, i.args[1], Clip(IF i.op = "add" THEN l + r ELSE l - r, bits))
     IN  Retire(i, UsingBoth(c, i, effect))

(* inc and dec keep the carry flag.                                        *)
Count(i) ==
  /\ i.op \in {"inc", "dec"}
  /\ LET c == Begin(i)
         bits == Bits(i.args[1])
         new(f, v) == IF i.op = "inc" THEN Added(f, v, 1, bits) ELSE Subtracted(f, v, 1, bits)
         delta == IF i.op = "inc" THEN 1 ELSE -1
         effect(v) == Assign([c EXCEPT !.flags = [new(@, v) EXCEPT !.cf = c.flags.cf]],
                             i.args[1], Clip(v + delta, bits))
     IN  Retire(i, Using(c, i.args[1], effect))

Negate(i) ==
  /\ i.op \in {"neg", "not"}
  /\ LET c == Begin(i)
         bits == Bits(i.args[1])
         effect(v) ==
           IF i.op = "not" THEN Assign(c, i.args[1], Clip(-v - 1, bits))
           ELSE Assign([c EXCEPT !.flags = Subtracted(@, 0, v, bits)], i.args[1], Clip(-v, bits))
     IN  Retire(i, Using(c, i.args[1], effect))

(* The result and the carry of shifting v by n > 0.                        *)
Shifted(op, v, n, bits) ==
  CASE op = "shl" -> Clip(v * 2 ^ n, bits)
    [] op = "shr" -> v \div 2 ^ n
    [] op = "sar" -> SignedValue(v, bits) \div 2 ^ n
ShiftCarry(op, v, n, bits) == (v \div 2 ^ (IF op = "shl" THEN bits - n ELSE n - 1)) % 2 = 1
ShiftOverflow(op, v, bits, f) ==
  CASE op = "shl" -> Top(Shifted(op, v, 1, bits), bits) # ShiftCarry(op, v, 1, bits)
    [] op = "shr" -> Top(v, bits)
    [] op = "sar" -> FALSE

Shift(i) ==
  /\ i.op \in {"shl", "shr", "sar"}
  /\ LET c == Begin(i)
         bits == Bits(i.args[1])
         effect(l, r) ==
           LET v == Clip(l, bits)
               n == r % (IF bits = Width["q"] THEN 16 ELSE 8)
               f == [Common(c.flags, Shifted(i.op, v, n, bits), bits) EXCEPT
                       !.cf = ShiftCarry(i.op, v, n, bits),
                       !.of = IF n = 1 THEN ShiftOverflow(i.op, v, bits, @) ELSE @]
           IN  CASE n = 0    -> c
                 [] n > bits -> Fault(c)
                 [] n \in 1..bits -> Assign([c EXCEPT !.flags = f], i.args[1],
                                            Clip(Shifted(i.op, v, n, bits), bits))
     IN  Retire(i, UsingBoth(c, i, effect))

DoesNotFit(full, bits) == SignedValue(full, bits) # full

(* Two and three operands; the one-operand form is not implemented.        *)
Multiply(i) ==
  /\ i.op = "imul"
  /\ LET c == Begin(i)
         bits == Bits(i.args[1])
         first == i.args[Len(i.args) - 1]
         second == i.args[Len(i.args)]
         effect(l, r) ==
           LET full == SignedValue(l, Bits(first)) * SignedValue(r, Bits(second))
               over == DoesNotFit(full, bits)
           IN  Assign([c EXCEPT !.flags.cf = over, !.flags.of = over], i.args[1], Clip(full, bits))
     IN  Retire(i, IF Len(i.args) = 1 THEN Fault(c)
                   ELSE Using(c, first, LAMBDA l : Using(c, second, LAMBDA r : effect(l, r))))

Widen(i) ==
  /\ i.op \in {"cdqe", "cqo"}
  /\ LET c == Begin(i)
         rax == c.regs["rax"]
     IN  Retire(i, IF i.op = "cdqe" THEN SetRegister(c, "rax", "q", SignedValue(ReadAs(rax, "d"), Width["d"]))
                   ELSE SetRegister(c, "rdx", "q", IF SignedValue(rax, Width["q"]) < 0 THEN Word - 1 ELSE 0))

(******************************* transfers *******************************)
Transfer(c, i) ==
  IF i.target # None THEN SetRegister(c, "rip", "q", i.target)
  ELSE Using(c, i.args[1], LAMBDA t : SetRegister(c, "rip", "q", t))

(* The target is resolved after the return address was pushed.             *)
Call(i) ==
  /\ i.op = "call"
  /\ LET pushed == Pushed(Begin(i), i.end) IN Retire(i, IF pushed.fault THEN pushed ELSE Transfer(pushed, i))

Ret(i) ==
  /\ i.op = "ret"
  /\ LET extra == IF i.args # << >> THEN i.args[1].value ELSE 0
     IN  Retire(i, Popping(Begin(i), LAMBDA c, v :
                     SetRegister(SetRegister(c, "rip", "q", v), "rsp", "q", c.regs["rsp"] + extra)))

Jump(i) == i.op = "jmp" /\ Retire(i, Transfer(Begin(i), i))

Branch(i) ==
  /\ i.op \in Branches
  /\ Retire(i, IF Taken(cpu.flags, i.op) THEN Transfer(Begin(i), i) ELSE Begin(i))

(* Any other mnemonic, a conditional transfer included.                     *)
Unimplemented(i) == i.op \notin Groups /\ Retire(i, Fault(Begin(i)))

(***************************** system calls *****************************)
Entered(i) == SetRegister(SetRegister(Begin(i), "rcx", "q", i.end), "r11", "q", FlagWord(cpu.flags))
Arg(name) == cpu.regs[name]
Calling(i, number) == i.op = "syscall" /\ Syscalls /\ Arg("rax") = number

Exit(i) ==
  /\ \E number \in {60, 231} : Calling(i, number)
  /\ Stepping(i)
  /\ cpu' = Entered(i) /\ status' = "exited" /\ exitCode' = ReadAs(Arg("rdi"), "b")
  /\ UNCHANGED <<stdout, stderr, stdinBytes, stdinCursor>>

WriteAccepted ==
  /\ Arg("rdi") \in {1, 2} /\ Arg("rdx") <= IoLimit
  /\ CanAccess(cpu.mem, Arg("rsi"), Arg("rdx"), "r")

Write(i) ==
  /\ Calling(i, 1) /\ WriteAccepted
  /\ Stepping(i)
  /\ LET text == Decoded(CellsAt(cpu.mem, Arg("rsi"), Arg("rdx")))
     IN  /\ stdout' = IF Arg("rdi") = 1 THEN stdout \o text ELSE stdout
         /\ stderr' = IF Arg("rdi") = 2 THEN stderr \o text ELSE stderr
  /\ cpu' = SetRegister(Entered(i), "rax", "q", Arg("rdx")) /\ status' = After(status)
  /\ UNCHANGED <<exitCode, stdinBytes, stdinCursor>>

ReadAccepted == Arg("rdi") = 0 /\ Arg("rdx") <= IoLimit
Available ==
  LET left == Len(stdinBytes) - stdinCursor IN IF Arg("rdx") < left THEN Arg("rdx") ELSE left

(* A read that faults has stored what it could and consumed nothing.       *)
Read(i) ==
  /\ Calling(i, 0) /\ ReadAccepted
  /\ Stepping(i)
  /\ LET chunk == SubSeq(stdinBytes, stdinCursor + 1, stdinCursor + Available)
         stored == StoreBytes(Entered(i), Arg("rsi"), chunk)
     IN  IF stored.fault
         THEN cpu' = stored /\ status' = "trapped" /\ UNCHANGED stdinCursor
         ELSE /\ cpu' = SetRegister(stored, "rax", "q", Available)
              /\ stdinCursor' = stdinCursor + Available /\ status' = After(status)
  /\ UNCHANGED <<exitCode, stdout, stderr, stdinBytes>>

Refused(i) ==
  /\ i.op = "syscall"
  /\ \/ ~Syscalls
     \/ Arg("rax") \notin {0, 1, 60, 231}
     \/ Arg("rax") = 1 /\ ~WriteAccepted
     \/ Arg("rax") = 0 /\ ~ReadAccepted
  /\ Retire(i, Fault(Entered(i)))

Execute(i) ==
  \/ Nop(i) \/ Halt(i) \/ Direction(i) \/ Move(i) \/ Extend(i) \/ Lea(i) \/ Exchange(i)
  \/ Push(i) \/ Pop(i) \/ Leave(i) \/ Logic(i) \/ AddSub(i) \/ Count(i) \/ Negate(i)
  \/ Shift(i) \/ Multiply(i) \/ Widen(i) \/ Call(i) \/ Ret(i) \/ Jump(i) \/ Branch(i)
  \/ Unimplemented(i) \/ Exit(i) \/ Write(i) \/ Read(i) \/ Refused(i)

Step == Trap \/ (Decodes(cpu.regs["rip"]) /\ Execute(At(cpu.regs["rip"])))

(* runSlice marks the session running and steps while it is; pause ends it.  *)
MarkRunning ==
  /\ status \in {"ready", "paused"} /\ status' = "running"
  /\ UNCHANGED <<program, cpu, instructionCount, lastInstruction, streams>>
Pause ==
  /\ status = "running" /\ status' = "paused"
  /\ UNCHANGED <<program, cpu, instructionCount, lastInstruction, streams>>

(* appendExecutionStdin: the unread bytes are kept in front of the new ones.  *)
AppendStdin(typed) ==
  /\ status \notin Terminal /\ typed # << >>
  /\ stdinBytes' = SubSeq(stdinBytes, stdinCursor + 1, Len(stdinBytes)) \o typed
  /\ stdinCursor' = 0
  /\ UNCHANGED <<program, cpu, status, instructionCount, lastInstruction, exitCode, stdout, stderr>>

Next == Step \/ MarkRunning \/ Pause \/ (\E typed \in Inputs : AppendStdin(typed))
Spec == Init /\ [][Next]_vars

(* runSession of the headless runner: slices until the session has ended.   *)
Drive == MarkRunning \/ (status = "running" /\ Step)

(****************************** properties ******************************)
TypeOK ==
  /\ status \in {"ready", "running", "paused"} \cup Terminal
  /\ cpu.regs \in [Names -> 0..(Word - 1)] /\ cpu.fault \in BOOLEAN
  /\ DOMAIN cpu.mem.cell = UNION {Span(n * PageSize, PageSize) : n \in DOMAIN cpu.mem.page}
  /\ \A x \in DOMAIN cpu.mem.cell : cpu.mem.cell[x] \in 0..3
  /\ instructionCount \in 0..MaxInstructions
  /\ stdinCursor \in 0..Len(stdinBytes) /\ (exitCode = None <=> status # "exited")

Executed(ops) == instructionCount' # instructionCount /\ lastInstruction'.op \in ops /\ ~cpu'.fault
Operand(k) == Value(Begin(lastInstruction'), lastInstruction'.args[k])
Outside(v, low, high) == v < low \/ v > high

(* After an addition, a subtraction, a comparison, a negation or a count,   *)
(* the carry says that the unsigned result does not fit the operand and the *)
(* overflow that the signed one does not; zero, sign and parity are those   *)
(* of the result, and the counts leave the carry alone (setAddFlags and     *)
(* setSubFlags and the order in which inc and dec restore it).              *)
FlagsDescribe ==
  [][Executed({"add", "sub", "cmp", "neg", "inc", "dec"}) =>
     LET i == lastInstruction'
         bits == Bits(i.args[1])
         l == IF i.op = "neg" THEN 0 ELSE Operand(1)
         r == CASE i.op = "neg" -> Operand(1) [] i.op \in {"inc", "dec"} -> 1 [] OTHER -> Operand(2)
         plus == i.op \in {"add", "inc"}
         unsigned == IF plus THEN Clip(l, bits) + Clip(r, bits) ELSE Clip(l, bits) - Clip(r, bits)
         signed == IF plus THEN SignedValue(l, bits) + SignedValue(r, bits)
                           ELSE SignedValue(l, bits) - SignedValue(r, bits)
         f == cpu'.flags
     IN  /\ f.zf = (unsigned % 2 ^ bits = 0)
         /\ f.sf = (SignedValue(signed, bits) < 0)
         /\ f.pf = ((unsigned % 4) \in {0, 3})
         /\ f.of = Outside(signed, -(2 ^ (bits - 1)), 2 ^ (bits - 1) - 1)
         /\ f.cf = IF i.op \in {"inc", "dec"} THEN cpu.flags.cf ELSE Outside(unsigned, 0, 2 ^ bits - 1)]_vars

Relation(op, l, r, sl, sr) ==
  CASE op = "je" -> l = r  [] op = "jne" -> l # r
    [] op = "ja" -> l > r  [] op = "jbe" -> l <= r [] op = "jae" -> l >= r  [] op = "jb" -> l < r
    [] op = "jg" -> sl > sr [] op = "jle" -> sl <= sr [] op = "jge" -> sl >= sr [] op = "jl" -> sl < sr

(* Shifting by n is shifting by one n times, and the carry is the bit the   *)
(* last of them moved out (shl, shr and sar).                               *)
OneShift(op, v, bits) ==
  CASE op = "shl" -> <<(2 * v) % 2 ^ bits, v >= 2 ^ (bits - 1)>>
    [] op = "shr" -> <<v \div 2, v % 2 = 1>>
    [] op = "sar" -> <<v \div 2 + (IF v >= 2 ^ (bits - 1) THEN 2 ^ (bits - 1) ELSE 0), v % 2 = 1>>
ShiftIsRepeated ==
  [][Executed({"shl", "shr", "sar"}) =>
     LET i == lastInstruction'
         bits == Bits(i.args[1])
         n == Operand(2) % (IF bits = 16 THEN 16 ELSE 8)
         after[k \in 0..n] == IF k = 0 THEN <<Operand(1), cpu.flags.cf>> ELSE OneShift(i.op, after[k - 1][1], bits)
     IN  Value(cpu', i.args[1]) = after[n][1] /\ cpu'.flags.cf = after[n][2]]_vars

(* A product that the destination cannot hold sets carry and overflow, one  *)
(* that it can clears them and is stored unchanged (imul).                  *)
ProductFits ==
  [][Executed({"imul"}) =>
     LET i == lastInstruction'
         n == Len(i.args)
         exact == SignedValue(Operand(n - 1), Bits(i.args[n - 1])) * SignedValue(Operand(n), Bits(i.args[n]))
         stored == SignedValue(Value(cpu', i.args[1]), Bits(i.args[1]))
     IN  cpu'.flags.of = (stored # exact) /\ cpu'.flags.cf = cpu'.flags.of]_vars

(* Writing an alias of 8 or 16 bits keeps the rest of its register, and one *)
(* of 32 bits clears the upper half (X86RegisterFile.write).                *)
PartialWrites ==
  [][Executed(Groups \ ({"cmp", "test", "syscall", "xchg"} \cup Branches)) /\ lastInstruction'.args # << >> =>
     LET o == lastInstruction'.args[1]
         old == cpu.regs[o.name]
         new == cpu'.regs[o.name]
     IN  o.kind = "register" =>
           CASE o.as = "q" -> TRUE
             [] o.as = "d" -> new < 2 ^ 8 \/ (lastInstruction'.op \in {"shl", "shr", "sar"} /\ new = old)
             [] o.as = "w" -> new \div 2 ^ 4 = old \div 2 ^ 4
             [] o.as = "b" -> new \div 2 ^ 2 = old \div 2 ^ 2
             [] o.as = "h" -> new \div 2 ^ 4 = old \div 2 ^ 4 /\ new % 2 ^ 2 = old % 2 ^ 2]_vars

(* Memory changes only in pages that may be written, whatever instruction   *)
(* or system call stores there and even when it faults half way (pageFor).  *)
OnlyWritableChanges ==
  [][\A x \in DOMAIN cpu.mem.cell :
       cpu'.mem.cell[x] # cpu.mem.cell[x] => "w" \in cpu.mem.page[PageOf(x)]]_vars

(* An instruction that faults, half way through its store or before it, has *)
(* changed no register but rip, the pointer of a pop or a leave, and what a *)
(* system call overwrites on its entry: none of its results is seen.        *)
Overwritten(op) ==
  {"rip"} \cup (CASE op \in {"pop", "leave"} -> {"rsp"} [] op = "syscall" -> {"rcx", "r11"} [] OTHER -> {})
FaultsKeepRegisters ==
  [][~cpu.fault /\ cpu'.fault =>
       \A name \in Names \ Overwritten(lastInstruction'.op) : cpu'.regs[name] = cpu.regs[name]]_vars
=============================================================================
