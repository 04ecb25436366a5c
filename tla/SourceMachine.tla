--------------------------- MODULE SourceMachine ---------------------------
(***************************************************************************)
(* The source interpreter (asmSourceSession.ts): it compiles the lines of  *)
(* an assembly file to instructions at synthetic addresses, a block of data *)
(* and a symbol table, and executes them on X86State. Lines arrive already  *)
(* split into their label, directive, items and operands; symbols are       *)
(* resolved when an instruction is executed.                                *)
(***************************************************************************)
EXTENDS X86State, Bitwise

CONSTANTS Sources,                       \* the files: sequences of lines
          CodeBase, CodeStride, DataBase, StackTop, StackBytes, PageBudget,
          MaxInstructions, WriteLimit, Syscalls, Inputs

VARIABLES source, program, cpu, status, instructionCount, lastInstruction,
          exitCode, stdout, stderr, stdinBytes, stdinCursor

vars == <<source, program, cpu, status, instructionCount, lastInstruction,
          exitCode, stdout, stderr, stdinBytes, stdinCursor>>
streams == <<exitCode, stdout, stderr, stdinBytes, stdinCursor>>

Terminal == {"exited", "halted", "trapped"}
None == -1
NoInstruction == [op |-> "none", args |-> << >>, end |-> 0, line |-> 0]

(******************************* compilation *******************************)
Section(name) ==
  CASE name \in {"text", "code"} -> "text" [] name \in {"data", "rodata", "bss"} -> "data"
    [] name \notin {"text", "code", "data", "rodata", "bss"} -> "other"

Empty == [code |-> << >>, symbols |-> << >>, pending |-> << >>, data |-> << >>,
          section |-> "text", ok |-> TRUE]

Rejected(p) == [p EXCEPT !.ok = FALSE]
Bind(p, name, value) ==
  IF name \in DOMAIN p.symbols THEN Rejected(p)
  ELSE [p EXCEPT !.symbols = [n \in DOMAIN @ \cup {name} |-> IF n = name THEN value ELSE @[n]]]

NextCode(p) == CodeBase + Len(p.code) * CodeStride
NextData(p) == DataBase + Len(p.data)

(* Labels of their own line wait for the next instruction.                 *)
BindTextLabels(p) ==
  LET bound[k \in 0..Len(p.pending)] ==
        IF k = 0 THEN [p EXCEPT !.pending = << >>] ELSE Bind(bound[k - 1], p.pending[k], NextCode(p))
  IN  bound[Len(p.pending)]

(* db, dw, dd and dq of integers, and strings for db; resb and its kin.      *)
Encodable(l) == \A k \in DOMAIN l.items : l.items[k].kind = "integer" \/ (l.items[k].kind = "string" /\ l.unit = 1)
DataBytes(l) ==
  LET bytes(item) == IF item.kind = "string" THEN item.bytes ELSE Digits(item.value, l.unit)
      upTo[k \in 0..Len(l.items)] == IF k = 0 THEN << >> ELSE upTo[k - 1] \o bytes(l.items[k])
  IN  upTo[Len(l.items)]
Reserved(l) == [k \in 1..(l.count * l.unit) |-> 0]

WithData(p, l, bytes) ==
  LET bound == IF l.label = "" THEN p ELSE Bind(p, l.label, NextData(p))
  IN  [bound EXCEPT !.data = @ \o bytes]

LabelOnly(p, l) ==
  IF p.section = "data" THEN Bind(p, l.label, NextData(p)) ELSE [p EXCEPT !.pending = Append(@, l.label)]

WithInstruction(p, l, line) ==
  CASE p.section = "data"  -> Rejected(p)
    [] p.section = "other" -> p
    [] p.section = "text"  ->
         LET waiting == BindTextLabels(p)
             bound == IF l.label = "" THEN waiting ELSE Bind(waiting, l.label, NextCode(p))
         IN  [bound EXCEPT !.code = Append(@, [op |-> l.op, args |-> l.args, line |-> line,
                                              address |-> NextCode(p), end |-> NextCode(p) + CodeStride])]

CompileLine(p, l, line) ==
  CASE l.kind = "ignored" -> p
    [] l.kind = "section" -> [p EXCEPT !.section = Section(l.name)]
    [] l.kind = "bits"    -> IF l.count \in {16, 32} THEN Rejected(p) ELSE p
    [] l.kind = "label"   -> LabelOnly(p, l)
    [] l.kind = "equ"     -> IF l.count = None THEN Rejected(p) ELSE Bind(p, l.label, l.count)
    [] l.kind = "data"    -> IF Encodable(l) THEN WithData(p, l, DataBytes(l)) ELSE Rejected(p)
    [] l.kind = "reserve" -> IF l.count < 0 THEN Rejected(p) ELSE WithData(p, l, Reserved(l))
    [] l.kind = "instruction" -> WithInstruction(p, l, line)

Continued(p, l, line) == IF p.ok THEN CompileLine(p, l, line) ELSE p
Compiled(lines) ==
  LET upTo[k \in 0..Len(lines)] == IF k = 0 THEN Empty ELSE Continued(upTo[k - 1], lines[k], k)
      done == BindTextLabels(upTo[Len(lines)])
  IN  IF done.ok /\ done.code # << >> THEN done ELSE Rejected(done)

ByAddress(p) == {p.code[k].address : k \in DOMAIN p.code}
Entry(p) ==
  LET named == IF "_start" \in DOMAIN p.symbols THEN p.symbols["_start"]
               ELSE IF "main" \in DOMAIN p.symbols THEN p.symbols["main"] ELSE None
  IN  IF named \in ByAddress(p) THEN named ELSE CodeBase

(******************************* preparation *******************************)
AtLeast(n, m) == IF n < m THEN m ELSE n
LoadedMemory(p) ==
  LET code == MapPages(EmptyMemory, CodeBase, AtLeast(Len(p.code) * CodeStride, CodeStride), {"r", "x"})
      data == IF p.data = << >> THEN code
              ELSE LoadCells(MapPages(code, DataBase, AtLeast(Len(p.data), PageSize), {"r", "w"}), DataBase, p.data)
  IN  MapPages(data, StackTop - StackBytes, StackBytes, {"r", "w"})

Supported(lines) ==
  LET p == Compiled(lines) IN p.ok /\ Cardinality(DOMAIN LoadedMemory(p).page) <= PageBudget

Init ==
  /\ source \in {lines \in Sources : Supported(lines)} /\ program = Compiled(source)
  /\ cpu = [regs  |-> [[r \in Names |-> 0] EXCEPT !["rip"] = Entry(program), !["rsp"] = StackTop - 16],
            flags |-> NoFlags, mem |-> LoadedMemory(program), fault |-> FALSE]
  /\ status = "ready" /\ instructionCount = 0 /\ lastInstruction = NoInstruction
  /\ exitCode = None /\ stdout = << >> /\ stderr = << >>
  /\ stdinBytes \in Inputs /\ stdinCursor = 0

(******************************** operands ********************************)
(* A name that is no symbol makes the operand, and so the instruction, fail. *)
Known(token) == token.symbol # "" => token.symbol \in DOMAIN program.symbols
ValueOf(token) == IF token.symbol # "" THEN program.symbols[token.symbol] ELSE token.value

(* A term takes the last sign before it.                                    *)
SignedTerms(tokens) ==
  [k \in {n \in DOMAIN tokens : tokens[n].kind # "sign"} |->
     IF k > 1 /\ tokens[k - 1].kind = "sign" THEN tokens[k - 1].value ELSE 1]

Address(c, o) ==
  LET sign == SignedTerms(o.tokens)
      amount(t) == IF t.kind = "register" THEN c.regs[t.name] * t.value ELSE ValueOf(t)
      upTo[k \in 0..Len(o.tokens)] ==
        IF k = 0 THEN 0 ELSE upTo[k - 1] + (IF k \in DOMAIN sign THEN sign[k] * amount(o.tokens[k]) ELSE 0)
  IN  upTo[Len(o.tokens)] % Word

Parses(o) ==
  CASE o.kind = "register"  -> TRUE
    [] o.kind = "immediate" -> Known(o)
    [] o.kind = "memory"    -> o.tokens # << >> /\ \A k \in DOMAIN o.tokens :
                                                     o.tokens[k].kind = "value" => Known(o.tokens[k])

(* The width of a memory operand without a size is the fallback.            *)
Bits(o, fallback) == IF o.as = "none" THEN fallback ELSE Width[o.as]

Readable(c, o, hint) ==
  o.kind = "memory" => CanAccess(c.mem, Address(c, o), Bits(o, hint) \div CellBits, "r")
Value(c, o, hint) ==
  CASE o.kind = "register"  -> Register(c, o.name, o.as)
    [] o.kind = "immediate" -> ValueOf(o)
    [] o.kind = "memory"    -> ReadUnsigned(c.mem, Address(c, o), Bits(o, hint) \div CellBits)
Assign(c, o, v, hint) ==
  CASE o.kind = "register"  -> SetRegister(c, o.name, o.as, v)
    [] o.kind = "memory"    -> StoreBytes(c, Address(c, o), Digits(v, Bits(o, hint) \div CellBits))
    [] o.kind = "immediate" -> Fault(c)

Using(c, o, hint, Then(_)) == IF Readable(c, o, hint) THEN Then(Value(c, o, hint)) ELSE Fault(c)
UsingBoth(c, i, hint, Then(_, _)) ==
  Using(c, i.args[1], hint, LAMBDA l : Using(c, i.args[2], hint, LAMBDA r : Then(l, r)))

(********************************* flags *********************************)
Top(v, bits) == Clip(v, bits) >= 2 ^ (bits - 1)

Common(f, result, bits) ==
  [f EXCEPT !.zf = Clip(result, bits) = 0, !.sf = Top(result, bits),
            !.pf = (Clip(result, bits) % 4) \in {0, 3}]
Logical(f, result, bits) == [Common(f, result, bits) EXCEPT !.cf = FALSE, !.of = FALSE]
Added(f, l, r, bits) ==
  [Common(f, l + r, bits) EXCEPT
     !.cf = Clip(l, bits) + Clip(r, bits) > 2 ^ bits - 1,
     !.of = Top(l, bits) = Top(r, bits) /\ Top(l, bits) # Top(l + r, bits)]
Subtracted(f, l, r, bits) ==
  [Common(f, l - r, bits) EXCEPT
     !.cf = Clip(l, bits) < Clip(r, bits),
     !.of = Top(l, bits) # Top(r, bits) /\ Top(l, bits) # Top(l - r, bits)]

Taken(f, op) ==
  CASE op = "je"  -> f.zf              [] op = "jne" -> ~f.zf
    [] op = "ja"  -> ~f.cf /\ ~f.zf    [] op = "jbe" -> f.cf \/ f.zf
    [] op = "jae" -> ~f.cf             [] op = "jb"  -> f.cf
    [] op = "jg"  -> ~f.zf /\ f.sf = f.of
    [] op = "jle" -> f.zf \/ f.sf # f.of
    [] op = "jge" -> f.sf = f.of       [] op = "jl"  -> f.sf # f.of
    [] op = "js"  -> f.sf              [] op = "jns" -> ~f.sf
    [] op = "jo"  -> f.of              [] op = "jno" -> ~f.of
    [] op = "jp"  -> f.pf              [] op = "jnp" -> ~f.pf
Branches == {"je", "jne", "ja", "jbe", "jae", "jb", "jg", "jle", "jge", "jl",
             "js", "jns", "jo", "jno", "jp", "jnp"}
Groups == {"nop", "hlt", "cld", "std", "mov", "movzx", "movsx", "movsxd", "lea", "push", "pop", "leave",
           "xor", "and", "or", "test", "add", "sub", "cmp", "inc", "dec", "neg", "not",
           "call", "ret", "jmp", "syscall"} \cup Branches

(******************************* stepping *******************************)
Begin(i) == [cpu EXCEPT !.regs["rip"] = i.end]
After(reached) == IF reached \in Terminal \cup {"running"} THEN reached ELSE "paused"

Fetched == CHOOSE i \in {program.code[k] : k \in DOMAIN program.code} : i.address = cpu.regs["rip"]

Stepping(i) ==
  /\ status \notin Terminal /\ instructionCount < MaxInstructions
  /\ cpu.regs["rip"] \in ByAddress(program) /\ i = Fetched
  /\ instructionCount' = instructionCount + 1 /\ lastInstruction' = i
  /\ UNCHANGED <<source, program>>

Parsed(i) == \A k \in DOMAIN i.args : Parses(i.args[k])

Retire(i, c) ==
  /\ Parsed(i) /\ Stepping(i) /\ cpu' = c
  /\ status' = IF c.fault THEN "trapped" ELSE After(status)
  /\ UNCHANGED streams

Trap ==
  /\ status \notin Terminal
  /\ instructionCount >= MaxInstructions \/ cpu.regs["rip"] \notin ByAddress(program)
  /\ status' = "trapped"
  /\ UNCHANGED <<source, program, cpu, instructionCount, lastInstruction, streams>>

(* Operands are parsed before anything is executed.                         *)
Misread(i) ==
  /\ ~Parsed(i) /\ Stepping(i)
  /\ cpu' = Fault(cpu) /\ status' = "trapped" /\ UNCHANGED streams

Nop(i) == i.op = "nop" /\ Retire(i, Begin(i))
Halt(i) ==
  /\ i.op = "hlt" /\ Stepping(i)
  /\ cpu' = Begin(i) /\ status' = "halted" /\ UNCHANGED streams
Direction(i) == i.op \in {"cld", "std"} /\ Retire(i, [Begin(i) EXCEPT !.flags.df = i.op = "std"])

Move(i) ==
  /\ i.op = "mov"
  /\ LET c == Begin(i)
         bits == Bits(i.args[1], Bits(i.args[2], Width["q"]))
     IN  Retire(i, Using(c, i.args[2], bits, LAMBDA v : Assign(c, i.args[1], v, bits)))

Extend(i) ==
  /\ i.op \in {"movzx", "movsx", "movsxd"}
  /\ LET c == Begin(i)
         bits == Bits(i.args[2], Width[IF i.op = "movsxd" THEN "d" ELSE "b"])
         extended(v) == IF i.op = "movzx" THEN Clip(v, bits) ELSE SignedValue(v, bits)
     IN  Retire(i, Using(c, i.args[2], bits, LAMBDA v : Assign(c, i.args[1], extended(v), Bits(i.args[1], Width["q"]))))

Lea(i) ==
  /\ i.op = "lea"
  /\ LET c == Begin(i) IN Retire(i, Assign(c, i.args[1], Address(c, i.args[2]), Bits(i.args[1], Width["q"])))

(* The stack pointer moves first.                                           *)
Pushed(c, v) ==
  LET sp == (c.regs["rsp"] - 8) % Word
  IN  StoreBytes(SetRegister(c, "rsp", "q", sp), sp, Digits(v, 8))
Popping(c, Then(_, _)) ==
  IF CanAccess(c.mem, c.regs["rsp"], 8, "r")
  THEN Then(SetRegister(c, "rsp", "q", c.regs["rsp"] + 8), ReadUnsigned(c.mem, c.regs["rsp"], 8))
  ELSE Fault(c)

Push(i) ==
  /\ i.op = "push"
  /\ LET c == Begin(i) IN Retire(i, Using(c, i.args[1], Width["q"], LAMBDA v : Pushed(c, v)))
Pop(i) ==
  /\ i.op = "pop"
  /\ Retire(i, Popping(Begin(i), LAMBDA c, v : Assign(c, i.args[1], v, Width["q"])))
Leave(i) ==
  /\ i.op = "leave"
  /\ LET c == Begin(i)
     IN  Retire(i, Popping(SetRegister(c, "rsp", "q", c.regs["rbp"]), LAMBDA d, v : SetRegister(d, "rbp", "q", v)))

Combined(op, l, r) == CASE op = "xor" -> l ^^ r [] op \in {"and", "test"} -> l & r [] op = "or" -> l | r
Logic(i) ==
  /\ i.op \in {"xor", "and", "or", "test"}
  /\ LET c == Begin(i)
         bits == Bits(i.args[1], Width["q"])
         effect(l, r) ==
           LET v == Combined(i.op, Clip(l, bits), Clip(r, bits))
               flagged == [c EXCEPT !.flags = Logical(@, v, bits)]
           IN  IF i.op = "test" THEN flagged ELSE Assign(flagged, i.args[1], v, bits)
     IN  Retire(i, UsingBoth(c, i, bits, effect))

AddSub(i) ==
  /\ i.op \in {"add", "sub", "cmp"}
  /\ LET c == Begin(i)
         bits == Bits(i.args[1], Width["q"])
         effect(l, r) ==
           LET flagged == [c EXCEPT !.flags = IF i.op = "add" THEN Added(@, l, r, bits)
                                                             ELSE Subtracted(@, l, r, bits)]
           IN  IF i.op = "cmp" THEN flagged
               ELSE Assign(flagged, i.args[1], Clip(IF i.op = "add" THEN l + r ELSE l - r, bits), bits)
     IN  Retire(i, UsingBoth(c, i, bits, effect))

(* inc without its carry restored.                                          *)
CountCarries(i) ==
  /\ i.op \in {"inc", "dec"}
  /\ LET c == Begin(i)
         bits == Bits(i.args[1], Width["q"])
         delta == IF i.op = "inc" THEN 1 ELSE -1
         effect(v) == Assign([c EXCEPT !.flags = IF i.op = "inc" THEN Added(@, v, 1, bits) ELSE Subtracted(@, v, 1, bits)],
                             i.args[1], Clip(v + delta, bits), bits)
     IN  Retire(i, Using(c, i.args[1], bits, effect))
Count(i) ==
  /\ i.op \in {"inc", "dec"}
  /\ LET c == Begin(i)
         bits == Bits(i.args[1], Width["q"])
         new(f, v) == IF i.op = "inc" THEN Added(f, v, 1, bits) ELSE Subtracted(f, v, 1, bits)
         delta == IF i.op = "inc" THEN 1 ELSE -1
         effect(v) == Assign([c EXCEPT !.flags = [new(@, v) EXCEPT !.cf = c.flags.cf]],
                             i.args[1], Clip(v + delta, bits), bits)
     IN  Retire(i, Using(c, i.args[1], bits, effect))

Negate(i) ==
  /\ i.op \in {"neg", "not"}
  /\ LET c == Begin(i)
         bits == Bits(i.args[1], Width["q"])
         effect(v) ==
           IF i.op = "not" THEN Assign(c, i.args[1], Clip(-v - 1, bits), bits)
           ELSE Assign([c EXCEPT !.flags = Subtracted(@, 0, v, bits)], i.args[1], Clip(-v, bits), bits)
     IN  Retire(i, Using(c, i.args[1], bits, effect))

(* Transfers go to labels and addresses only; ret ignores its operand.      *)
Direct(i) == i.args # << >> /\ i.args[1].kind = "immediate"
Goto(c, i) == IF Direct(i) THEN SetRegister(c, "rip", "q", ValueOf(i.args[1])) ELSE Fault(c)

Call(i) ==
  /\ i.op = "call"
  /\ LET pushed == Pushed(Begin(i), i.end)
     IN  Retire(i, IF ~Direct(i) THEN Fault(Begin(i)) ELSE IF pushed.fault THEN pushed ELSE Goto(pushed, i))
Ret(i) == i.op = "ret" /\ Retire(i, Popping(Begin(i), LAMBDA c, v : SetRegister(c, "rip", "q", v)))
Jump(i) == i.op = "jmp" /\ Retire(i, Goto(Begin(i), i))
Branch(i) ==
  /\ i.op \in Branches
  /\ Retire(i, IF Taken(cpu.flags, i.op) THEN Goto(Begin(i), i) ELSE Begin(i))

Unimplemented(i) == i.op \notin Groups /\ Retire(i, Fault(Begin(i)))

(***************************** system calls *****************************)
Entered(i) == SetRegister(SetRegister(Begin(i), "rcx", "q", i.end), "r11", "q", FlagWord(cpu.flags))
Arg(name) == cpu.regs[name]
Calling(i, number) == i.op = "syscall" /\ Syscalls /\ Arg("rax") = number

Available ==
  LET left == Len(stdinBytes) - stdinCursor IN IF Arg("rdx") < left THEN Arg("rdx") ELSE left
Read(i) ==
  /\ Calling(i, 0) /\ Arg("rdi") = 0
  /\ Stepping(i)
  /\ LET chunk == SubSeq(stdinBytes, stdinCursor + 1, stdinCursor + Available)
         stored == StoreBytes(Entered(i), Arg("rsi"), chunk)
     IN  IF stored.fault
         THEN cpu' = stored /\ status' = "trapped" /\ UNCHANGED stdinCursor
         ELSE /\ cpu' = SetRegister(stored, "rax", "q", Available)
              /\ stdinCursor' = stdinCursor + Available /\ status' = After(status)
  /\ UNCHANGED <<exitCode, stdout, stderr, stdinBytes>>

WriteAccepted ==
  /\ Arg("rdx") <= WriteLimit /\ CanAccess(cpu.mem, Arg("rsi"), Arg("rdx"), "r") /\ Arg("rdi") \in {1, 2}
Write(i) ==
  /\ Calling(i, 1) /\ WriteAccepted
  /\ Stepping(i)
  /\ LET text == Decoded(CellsAt(cpu.mem, Arg("rsi"), Arg("rdx")))
     IN  /\ stdout' = IF Arg("rdi") = 1 THEN stdout \o text ELSE stdout
         /\ stderr' = IF Arg("rdi") = 2 THEN stderr \o text ELSE stderr
  /\ cpu' = SetRegister(Entered(i), "rax", "q", Arg("rdx")) /\ status' = After(status)
  /\ UNCHANGED <<exitCode, stdinBytes, stdinCursor>>

Exit(i) ==
  /\ \E number \in {60, 231} : Calling(i, number)
  /\ Stepping(i)
  /\ cpu' = Entered(i) /\ status' = "exited" /\ exitCode' = ReadAs(Arg("rdi"), "b")
  /\ UNCHANGED <<stdout, stderr, stdinBytes, stdinCursor>>

Refused(i) ==
  /\ i.op = "syscall"
  /\ \/ ~Syscalls
     \/ Arg("rax") \notin {0, 1, 60, 231}
     \/ Arg("rax") = 1 /\ ~WriteAccepted
     \/ Arg("rax") = 0 /\ Arg("rdi") # 0
  /\ Retire(i, Fault(Entered(i)))

Execute(i) ==
  \/ Nop(i) \/ Halt(i) \/ Direction(i) \/ Move(i) \/ Extend(i) \/ Lea(i)
  \/ Push(i) \/ Pop(i) \/ Leave(i) \/ Logic(i) \/ AddSub(i) \/ Count(i) \/ Negate(i)
  \/ Call(i) \/ Ret(i) \/ Jump(i) \/ Branch(i) \/ Unimplemented(i)
  \/ Exit(i) \/ Write(i) \/ Read(i) \/ Refused(i)

Step ==
  \/ Trap
  \/ cpu.regs["rip"] \in ByAddress(program) /\ (Execute(Fetched) \/ Misread(Fetched))

MarkRunning ==
  /\ status \in {"ready", "paused"} /\ status' = "running"
  /\ UNCHANGED <<source, program, cpu, instructionCount, lastInstruction, streams>>
Pause ==
  /\ status = "running" /\ status' = "paused"
  /\ UNCHANGED <<source, program, cpu, instructionCount, lastInstruction, streams>>

Next == Step \/ MarkRunning \/ Pause
Spec == Init /\ [][Next]_vars

(****************************** properties ******************************)
Statement(l) == l.kind \in {"data", "reserve", "instruction"}
SectionAt(k) ==
  LET before == {n \in 1..(k - 1) : source[n].kind = "section"}
  IN  IF before = {} THEN "text" ELSE Section(source[CHOOSE n \in before : \A m \in before : m <= n].name)
DataBefore(k) ==
  LET size(l) == IF l.kind = "reserve" THEN l.count * l.unit ELSE IF l.kind = "data" THEN Len(DataBytes(l)) ELSE 0
      upTo[n \in 0..(k - 1)] == IF n = 0 THEN 0 ELSE upTo[n - 1] + size(source[n])
  IN  upTo[k - 1]
CodeBefore(k) == Cardinality({n \in 1..(k - 1) : source[n].kind = "instruction" /\ SectionAt(n) = "text"})
(* Where the statement a label of line k stands for went.                   *)
Location(k) ==
  LET following == {n \in k..Len(source) : Statement(source[n]) /\ SectionAt(n) = SectionAt(k)}
      first == IF following = {} THEN Len(source) + 1 ELSE CHOOSE n \in following : \A m \in following : n <= m
      isData == IF following = {} THEN SectionAt(k) = "data" ELSE source[first].kind # "instruction"
  IN  IF isData THEN DataBase + DataBefore(first) ELSE CodeBase + CodeBefore(first) * CodeStride

(* A label names the statement that follows it in its section, on its line  *)
(* or on a later one, across other sections in between and whatever else is *)
(* bound (compileSource).                                                   *)
LabelNamesNext ==
  \A k \in DOMAIN source :
    source[k].kind # "equ" /\ source[k].label # "" /\ SectionAt(k) # "other" =>
      program.symbols[source[k].label] = Location(k)
=============================================================================
