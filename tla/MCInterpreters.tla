-------------------------- MODULE MCInterpreters --------------------------
(***************************************************************************)
(* The two interpreters over programs for TLC.  "part" says what happens:  *)
(*   "image"   the bounded interpreter runs programs on boundary values,   *)
(*   "typed"   it echoes what is typed to it while it is paused and resumed,*)
(*   "driven"  it is driven to the end, as the headless runner does,       *)
(*   "both"    a source and its image run side by side (Agreement),        *)
(*   "source"  the source interpreter compiles and runs small files.       *)
(***************************************************************************)
EXTENDS Agreement

VARIABLES part,
          typed,    \* everything given to stdin of the image
          pushed,   \* what its pushes and calls left on the stack, oldest first
          compared  \* the operands of the comparison its flags are of, if any
history == <<pushed, compared>>
all == <<allVars, part, typed, history>>

P == INSTANCE BoundedPrograms

(* Sources.                                                                 *)
R(name, as) == [kind |-> "register", name |-> name, as |-> as]
I(v) == [kind |-> "immediate", value |-> v, symbol |-> "", as |-> "q"]
Sym(s) == [kind |-> "immediate", value |-> 0, symbol |-> s, as |-> "q"]
Mem(tokens, as) == [kind |-> "memory", tokens |-> tokens, as |-> as]
Reg(name, scale) == [kind |-> "register", name |-> name, value |-> scale, symbol |-> ""]
Num(v) == [kind |-> "value", name |-> "", value |-> v, symbol |-> ""]
Name(s) == [kind |-> "value", name |-> "", value |-> 0, symbol |-> s]
Sign(n) == [kind |-> "sign", name |-> "", value |-> n, symbol |-> ""]

Line(kind) == [kind |-> kind, label |-> "", name |-> "", unit |-> 1, count |-> 0, items |-> << >>, op |-> "", args |-> << >>]
In(name) == [Line("section") EXCEPT !.name = name]
Lbl(l) == [Line("label") EXCEPT !.label = l]
Data(l, unit, items) == [Line("data") EXCEPT !.label = l, !.unit = unit, !.items = items]
Whole(v) == [kind |-> "integer", value |-> v, bytes |-> << >>]
Str(b) == [kind |-> "string", value |-> 0, bytes |-> b]
Res(l, n) == [Line("reserve") EXCEPT !.label = l, !.count = n]
Ins(op, args) == [Line("instruction") EXCEPT !.op = op, !.args = args]
Named(l, op, args) == [Ins(op, args) EXCEPT !.label = l]
Mov(name, v) == Ins("mov", <<R(name, "q"), I(v)>>)

Header == <<In("data"), Data("x", 8, <<Whole(43210), Whole(5)>>), Data("s", 1, <<Str(<<1, 0, 1>>)>>), In("text"), Line("ignored")>>
With(rest) == Header \o rest

Edges == {0, 1, 127, 128, 32767, 32768, 65535}
Sized == {"q", "d", "w", "b"}
Arithmetic ==
  {With(<<Mov("rax", v), Mov("rbx", w), Ins(op, <<R("rax", as), R("rbx", as)>>),
          Ins(jump, <<Sym("end")>>), Ins("inc", <<R("rcx", "q")>>), Lbl("end"), Ins("hlt", << >>)>>) :
     v \in Edges, w \in Edges, as \in {"q", "d"},
     op \in {"add", "cmp", "xor"}, jump \in {"ja", "jle"}}
Narrow(as) == IF as = "b" THEN "b" ELSE "w"
InMemory ==
  {With(<<Mov("rax", v), Mov("rbx", 1), Ins("lea", <<R("rsi", "q"), Mem(<<Name("x")>>, "none")>>),
          Ins(op, <<Mem(<<Reg("rsi", 1), Sign(1), Reg("rbx", 2), Sign(1), Num(3), Sign(-1), Num(1)>>, as), R("rax", as)>>),
          Ins("mov", <<R("rdx", as), Mem(<<Name("x"), Sign(1), Num(2)>>, "none")>>),
          Ins("inc", <<Mem(<<Name("x")>>, as)>>), Ins("neg", <<Mem(<<Name("s")>>, as)>>),
          Ins("not", <<R("rax", as)>>), Ins("dec", <<R("rax", as)>>),
          Ins("movzx", <<R("rcx", "q"), R("rax", Narrow(as))>>), Ins("movsx", <<R("rdi", "q"), R("rax", Narrow(as))>>),
          Ins("std", << >>), Ins("test", <<R("rax", as), R("rax", as)>>), Ins(jump, <<Sym("nowhere")>>), Ins("cld", << >>)>>) :
     v \in Edges, as \in Sized, op \in {"add", "sub", "cmp", "and", "or", "xor", "mov"}, jump \in {"js", "jrcxz"}}
Calls ==
  {With(<<Ins("push", <<I(v)>>), Ins("call", <<Sym("f")>>), Ins("pop", <<R("rax", "q")>>), Ins(last, << >>), Ins("jmp", <<Sym("over")>>),
          Lbl("f"), Ins("push", <<R("rbp", "q")>>), Ins("mov", <<R("rbp", "q"), R("rsp", "q")>>),
          Ins("mov", <<Mem(<<Reg("rbp", 1), Sign(1), Num(16)>>, "q"), I(7)>>), Ins("leave", << >>), Ins("ret", << >>),
          Lbl("over"), Ins("hlt", << >>)>>) :
     v \in Edges, last \in {"hlt", "nop", "syscall", "cpuid"}}
Io ==
  {With(<<Lbl("_start"), Mov("rax", number), Mov("rdi", fd), Ins("mov", <<R("rsi", "q"), Sym("s")>>), Mov("rdx", n),
          Ins("syscall", << >>), Mov("rdi", 3), Mov("rax", 60), Ins("syscall", << >>)>>) :
     number \in {0, 1, 7}, fd \in 0..2, n \in {0, 2, 3, 9}}
AgreeingSources == Arithmetic \cup InMemory \cup Calls \cup Io

(* Every sequence of three lines before a last instruction.                 *)
Alphabet == {In("data"), In("text"), In("note"), Lbl("a"), Lbl("b"), Data("c", 2, <<Whole(6)>>), Data("", 1, <<Str(<<1>>), Whole(2)>>),
             Res("b", 2), Named("a", "nop", << >>), Ins("nop", << >>), Data("d", 4, <<Str(<<1>>)>>),
             [Line("equ") EXCEPT !.label = "b", !.count = 5], [Line("bits") EXCEPT !.count = 64]}
Files == {<<k, l, m, In("text"), Ins("nop", << >>)>> : k \in Alphabet, l \in Alphabet, m \in Alphabet}
InText(s, k) ==
  \E n \in 0..(k - 1) : /\ n = 0 \/ (s[n].kind = "section" /\ Section(s[n].name) = "text")
                        /\ \A m \in (n + 1)..(k - 1) : s[m].kind # "section"
(* A label on a line of its own in the text section, and data there next.   *)
DataUnderTextLabel(s) ==
  \E k \in DOMAIN s, n \in DOMAIN s :
    /\ k < n /\ s[k].kind = "label" /\ InText(s, k)
    /\ s[n].kind \in {"data", "reserve"} /\ InText(s, n)
    /\ \A m \in (k + 1)..(n - 1) : ~(s[m].kind = "instruction" /\ InText(s, m))
Separated == {s \in Files : ~DataUnderTextLabel(s)}

AllSources == AgreeingSources \cup Separated
Least == CHOOSE s \in Separated : s[1] = In("text") /\ s[2] = In("text") /\ s[3] = In("text")
TypedBound == 5
Typing == {<<1>>, <<0, 0, 1>>, <<1, 1, 0, 1>>}
Given == {<< >>, <<1, 0>>, <<1, 0, 1>>} \cup Typing

SourceIdle == source = Least /\ stdinBytes = << >>
ImageOf(programs) == image \in {p \in programs : M!Supported(p) /\ M!Fits(p)}
Start ==
  /\ Init
  /\ \/ /\ part = "image" /\ SourceIdle
        /\ \/ ImageOf(P!Arithmetic) /\ imageIn = << >>
           \/ ImageOf(P!Accesses) /\ imageIn \in {<< >>, <<1, 0, 1>>}
     \/ part = "typed" /\ SourceIdle /\ ImageOf({P!Echo}) /\ imageIn \in Typing
     \/ part = "driven" /\ SourceIdle /\ ImageOf(P!Looping) /\ imageIn \in {<< >>, <<1, 0, 1>>}
     \/ part = "both" /\ source \in AgreeingSources /\ stdinBytes = <<1, 0>> /\ image = Image /\ imageIn = stdinBytes
     \/ part = "source" /\ source \in Separated /\ stdinBytes = << >> /\ ImageOf({P!Echo}) /\ imageIn = << >>
  /\ M!Prepared
  /\ typed = imageIn /\ pushed = << >> /\ compared = << >>

FlagWriters == {"xor", "and", "or", "test", "add", "sub", "inc", "dec", "neg", "shl", "shr", "sar", "imul"}
imageVars == <<image, imageCpu, imageStatus, imageCount, imageLast,
               imageExit, imageOut, imageErr, imageIn, imageCursor>>
Type ==
  \E text \in Typing : M!AppendStdin(text) /\ Len(typed) + Len(text) <= TypedBound /\ typed' = typed \o text
Driving == part = "driven" /\ M!Drive /\ UNCHANGED <<vars, part, typed, history>>

(* An instruction that did not fault is remembered.                         *)
Remembers ==
  LET i == imageLast'
      bits == M!Bits(i.args[1])
      operands == [l |-> M!Value(imageCpu, i.args[1]), r |-> M!Value(imageCpu, i.args[2]), bits |-> bits]
  IN  IF imageCount' = imageCount \/ imageCpu'.fault THEN UNCHANGED history
      ELSE /\ pushed' =
                CASE i.op = "push" -> Append(pushed, [at |-> imageCpu'.regs["rsp"], value |-> M!Value(imageCpu, i.args[1])])
                  [] i.op = "call" -> Append(pushed, [at |-> imageCpu'.regs["rsp"], value |-> i.end])
                  [] i.op \in {"pop", "ret"} /\ pushed # << >> -> SubSeq(pushed, 1, Len(pushed) - 1)
                  [] OTHER -> pushed
           /\ compared' = CASE i.op = "cmp" -> <<operands>>
                            [] i.op \in FlagWriters -> << >>
                            [] OTHER -> compared
Steps ==
  \/ part = "image" /\ M!Step /\ Remembers /\ UNCHANGED <<vars, part, typed>>
  \/ part = "typed" /\ (M!Step \/ M!MarkRunning \/ M!Pause) /\ UNCHANGED <<vars, part, typed, history>>
  \/ part = "typed" /\ Type /\ UNCHANGED <<vars, part, history>>
  \/ Driving
  \/ part = "both" /\ BothNext /\ UNCHANGED <<part, typed, history>>
  \/ part = "source" /\ Next /\ UNCHANGED <<imageVars, part, typed, history>>
Interpreters == Start /\ [][Steps]_all /\ WF_all(Driving)

(* The echo writes what was typed, in order and nothing twice, while text   *)
(* is appended and the session paused and resumed at any point              *)
(* (appendExecutionStdin, read and write).                                  *)
EchoIsPrefix == part = "typed" => Len(imageOut) <= Len(typed) /\ imageOut = SubSeq(typed, 1, Len(imageOut))

(* Both readings of a program agree: as long as neither interpreter has     *)
(* refused an instruction, a source and its image are in the same state; a  *)
(* label names what follows it; the echo is what was typed.                 *)
ProgramsAgree == M!TypeOK /\ EchoIsPrefix /\ (part = "both" => Agree) /\ LabelNamesNext

(* A conditional jump is taken exactly when the operands of the comparison  *)
(* were in its relation, unsigned for ja and jb and their complements,      *)
(* signed for jg and jl, also after moves that overwrote them (branchTaken  *)
(* over setSubFlags).                                                       *)
BranchDecides ==
  [][M!Executed({"je", "jne", "ja", "jbe", "jae", "jb", "jg", "jle", "jge", "jl"}) /\ compared # << >> =>
     LET c == compared[1]
     IN  imageCpu'.regs["rip"] =
           IF M!Relation(imageLast'.op, Clip(c.l, c.bits), Clip(c.r, c.bits),
                         SignedValue(c.l, c.bits), SignedValue(c.r, c.bits))
           THEN imageLast'.target ELSE imageLast'.end]_all

(* What a push or a call put on the stack and nothing took off is there, at *)
(* its place, and the stack pointer is at the newest; a pop or a return     *)
(* takes off the newest, whatever was pushed and popped in between and      *)
(* wherever the stack ends.                                                 *)
OnStack(e) == M!ReadUnsigned(imageCpu.mem, e.at, 8) = e.value
StackIsKept ==
  [][/\ image \in P!Nested =>
          /\ \A k \in DOMAIN pushed : OnStack(pushed[k]) /\ (k > 1 => pushed[k - 1].at = pushed[k].at + 8)
          /\ pushed # << >> => imageCpu.regs["rsp"] = pushed[Len(pushed)].at
     /\ image \in P!Nested /\ M!Executed({"pop"}) =>
          M!Value(imageCpu', imageLast'.args[1]) = pushed[Len(pushed)].value
     /\ image \in P!Nested /\ M!Executed({"ret"}) =>
          imageCpu'.regs["rip"] = pushed[Len(pushed)].value]_all

(* The flags of a comparison, an addition, a shift or a product describe    *)
(* its exact result, a branch goes where the operands say, and a narrow     *)
(* alias keeps the rest of its register.                                    *)
ArithmeticIsTrue ==
  M!FlagsDescribe /\ BranchDecides /\ M!ShiftIsRepeated /\ M!ProductFits /\ M!PartialWrites
(* Memory changes in writable pages only, even half way through a fault,    *)
(* which leaves the registers alone, and the stack is as pushes and calls   *)
(* left it.                                                                 *)
StoresAreKept == M!OnlyWritableChanges /\ M!FaultsKeepRegisters /\ StackIsKept
(* A session that is driven without pauses ends (runSession).               *)
DrivenEnds == part = "driven" ~> imageStatus \in M!Terminal
=============================================================================
